----------------------------- MODULE IntakeProofs -----------------------------
(***************************************************************************)
(* What Intake promises for every choice of its constants.  Four           *)
(* invariants, each inductive given the ones before it: the run's, the     *)
(* import's, the survey lane's and the pool's.                             *)
(***************************************************************************)
EXTENDS Intake, FiniteSetTheorems, SequenceTheorems, WellFoundedInduction, TLAPS

(***************************************************************************)
(* The run: what names, row and announced have to do with one another at   *)
(* each stage of the executor.                                             *)
(***************************************************************************)
Announces(event, list) ==
  /\ event.selected = list
  /\ (event.type = "discovery_empty") <=> (list = <<>>)

Chosen == raised \/ names \in Selected(found, request.seeds, request.cap)

RunInv ==
  /\ stage \in {"begin", "ask", "persist", "design", "seed", "warm", "pool", "graph", "aborted"}
  /\ request \in Requests /\ row \in Seq(Names) /\ names \in Seq(Names)
  /\ asked \in 0 .. Queries /\ found \subseteq Pages /\ raised \in BOOLEAN
  /\ stage = "begin" => /\ row = request.directed /\ names = <<>>
                        /\ announced = NoEvent /\ asked = 0
  /\ stage = "ask" => /\ request.directed = <<>> /\ row = <<>> /\ names = <<>>
                      /\ announced = NoEvent
  /\ stage = "persist" => row = <<>> /\ Announces(announced, names)
  /\ stage \in {"design", "seed", "warm", "pool", "graph"} =>
       /\ row = names
       /\ announced = NoEvent \/ Announces(announced, names)
  /\ announced # NoEvent => Chosen

LEMMA RequestTyped ==
  ASSUME NEW r \in Requests
  PROVE  r.directed \in Seq(Names) /\ r.seeds \in Seq(Names) /\ r.cap \in 1 .. 6
BY IntakeAssumption

LEMMA NameTyped ==
  \A b \in Brands, t \in Spellings : [brand |-> b, spelling |-> t] \in Names
BY DEF Names

LEMMA RanksTyped ==
  ASSUME NEW P, NEW ranked \in Rankings(P)
  PROVE  /\ Cardinality(Candidates(P)) \in Nat /\ IsFiniteSet(Candidates(P))
         /\ ranked \in [1 .. Cardinality(Candidates(P)) -> Candidates(P)]
         /\ Titled(ranked) \in Seq(Names) /\ Len(Titled(ranked)) = Cardinality(Candidates(P))
         /\ \A i \in 1 .. Cardinality(Candidates(P)) : Titled(ranked)[i].brand = ranked[i]
<1>1. Candidates(P) \subseteq Brands
  BY DEF Candidates
<1>2. IsFiniteSet(Candidates(P)) /\ Cardinality(Candidates(P)) \in Nat
  BY <1>1, IntakeAssumption, FS_Subset, FS_CardinalityType
<1>3. ranked \in [1 .. Cardinality(Candidates(P)) -> Candidates(P)]
  BY DEF Rankings
<1>4. Titled(ranked) \in [1 .. Cardinality(Candidates(P)) -> Names]
  <2>1. \A i \in 1 .. Cardinality(Candidates(P)) :
          [brand |-> ranked[i], spelling |-> "title"] \in Names
    BY <1>1, <1>3, NameTyped, IntakeAssumption
  <2> QED
    BY <1>3, <2>1 DEF Titled
<1>5. Titled(ranked) \in Seq(Names) /\ Len(Titled(ranked)) = Cardinality(Candidates(P))
  BY <1>2, <1>4
<1>6. \A i \in 1 .. Cardinality(Candidates(P)) : Titled(ranked)[i].brand = ranked[i]
  BY <1>3 DEF Titled
<1> QED
  BY <1>2, <1>3, <1>5, <1>6

LEMMA PlacesTyped ==
  ASSUME NEW list \in Seq(Names), NEW at \in Places(list)
  PROVE  /\ Firsts(list) \subseteq 1 .. Len(list) /\ IsFiniteSet(Firsts(list))
         /\ Cardinality(Firsts(list)) \in Nat
         /\ at \in [1 .. Cardinality(Firsts(list)) -> Firsts(list)]
         /\ \A i, j \in 1 .. Cardinality(Firsts(list)) : i < j => at[i] < at[j]
<1>1. Firsts(list) \subseteq 1 .. Len(list) /\ Len(list) \in Nat
  BY DEF Firsts
<1>2. IsFiniteSet(1 .. Len(list))
  BY <1>1, FS_Interval, 1 \in Int, Len(list) \in Int
<1>3. IsFiniteSet(Firsts(list)) /\ Cardinality(Firsts(list)) \in Nat
  BY <1>1, <1>2, FS_Subset, FS_CardinalityType
<1> QED
  BY <1>1, <1>3 DEF Places

LEMMA DistinctTyped ==
  ASSUME NEW list \in Seq(Names), NEW all \in Distinct(list)
  PROVE  all \in Seq(Names)
<1>1. PICK at \in Places(list) : all = [i \in DOMAIN at |-> list[at[i]]]
  BY DEF Distinct
<1>2. all \in [1 .. Cardinality(Firsts(list)) -> Names]
  <2>1. /\ at \in [1 .. Cardinality(Firsts(list)) -> Firsts(list)]
        /\ Firsts(list) \subseteq 1 .. Len(list)
    BY PlacesTyped
  <2> QED
    BY <1>1, <2>1
<1> QED
  BY <1>2, PlacesTyped

\* The cut is a prefix of at most cap names.
LEMMA CutIsPrefix ==
  ASSUME NEW list \in Seq(Names), NEW cap \in 1 .. 6
  PROVE  /\ Cut(list, cap) \in Seq(Names)
         /\ Len(Cut(list, cap)) <= cap /\ Len(Cut(list, cap)) <= Len(list)
         /\ \A i \in 1 .. Len(Cut(list, cap)) : Cut(list, cap)[i] = list[i]
<1> DEFINE n == IF Len(list) < cap THEN Len(list) ELSE cap
<1>1. n \in Nat /\ n <= Len(list) /\ n <= cap
  OBVIOUS
<1>2. SubSeq(list, 1, n) \in Seq(Names) /\ Len(SubSeq(list, 1, n)) = n
  BY <1>1, SubSeqProperties
<1>3. \A i \in 1 .. n : SubSeq(list, 1, n)[i] = list[i]
  BY <1>1, SubSeqProperties
<1> QED
  BY <1>1, <1>2, <1>3 DEF Cut

LEMMA SelectedTyped ==
  ASSUME NEW P, NEW seeds \in Seq(Names), NEW cap \in 1 .. 6,
         NEW best \in Selected(P, seeds, cap)
  PROVE  best \in Seq(Names)
<1>1. PICK r \in Rankings(P) : \E all \in Distinct(seeds \o Titled(r)) : best = Cut(all, cap)
  BY DEF Selected
<1>2. seeds \o Titled(r) \in Seq(Names)
  BY RanksTyped, ConcatProperties
<1> QED
  BY <1>1, <1>2, DistinctTyped, CutIsPrefix

LEMMA RunInvInit == Init => RunInv
<1> SUFFICES ASSUME Init PROVE RunInv
  OBVIOUS
<1>1. row \in Seq(Names) /\ names \in Seq(Names)
  BY RequestTyped DEF Init
<1>2. asked \in 0 .. Queries /\ found \subseteq Pages
  BY IntakeAssumption DEF Init
<1> QED
  BY <1>1, <1>2 DEF Init, RunInv

LEMMA RunInvNext == RunInv /\ [Next]_vars => RunInv'
<1> SUFFICES ASSUME RunInv, [Next]_vars PROVE RunInv'
  OBVIOUS
<1> USE DEF RunInv
<1>1. CASE Begin
  BY <1>1, RequestTyped DEF Begin, Chosen
<1>2. CASE Ask
  BY <1>2, IntakeAssumption DEF Ask, Chosen
<1>3. ASSUME NEW best \in Selected(found, request.seeds, request.cap), Announce(best, FALSE)
      PROVE  RunInv'
  <2>1. best \in Seq(Names)
    BY <1>3, SelectedTyped, RequestTyped
  <2>2. Announces(announced', names') /\ Chosen'
    BY <1>3 DEF Announce, Announces, Chosen
  <2>3. asked' = 0 /\ 0 \in 0 .. Queries
    BY <1>3, IntakeAssumption DEF Announce
  <2>4. found' = found /\ raised' = FALSE
    BY <1>3 DEF Announce
  <2> QED
    BY <1>3, <2>1, <2>2, <2>3, <2>4 DEF Announce
<1>4. CASE Announce(request.seeds, TRUE)
  BY <1>4, RequestTyped, IntakeAssumption DEF Announce, Announces, Chosen
<1>5. CASE Persist
  BY <1>5 DEF Persist, Chosen
<1>6. CASE Abort
  BY <1>6 DEF Abort, Chosen
<1>7. CASE Design
  BY <1>7 DEF Design, LaneStep, Chosen
<1>8. CASE Seed
  BY <1>8 DEF Seed, SeedRow, SeedNext, SeedDone, GiveUpLane, LaneFails, LaneStep, Chosen
<1>9. CASE Warm \/ Invoke
  BY <1>9 DEF Warm, Invoke, ExceptStage, Chosen
<1>10. CASE Thread \/ Passing
  BY <1>10 DEF Thread, Passing, ExceptStage, Chosen
<1>11. CASE Import
  BY <1>11 DEF Import, ImportAsked, ImportRow, ImportEvent, ImportFails, ImportStep, runVars,
               Chosen
<1>12. CASE UNCHANGED vars
  BY <1>12 DEF vars, runVars, Chosen
<1> QED
  BY <1>1, <1>2, <1>3, <1>4, <1>5, <1>6, <1>7, <1>8, <1>9, <1>10, <1>11, <1>12
  DEF Next, Executor, Discover

LEMMA RunInvAlways == Spec => []RunInv
BY RunInvInit, RunInvNext, PTL DEF Spec

(* The row of the run, the event in the trace and the list the graph is    *)
(* given agree whenever the executor has come to the warm-up, whatever     *)
(* became of discovery (runner.py:109-120, 322-334).                       *)
THEOREM ToldTheSame == Spec => []ListAgrees
<1>1. RunInv => ListAgrees
  BY DEF RunInv, ListAgrees, Ready, Announces
<1> QED
  BY <1>1, RunInvAlways, PTL

(***************************************************************************)
(* What is selected: the places kept are first places, in order, and none  *)
(* is passed over; the finds are ranked, and none is missing.              *)
(***************************************************************************)
LEMMA Least ==
  ASSUME NEW T, T \subseteq Nat, T # {}
  PROVE  \E x \in T : \A y \in T : x <= y
<1>1. PICK x \in T : \A y \in T : ~ (<<y, x>> \in OpToRel(<, Nat))
  BY NatLessThanWellFounded, WFMin
<1>2. \A y \in T : ~ (y < x)
  BY <1>1 DEF OpToRel
<1> QED
  BY <1>2

\* As many different members as the set has are all of them.
LEMMA NoneIsMissing ==
  ASSUME NEW S, IsFiniteSet(S), NEW list \in [1 .. Cardinality(S) -> S],
         \A i, j \in 1 .. Cardinality(S) : i < j => list[i] # list[j]
  PROVE  \A x \in S : \E i \in 1 .. Cardinality(S) : list[i] = x
<1> DEFINE n == Cardinality(S)
<1>1. n \in Nat /\ Cardinality(1 .. n) = n
  BY FS_CardinalityType, FS_Interval
<1>2. \A i, j \in 1 .. n : list[i] = list[j] => i = j
  <2> SUFFICES ASSUME NEW i \in 1 .. n, NEW j \in 1 .. n, list[i] = list[j], i # j PROVE FALSE
    OBVIOUS
  <2>1. i < j \/ j < i
    BY <1>1
  <2> QED
    BY <2>1
<1>3. list \in Injection(1 .. n, S)
  BY <1>2 DEF Injection, IsInjective
<1>4. list \in Surjection(1 .. n, S)
  BY <1>1, <1>3, FS_Injection
<1> QED
  BY <1>4 DEF Surjection

LEMMA RanksAll ==
  ASSUME NEW P, NEW ranked \in Rankings(P)
  PROVE  \A b \in Candidates(P) : \E i \in 1 .. Cardinality(Candidates(P)) : ranked[i] = b
<1>1. Candidates(P) \subseteq Brands
  BY DEF Candidates
<1>2. \A a \in Candidates(P) : ~ Beats(P, a, a)
  BY <1>1, ShorterAssumption DEF Beats
<1>3. /\ ranked \in [1 .. Cardinality(Candidates(P)) -> Candidates(P)]
      /\ \A i, j \in 1 .. Cardinality(Candidates(P)) : i < j => Beats(P, ranked[i], ranked[j])
  BY DEF Rankings
<1>4. \A i, j \in 1 .. Cardinality(Candidates(P)) : i < j => ranked[i] # ranked[j]
  BY <1>2, <1>3
<1> QED
  BY <1>3, <1>4, NoneIsMissing, RanksTyped

LEMMA PlacesAll ==
  ASSUME NEW list \in Seq(Names), NEW at \in Places(list)
  PROVE  \A k \in Firsts(list) : \E i \in 1 .. Cardinality(Firsts(list)) : at[i] = k
<1>1. \A i, j \in 1 .. Cardinality(Firsts(list)) : i < j => at[i] # at[j]
  <2> SUFFICES ASSUME NEW i \in 1 .. Cardinality(Firsts(list)),
                      NEW j \in 1 .. Cardinality(Firsts(list)), i < j
               PROVE  at[i] # at[j]
    OBVIOUS
  <2>1. at[i] < at[j] /\ at[i] \in Nat /\ at[j] \in Nat
    BY PlacesTyped
  <2> QED
    BY <2>1
<1>2. IsFiniteSet(Firsts(list)) /\ at \in [1 .. Cardinality(Firsts(list)) -> Firsts(list)]
  BY PlacesTyped
<1> QED
  BY <1>1, <1>2, NoneIsMissing

\* Every brand of a list has a first place.
LEMMA FirstPlace ==
  ASSUME NEW list \in Seq(Names), NEW k \in 1 .. Len(list)
  PROVE  \E first \in Firsts(list) : first <= k /\ list[first].brand = list[k].brand
<1> DEFINE T == {i \in 1 .. Len(list) : list[i].brand = list[k].brand}
<1>1. T \subseteq Nat /\ k \in T
  OBVIOUS
<1>2. PICK first \in T : \A y \in T : first <= y
  BY <1>1, Least
<1>3. \A j \in 1 .. first - 1 : list[j].brand # list[first].brand
  <2> SUFFICES ASSUME NEW j \in 1 .. first - 1, list[j].brand = list[first].brand PROVE FALSE
    OBVIOUS
  <2>1. j \in T /\ j < first
    BY <1>1, <1>2
  <2> QED
    BY <1>1, <1>2, <2>1
<1>4. first \in Firsts(list)
  BY <1>2, <1>3 DEF Firsts
<1> QED
  BY <1>1, <1>2, <1>4

LEMMA SelectionSound ==
  ASSUME NEW P, NEW seeds \in Seq(Names), NEW cap \in 1 .. 6, NEW best \in Selected(P, seeds, cap)
  PROVE  /\ Len(best) <= cap /\ Cardinality(BrandsOf(best)) = Len(best)
         /\ \A i, j \in DOMAIN best :
              i < j /\ best[j].brand \in BrandsOf(seeds) => best[i].brand \in BrandsOf(seeds)
         /\ \A b \in Candidates(P) \ BrandsOf(best), c \in BrandsOf(best) \ BrandsOf(seeds) :
              Official(P, b) => Official(P, c)
<1>1. PICK ranked \in Rankings(P) :
        \E all \in Distinct(seeds \o Titled(ranked)) : best = Cut(all, cap)
  BY DEF Selected
<1> DEFINE list  == seeds \o Titled(ranked)
           s     == Len(seeds)
           count == Cardinality(Candidates(P))
           m     == Cardinality(Firsts(list))
           n     == Len(best)
<1>2. PICK at \in Places(list) : best = Cut([i \in DOMAIN at |-> list[at[i]]], cap)
  BY <1>1 DEF Distinct
<1> DEFINE all == [i \in DOMAIN at |-> list[at[i]]]
<1>3. /\ s \in Nat /\ count \in Nat /\ list \in Seq(Names) /\ Len(list) = s + count
      /\ \A i \in 1 .. s : list[i] = seeds[i]
      /\ \A i \in 1 .. count : list[s + i].brand = ranked[i]
  <2>1. Titled(ranked) \in Seq(Names) /\ Len(Titled(ranked)) = count /\ count \in Nat
    BY RanksTyped
  <2>2. /\ list \in Seq(Names) /\ Len(list) = s + count /\ s \in Nat
        /\ \A i \in 1 .. s : list[i] = seeds[i]
        /\ \A i \in 1 .. s + count : i > s => list[i] = Titled(ranked)[i - s]
    <3> DEFINE titled == Titled(ranked)
    <3>1. titled \in Seq(Names)
      BY <2>1
    <3> HIDE DEF titled
    <3>2. /\ seeds \o titled \in Seq(Names) /\ Len(seeds \o titled) = Len(seeds) + Len(titled)
          /\ \A i \in 1 .. Len(seeds) : (seeds \o titled)[i] = seeds[i]
          /\ \A i \in 1 .. Len(seeds) + Len(titled) :
               i > Len(seeds) => (seeds \o titled)[i] = titled[i - Len(seeds)]
      BY <3>1, ConcatProperties
    <3>3. titled = Titled(ranked) /\ Len(seeds) \in Nat
      BY DEF titled
    <3> QED
      BY <2>1, <3>2, <3>3
  <2>3. ASSUME NEW i \in 1 .. count PROVE list[s + i].brand = ranked[i]
    <3>1. s + i \in 1 .. s + count /\ s + i > s /\ (s + i) - s = i
      BY <2>1, <2>2
    <3>2. list[s + i] = Titled(ranked)[i]
      BY <2>2, <3>1
    <3> QED
      BY <3>2, RanksTyped
  <2> QED
    BY <2>1, <2>2, <2>3
<1>4. /\ m \in Nat /\ Firsts(list) \subseteq 1 .. s + count
      /\ at \in [1 .. m -> Firsts(list)]
      /\ \A i, j \in 1 .. m : i < j => at[i] < at[j]
      /\ \A k \in Firsts(list) : \E i \in 1 .. m : at[i] = k
  BY <1>3, PlacesTyped, PlacesAll
<1>5. all \in Seq(Names) /\ Len(all) = m
  <2>1. all \in Distinct(list)
    BY DEF Distinct
  <2>2. all \in Seq(Names)
    BY <1>3, <2>1, DistinctTyped
  <2>3. DOMAIN all = 1 .. m
    BY <1>4
  <2> HIDE DEF all
  <2> QED
    BY <1>4, <2>2, <2>3
<1>6. /\ n \in Nat /\ n <= cap /\ n <= m /\ best \in Seq(Names)
      /\ \A i \in 1 .. n : best[i] = all[i]
  <2> HIDE DEF all
  <2>1. best = Cut(all, cap)
    BY <1>2 DEF all
  <2>2. Cut(all, cap) \in Seq(Names) /\ Len(Cut(all, cap)) <= cap /\ Len(Cut(all, cap)) <= m
        /\ \A i \in 1 .. Len(Cut(all, cap)) : Cut(all, cap)[i] = all[i]
    BY <1>5, CutIsPrefix
  <2> QED
    BY <2>1, <2>2
<1>7. /\ DOMAIN best = 1 .. n
      /\ \A i \in 1 .. n : /\ i \in 1 .. m /\ at[i] \in Firsts(list)
                           /\ at[i] \in 1 .. s + count /\ best[i] = list[at[i]]
  <2> HIDE DEF m, n, list, s, count
  <2>1. \A i \in 1 .. n : i \in 1 .. m
    BY <1>4, <1>6
  <2>2. \A i \in 1 .. m : all[i] = list[at[i]]
    BY <1>4
  <2>3. \A i \in 1 .. m : at[i] \in Firsts(list) /\ at[i] \in 1 .. s + count
    BY <1>4
  <2>4. DOMAIN best = 1 .. n
    BY <1>6 DEF n
  <2> HIDE DEF all
  <2> QED
    BY <1>6, <2>1, <2>2, <2>3, <2>4
<1> HIDE DEF list, s, count, m, n, all
<1>8. \A k \in Firsts(list), j \in 1 .. s + count :
        j < k => list[j].brand # list[k].brand
  BY <1>3, <1>4 DEF Firsts
<1>9. ASSUME NEW i \in 1 .. n, NEW j \in 1 .. n, best[i].brand = best[j].brand PROVE i = j
  <2>1. at[i] = at[j]
    <3>1. at[i] \in Nat /\ at[j] \in Nat /\ ~ (at[i] < at[j]) /\ ~ (at[j] < at[i])
      BY <1>3, <1>7, <1>8, <1>9
    <3> QED
      BY <3>1
  <2>2. ~ (i < j) /\ ~ (j < i)
    <3>1. ~ (at[i] < at[j]) /\ ~ (at[j] < at[i])
      BY <1>3, <1>7, <2>1
    <3> QED
      BY <1>4, <1>7, <3>1
  <2> QED
    BY <1>6, <2>2
<1>10. Cardinality(BrandsOf(best)) = n
  <2> DEFINE brand == [i \in 1 .. n |-> best[i].brand]
  <2>1. brand \in Bijection(1 .. n, BrandsOf(best))
    <3>1. brand \in [1 .. n -> BrandsOf(best)]
      BY <1>7 DEF BrandsOf
    <3>2. brand \in Injection(1 .. n, BrandsOf(best))
      BY <1>9, <3>1 DEF Injection, IsInjective
    <3>3. brand \in Surjection(1 .. n, BrandsOf(best))
      BY <1>7, <3>1 DEF Surjection, BrandsOf
    <3> QED
      BY <3>2, <3>3 DEF Bijection
  <2>2. IsFiniteSet(1 .. n) /\ Cardinality(1 .. n) = n
    BY <1>6, FS_Interval
  <2> QED
    BY <2>1, <2>2, FS_Bijection DEF ExistsBijection
\* A place among the seeds has a seed's brand, and the first place of one is there.
<1>11. \A k \in 1 .. s + count : k <= s => list[k].brand \in BrandsOf(seeds)
  <2> SUFFICES ASSUME NEW k \in 1 .. s + count, k <= s PROVE list[k].brand \in BrandsOf(seeds)
    OBVIOUS
  <2>1. k \in DOMAIN seeds /\ list[k] = seeds[k]
    BY <1>3 DEF s
  <2> QED
    BY <2>1 DEF BrandsOf
<1>12. \A k \in Firsts(list) : list[k].brand \in BrandsOf(seeds) => k <= s
  <2> SUFFICES ASSUME NEW k \in Firsts(list), list[k].brand \in BrandsOf(seeds), k > s PROVE FALSE
    BY <1>3, <1>4
  <2>1. PICK j \in 1 .. s : seeds[j].brand = list[k].brand
    BY DEF BrandsOf, s
  <2>2. list[j].brand = list[k].brand /\ j < k /\ j \in 1 .. s + count
    BY <1>3, <1>4, <2>1
  <2> QED
    BY <1>8, <2>2
<1>13. ASSUME NEW i \in 1 .. n, NEW j \in 1 .. n, i < j, best[j].brand \in BrandsOf(seeds)
       PROVE  best[i].brand \in BrandsOf(seeds)
  <2>1. at[j] <= s /\ at[i] < at[j]
    BY <1>4, <1>7, <1>12, <1>13
  <2>2. at[i] <= s
    BY <1>3, <1>7, <2>1
  <2> QED
    BY <1>7, <1>11, <2>2
<1>14. ASSUME NEW b \in Candidates(P) \ BrandsOf(best),
              NEW c \in BrandsOf(best) \ BrandsOf(seeds), Official(P, b)
       PROVE  Official(P, c)
  <2>1. PICK i \in 1 .. n : best[i].brand = c
    BY <1>7 DEF BrandsOf
  <2>2. at[i] > s /\ list[at[i]].brand = c
    BY <1>3, <1>7, <1>11, <1>14, <2>1
  <2>3. PICK r \in 1 .. count : at[i] = s + r
    <3>1. at[i] - s \in 1 .. count /\ at[i] = s + (at[i] - s)
      BY <1>3, <1>7, <2>2
    <3> QED
      BY <3>1
  <2>4. ranked[r] = c
    BY <1>3, <2>2, <2>3
  <2>5. PICK q \in 1 .. count : ranked[q] = b
    BY RanksAll DEF count
  \* Had b been ranked ahead of c, its first place would have been kept and not cut.
  <2>6. r < q
    <3> SUFFICES ASSUME q <= r PROVE FALSE
      BY <1>3
    <3>1. s + q \in 1 .. Len(list) /\ s + q <= at[i] /\ list[s + q].brand = b
      BY <1>3, <2>3, <2>5
    <3>2. PICK first \in Firsts(list) : first <= s + q /\ list[first].brand = b
      BY <1>3, <3>1, FirstPlace
    <3>3. PICK j \in 1 .. m : at[j] = first
      BY <1>4, <3>2
    <3>4. j <= i
      <4>1. ~ (i < j)
        <5>1. ~ (at[i] < at[j])
          BY <1>3, <1>4, <1>7, <3>1, <3>2, <3>3
        <5> QED
          BY <1>4, <1>7, <5>1
      <4> QED
        BY <1>4, <1>6, <4>1
    <3>5. j \in 1 .. n /\ best[j].brand = b
      <4>1. j \in 1 .. n
        BY <1>4, <1>6, <3>4
      <4> QED
        BY <1>7, <3>2, <3>3, <4>1
    <3> QED
      BY <1>7, <1>14, <3>5 DEF BrandsOf
  <2>7. Beats(P, c, b)
    BY <2>4, <2>5, <2>6 DEF Rankings, count
  <2> QED
    BY <1>14, <2>7 DEF Beats
<1> QED
  BY <1>6, <1>7, <1>10, <1>13, <1>14 DEF n

(* Discovery selects no more than the cap and no brand twice, the reader's *)
(* seeds before any find, and no find known only from others' pages while  *)
(* one whose own site was seen is left out (discovery.py:315-359).         *)
THEOREM SelectionAlwaysSound == Spec => []SelectionIsSound
<1>1. RunInv => SelectionIsSound
  <2> SUFFICES ASSUME RunInv, announced # NoEvent, ~raised PROVE SelectionIsSound
    BY DEF SelectionIsSound
  <2>1. names \in Selected(found, request.seeds, request.cap)
    BY DEF RunInv, Chosen
  <2>2. request.seeds \in Seq(Names) /\ request.cap \in 1 .. 6
    BY RequestTyped DEF RunInv
  <2> QED
    BY <2>1, <2>2, SelectionSound DEF SelectionIsSound
<1> QED
  BY <1>1, RunInvAlways, PTL

(***************************************************************************)
(* The import: which responses are stored while it is where.               *)
(***************************************************************************)
Stored == {k \in 1 .. Responses : <<"import", k>> \in sources}

ImportInv ==
  /\ import \in {"idle", "refused", "row", "event", "done", "failed"}
  /\ response \in 1 .. Responses + 1 /\ audited \in BOOLEAN
  /\ import \in {"idle", "refused"} => response = 1 /\ Stored = {}
  /\ import = "row" => response <= Responses /\ Stored = 1 .. response - 1
  /\ import \in {"event", "done"} => Stored = 1 .. Responses
  /\ audited <=> import = "done"

\* A seeded row is never taken for an imported one.
LEMMA SeededAreOthers ==
  ASSUME NEW b, NEW answer, NEW k
  PROVE  SourceId(b, answer) # <<"import", k>>
<1>1. DOMAIN SourceId(b, answer) = 1 .. 3
  BY DEF SourceId
<1>2. DOMAIN <<"import", k>> = 1 .. 2
  OBVIOUS
<1>3. 3 \in 1 .. 3 /\ 3 \notin 1 .. 2
  OBVIOUS
<1> QED
  BY <1>1, <1>2, <1>3

LEMMA ResponsesDiffer ==
  ASSUME NEW k, NEW l, <<"import", k>> = <<"import", l>>
  PROVE  k = l
OBVIOUS

LEMMA StoredStays ==
  ASSUME \A k : <<"import", k>> \in sources' <=> <<"import", k>> \in sources
  PROVE  Stored' = Stored
BY DEF Stored

LEMMA SeedingStoresNothing ==
  ASSUME SeedRow PROVE Stored' = Stored
<1>1. sources' = sources \cup {SourceId(Competitor.brand, Answered[spot[2]])}
  BY DEF SeedRow
<1> QED
  BY <1>1, SeededAreOthers, StoredStays

LEMMA ImportInvInit == Init => ImportInv
<1> SUFFICES ASSUME Init PROVE ImportInv
  OBVIOUS
<1>1. Stored = {}
  BY DEF Init, Stored
<1>2. response \in 1 .. Responses + 1
  BY IntakeAssumption DEF Init
<1> QED
  BY <1>1, <1>2 DEF Init, ImportInv

LEMMA ImportInvNext == ImportInv /\ [Next]_vars => ImportInv'
<1> SUFFICES ASSUME ImportInv, [Next]_vars PROVE ImportInv'
  OBVIOUS
<1>1. ASSUME UNCHANGED importVars, Stored' = Stored PROVE ImportInv'
  BY <1>1 DEF ImportInv, importVars
<1>2. ASSUME UNCHANGED importVars, UNCHANGED sources PROVE ImportInv'
  BY <1>1, <1>2, StoredStays
<1>3. CASE Begin \/ Ask \/ Discover \/ Persist \/ Abort
  BY <1>2, <1>3 DEF Begin, Ask, Discover, Announce, Persist, Abort
<1>4. CASE SeedRow
  BY <1>1, <1>4, SeedingStoresNothing DEF SeedRow, LaneStep
<1>5. CASE Design \/ SeedNext \/ SeedDone \/ GiveUpLane
  BY <1>2, <1>5 DEF Design, SeedNext, SeedDone, GiveUpLane, LaneFails, LaneStep
<1>6. CASE Warm \/ Invoke \/ Thread \/ Passing
  BY <1>2, <1>6 DEF Warm, Invoke, Thread, Passing, ExceptStage
<1>7. CASE ImportAsked
  <2>1. Stored' = Stored
    BY <1>7, StoredStays DEF ImportAsked
  <2>2. 1 <= Responses
    BY IntakeAssumption
  <2>3. \A n : n = 1 => 1 .. n - 1 = {}
    OBVIOUS
  <2> QED
    BY <1>7, <2>1, <2>2, <2>3 DEF ImportAsked, ImportInv
<1>8. CASE ImportRow
  <2>1. response \in 1 .. Responses /\ Stored = 1 .. response - 1 /\ Responses \in Nat
    BY <1>8, IntakeAssumption DEF ImportRow, ImportInv
  <2>2. Stored' = Stored \cup {response}
    BY <1>8, <2>1, ResponsesDiffer DEF ImportRow, Stored
  <2>3. Stored' = 1 .. response
    BY <2>1, <2>2
  <2>4. response' = response + 1 /\ audited' = audited /\ import = "row"
        /\ import' = IF response = Responses THEN "event" ELSE "row"
    BY <1>8 DEF ImportRow
  <2>5. response' \in 1 .. Responses + 1 /\ 1 .. response = 1 .. response' - 1
    BY <2>1, <2>4
  <2>6. CASE response = Responses
    BY <2>1, <2>3, <2>4, <2>5, <2>6 DEF ImportInv
  <2>7. CASE response # Responses
    <3>1. response' <= Responses
      BY <2>1, <2>4, <2>7
    <3> QED
      BY <2>3, <2>4, <2>5, <2>7, <3>1 DEF ImportInv
  <2> QED
    BY <2>6, <2>7
<1>9. CASE ImportEvent
  <2>1. Stored' = Stored
    BY <1>9, StoredStays DEF ImportEvent
  <2> QED
    BY <1>9, <2>1 DEF ImportEvent, ImportInv
<1>10. CASE ImportFails
  <2>1. Stored' = Stored
    BY <1>10, StoredStays DEF ImportFails
  <2> QED
    BY <1>10, <2>1 DEF ImportFails, ImportInv
<1>11. CASE UNCHANGED vars
  BY <1>2, <1>11 DEF vars
<1> QED
  BY <1>3, <1>4, <1>5, <1>6, <1>7, <1>8, <1>9, <1>10, <1>11 DEF Next, Executor, Seed, Import

LEMMA ImportInvAlways == Spec => []ImportInv
BY ImportInvInit, ImportInvNext, PTL DEF Spec

(* No imported answer is left without its audit event, unless the store    *)
(* itself failed, and the event covers all the responses                   *)
(* (api.py:445-487), with the survey lane writing to sources meanwhile.    *)
THEOREM AuditCoversAll == Spec => []ImportIsAudited
<1>1. ImportInv => ImportIsAudited
  BY DEF ImportInv, ImportIsAudited, Stored
<1> QED
  BY <1>1, ImportInvAlways, PTL

(***************************************************************************)
(* The survey lane: what is seeded has its row and is seeded once, and      *)
(* everything in front of spot has been seeded.                             *)
(***************************************************************************)
Noted(b, k) == SourceId(b, Fixture[b][k])

Standing(rows) ==
  {e \in [source : rows, field : STRING, competitor : Names] :
     \E k \in DOMAIN Fixture[e.competitor.brand] :
       /\ e.source = Noted(e.competitor.brand, k)
       /\ e.field = Fixture[e.competitor.brand][k][2]}

NoTwice(list) == \A i, j \in DOMAIN list : list[i].source = list[j].source => i = j

Apart(list, rest) ==
  \A i \in DOMAIN list, j \in DOMAIN rest : list[i].source # rest[j].source

Holds(list, id) == \E i \in DOMAIN list : list[i].source = id

AnswersHeld(b) == \A k \in DOMAIN Fixture[b] : Holds(entries, Noted(b, k))

LaneTyped ==
  /\ spot \in Nat \X Nat /\ spot[1] \in 1 .. Len(names) + 1 /\ spot[2] >= 1
  /\ laneFailed \in BOOLEAN
  /\ entries \in Seq(Standing(sources)) /\ pending \in Seq(Standing(sources))
  /\ stage \in {"begin", "ask", "persist", "design"} =>
       spot = <<1, 1>> /\ entries = <<>> /\ pending = <<>> /\ ~laneFailed
  /\ stage = "seed" => ~laneFailed

LaneCovered ==
  /\ stage = "seed" =>
       /\ \A p \in 1 .. Len(names) : p < spot[1] => AnswersHeld(names[p].brand)
       /\ spot[1] <= Len(names) =>
            \A k \in DOMAIN Answered : k < spot[2] => Holds(pending, Noted(Competitor.brand, k))
  /\ Ready /\ ~laneFailed => \A p \in 1 .. Len(names) : AnswersHeld(names[p].brand)

LaneInv ==
  /\ LaneTyped /\ LaneCovered
  /\ NoTwice(entries) /\ NoTwice(pending) /\ Apart(entries, pending)

LEMMA FixtureTyped ==
  ASSUME NEW b \in Brands
  PROVE  /\ Fixture[b] \in Seq(Answers) /\ DOMAIN Fixture[b] = 1 .. Len(Fixture[b])
         /\ \A k \in DOMAIN Fixture[b] : Fixture[b][k] \in Answers
BY FixtureAssumption

LEMMA StandingGrows ==
  ASSUME NEW R, NEW S, R \subseteq S, NEW list \in Seq(Standing(R))
  PROVE  list \in Seq(Standing(S))
<1>1. Standing(R) \subseteq Standing(S)
  BY DEF Standing
<1> QED
  BY <1>1

\* Entries for one field of one brand are one entry.
LEMMA StandingOnce ==
  ASSUME NEW R, NEW d \in Standing(R), NEW e \in Standing(R),
         d.competitor.brand = e.competitor.brand, d.field = e.field
  PROVE  d.source = e.source
<1> DEFINE b == d.competitor.brand
<1>1. b \in Brands
  BY DEF Standing, Names
<1>2. PICK k \in DOMAIN Fixture[b] : d.source = Noted(b, k) /\ d.field = Fixture[b][k][2]
  BY DEF Standing
<1>3. PICK l \in DOMAIN Fixture[b] : e.source = Noted(b, l) /\ e.field = Fixture[b][l][2]
  BY DEF Standing
<1>4. k = l
  BY <1>1, <1>2, <1>3, FixtureAssumption
<1> QED
  BY <1>2, <1>3, <1>4

LEMMA JoinedEntries ==
  ASSUME NEW S, NEW list \in Seq(S), NEW rest \in Seq(S),
         NoTwice(list), NoTwice(rest), Apart(list, rest)
  PROVE  /\ list \o rest \in Seq(S) /\ NoTwice(list \o rest)
         /\ \A id : Holds(list, id) \/ Holds(rest, id) => Holds(list \o rest, id)
<1> DEFINE both == list \o rest
           m == Len(list)
<1>1. /\ both \in Seq(S) /\ m \in Nat /\ Len(rest) \in Nat
      /\ DOMAIN both = 1 .. m + Len(rest)
      /\ \A i \in 1 .. m : both[i] = list[i]
      /\ \A i \in 1 .. m + Len(rest) : i > m => both[i] = rest[i - m]
  BY ConcatProperties
<1>2. DOMAIN list = 1 .. m /\ DOMAIN rest = 1 .. Len(rest)
  OBVIOUS
<1>3. NoTwice(both)
  <2> SUFFICES ASSUME NEW i \in 1 .. m + Len(rest), NEW j \in 1 .. m + Len(rest),
                      both[i].source = both[j].source
               PROVE  i = j
    BY <1>1 DEF NoTwice
  <2> HIDE DEF both, m
  <2>1. CASE i <= m /\ j <= m
    <3>1. i \in DOMAIN list /\ j \in DOMAIN list
      BY <1>1, <1>2, <2>1
    <3>2. list[i].source = list[j].source
      BY <1>1, <2>1
    <3> QED
      BY <3>1, <3>2 DEF NoTwice
  <2>2. CASE i > m /\ j > m
    <3>1. i - m \in DOMAIN rest /\ j - m \in DOMAIN rest
      BY <1>1, <1>2, <2>2
    <3>2. i - m = j - m
      BY <1>1, <2>2, <3>1 DEF NoTwice
    <3> QED
      BY <1>1, <3>2
  <2>3. CASE i <= m /\ j > m
    <3>1. i \in DOMAIN list /\ j - m \in DOMAIN rest
      BY <1>1, <1>2, <2>3
    <3> QED
      BY <1>1, <2>3, <3>1 DEF Apart
  <2>4. CASE i > m /\ j <= m
    <3>1. j \in DOMAIN list /\ i - m \in DOMAIN rest
      BY <1>1, <1>2, <2>4
    <3> QED
      BY <1>1, <2>4, <3>1 DEF Apart
  <2> QED
    BY <1>1, <2>1, <2>2, <2>3, <2>4
<1>4. ASSUME NEW id, Holds(list, id) PROVE Holds(both, id)
  <2>1. PICK i \in 1 .. m : list[i].source = id
    BY <1>2, <1>4 DEF Holds
  <2>2. i \in DOMAIN both /\ both[i] = list[i]
    BY <1>1, <2>1
  <2> QED
    BY <2>1, <2>2 DEF Holds
<1>5. ASSUME NEW id, Holds(rest, id) PROVE Holds(both, id)
  <2>1. PICK j \in 1 .. Len(rest) : rest[j].source = id
    BY <1>2, <1>5 DEF Holds
  <2>2. m + j \in DOMAIN both /\ m + j > m /\ (m + j) - m = j
    BY <1>1, <2>1
  <2>3. both[m + j] = rest[j]
    BY <1>1, <2>2
  <2> QED
    BY <2>1, <2>2, <2>3 DEF Holds
<1> QED
  BY <1>1, <1>3, <1>4, <1>5

LEMMA AppendedEntry ==
  ASSUME NEW S, NEW list \in Seq(S), NEW e \in S, NoTwice(list), ~Holds(list, e.source)
  PROVE  /\ Append(list, e) \in Seq(S) /\ NoTwice(Append(list, e))
         /\ \A id : Holds(list, id) \/ id = e.source => Holds(Append(list, e), id)
         /\ \A id : Holds(Append(list, e), id) => Holds(list, id) \/ id = e.source
<1> DEFINE longer == Append(list, e)
           n == Len(list)
<1>1. /\ longer \in Seq(S) /\ n \in Nat /\ DOMAIN longer = 1 .. n + 1 /\ DOMAIN list = 1 .. n
      /\ longer[n + 1] = e
      /\ \A i \in 1 .. n : longer[i] = list[i]
  BY AppendProperties
<1> HIDE DEF longer, n
<1>2. \A i \in DOMAIN longer : i \in DOMAIN list \/ i = n + 1
  BY <1>1
<1>3. DOMAIN list \subseteq DOMAIN longer /\ n + 1 \in DOMAIN longer
  BY <1>1
<1>4. NoTwice(longer)
  BY <1>1, <1>2 DEF NoTwice, Holds
<1>5. \A id : Holds(list, id) \/ id = e.source => Holds(longer, id)
  BY <1>1, <1>3 DEF Holds
<1>6. \A id : Holds(longer, id) => Holds(list, id) \/ id = e.source
  BY <1>1, <1>2 DEF Holds
<1> QED
  BY <1>1, <1>4, <1>5, <1>6 DEF longer

LEMMA EmptyLane ==
  /\ <<>> \in Seq(Standing(sources)) /\ <<>> \in Seq(Standing(sources'))
  /\ NoTwice(<<>>) /\ Apart(<<>>, <<>>)
BY DEF NoTwice, Apart

LEMMA LaneInvInit == Init => LaneInv
<1> SUFFICES ASSUME Init PROVE LaneInv
  OBVIOUS
<1>1. LaneTyped
  <2>1. spot = <<1, 1>> /\ names = <<>> /\ entries = <<>> /\ pending = <<>>
        /\ laneFailed = FALSE /\ stage = "begin"
    BY DEF Init
  <2>2. spot \in Nat \X Nat /\ spot[1] \in 1 .. Len(names) + 1 /\ spot[2] >= 1
    BY <2>1
  <2>3. entries \in Seq(Standing(sources)) /\ pending \in Seq(Standing(sources))
    BY <2>1, EmptyLane
  <2> QED
    BY <2>1, <2>2, <2>3 DEF LaneTyped
<1>2. LaneCovered
  BY DEF Init, LaneCovered, Ready
<1> QED
  BY <1>1, <1>2, EmptyLane DEF Init, LaneInv

\* What is not the lane's leaves it alone; rows of sources are never taken away.
LEMMA LaneKeeps ==
  ASSUME LaneInv, UNCHANGED <<laneVars, names>>, sources \subseteq sources',
         stage' \in {stage, "aborted"} \/ {stage, stage'} \subseteq {"warm", "pool", "graph"}
  PROVE  LaneInv'
<1>1. /\ spot' = spot /\ laneFailed' = laneFailed /\ entries' = entries
      /\ pending' = pending /\ names' = names
  BY DEF laneVars
<1>2. entries \in Seq(Standing(sources')) /\ pending \in Seq(Standing(sources'))
  BY StandingGrows DEF LaneInv, LaneTyped
<1>3. LaneTyped'
  BY <1>1, <1>2 DEF LaneInv, LaneTyped
<1>4. Competitor' = Competitor /\ Answered' = Answered
  BY <1>1 DEF Competitor, Answered
<1>5. \A b : AnswersHeld(b)' <=> AnswersHeld(b)
  BY <1>1 DEF AnswersHeld
<1>6. LaneCovered'
  BY <1>1, <1>4, <1>5 DEF LaneInv, LaneCovered, Ready
<1>7. NoTwice(entries') /\ NoTwice(pending') /\ Apart(entries', pending')
  BY <1>1 DEF LaneInv
<1> QED
  BY <1>3, <1>6, <1>7 DEF LaneInv

\* Until the lane is designed, it is empty.
LEMMA LaneNotBegun ==
  ASSUME LaneInv, UNCHANGED <<laneVars, sources>>, names' \in Seq(Names),
         stage \in {"begin", "ask", "persist", "design"},
         stage' \in {"ask", "persist", "design", "seed"}
  PROVE  LaneInv'
<1>1. spot' = <<1, 1>> /\ entries' = <<>> /\ pending' = <<>> /\ laneFailed' = FALSE
  BY DEF laneVars, LaneInv, LaneTyped
<1>2. LaneTyped'
  <2>1. entries' \in Seq(Standing(sources')) /\ pending' \in Seq(Standing(sources'))
    BY <1>1, EmptyLane
  <2>2. spot' \in Nat \X Nat /\ spot'[1] \in 1 .. Len(names') + 1 /\ spot'[2] >= 1
    BY <1>1
  <2> QED
    BY <1>1, <2>1, <2>2 DEF LaneTyped
<1>3. LaneCovered'
  <2>1. \A p : ~(p \in 1 .. Len(names') /\ p < spot'[1])
    BY <1>1
  <2>2. \A k : ~(k \in 1 .. Len(Answered') /\ k < spot'[2])
    BY <1>1
  <2>3. spot'[1] <= Len(names') => DOMAIN Answered' = 1 .. Len(Answered')
    <3> SUFFICES ASSUME spot'[1] <= Len(names') PROVE DOMAIN Answered' = 1 .. Len(Answered')
      OBVIOUS
    <3>1. Competitor' \in Names
      BY <1>1 DEF Competitor
    <3>2. Competitor'.brand \in Brands
      BY <3>1 DEF Names
    <3> QED
      BY <3>2, FixtureTyped DEF Answered
  <2>4. ~Ready'
    BY DEF Ready
  <2> QED
    BY <2>1, <2>2, <2>3, <2>4 DEF LaneCovered
<1> QED
  BY <1>1, <1>2, <1>3, EmptyLane DEF LaneInv

LEMMA AtCompetitor ==
  ASSUME RunInv, LaneInv, spot[1] <= Len(names)
  PROVE  /\ Competitor \in Names /\ Competitor.brand \in Brands
         /\ Answered \in Seq(Answers) /\ DOMAIN Answered = 1 .. Len(Answered)
<1>1. spot[1] \in DOMAIN names
  BY DEF RunInv, LaneInv, LaneTyped
<1>2. Competitor \in Names
  BY <1>1 DEF Competitor, RunInv
<1>3. Competitor.brand \in Brands
  BY <1>2 DEF Names
<1> QED
  BY <1>2, <1>3, FixtureTyped DEF Answered

LEMMA SeedRowKeeps ==
  ASSUME RunInv, LaneInv, SeedRow PROVE LaneInv'
<1> DEFINE b  == Competitor.brand
           k  == spot[2]
           id == Noted(b, k)
           e  == [source |-> id, field |-> id[3], competitor |-> Competitor]
<1>1. /\ stage = "seed" /\ spot[1] <= Len(names) /\ k <= Len(Answered)
      /\ id \notin sources /\ sources' = sources \cup {id}
      /\ pending' = Append(pending, e) /\ spot' = <<spot[1], k + 1>>
      /\ stage' = stage /\ entries' = entries /\ laneFailed' = laneFailed /\ names' = names
  BY DEF SeedRow, LaneStep, Noted, Answered
<1>2. /\ b \in Brands /\ Competitor \in Names /\ k \in DOMAIN Fixture[b]
      /\ DOMAIN Answered = 1 .. Len(Answered)
      /\ spot[1] \in Nat /\ k \in Nat /\ k >= 1
  <2>1. spot[1] \in Nat /\ k \in Nat /\ k >= 1
    BY DEF LaneInv, LaneTyped
  <2> QED
    BY <1>1, <2>1, AtCompetitor DEF Answered
<1>3. e \in Standing(sources')
  <2>1. id[3] = Fixture[b][k][2] /\ id \in sources'
    BY <1>1 DEF Noted, SourceId
  <2>2. Fixture[b][k] \in Answers
    BY <1>2, FixtureTyped
  <2>3. Fixture[b][k][2] \in STRING
    BY <2>2 DEF Answers
  <2> HIDE DEF id, b, k
  <2>4. e \in [source : sources', field : STRING, competitor : Names]
    BY <1>2, <2>1, <2>3
  <2>5. e.competitor.brand = b
    BY DEF b
  <2>6. e.source = Noted(b, k) /\ e.field = Fixture[b][k][2]
    BY <2>1 DEF id
  <2> QED
    BY <1>2, <2>4, <2>5, <2>6 DEF Standing
<1>4. pending \in Seq(Standing(sources)) /\ entries \in Seq(Standing(sources))
  BY DEF LaneInv, LaneTyped
<1>5. pending \in Seq(Standing(sources')) /\ entries \in Seq(Standing(sources'))
  BY <1>1, <1>4, StandingGrows
<1>6. ~Holds(pending, id) /\ ~Holds(entries, id)
  <2>1. \A i \in DOMAIN pending : pending[i] \in Standing(sources)
    BY <1>4
  <2>2. \A i \in DOMAIN entries : entries[i] \in Standing(sources)
    BY <1>4
  <2> QED
    BY <1>1, <2>1, <2>2 DEF Holds, Standing
<1>7. e.source = id
  OBVIOUS
<1> HIDE DEF e, id, b, k
<1>8. /\ pending' \in Seq(Standing(sources')) /\ NoTwice(pending')
      /\ \A x : Holds(pending, x) \/ x = id => Holds(pending', x)
      /\ \A x : Holds(pending', x) => Holds(pending, x) \/ x = id
  BY <1>1, <1>3, <1>5, <1>6, <1>7, AppendedEntry DEF LaneInv
<1>9. Apart(entries', pending')
  <2> SUFFICES ASSUME NEW i \in DOMAIN entries, NEW j \in DOMAIN pending',
                      entries[i].source = pending'[j].source
               PROVE  FALSE
    BY <1>1 DEF Apart
  <2>1. Holds(pending', entries[i].source) /\ Holds(entries, entries[i].source)
    BY DEF Holds
  <2>2. Holds(pending, entries[i].source)
    BY <1>6, <1>8, <2>1
  <2> QED
    BY <2>2 DEF LaneInv, Apart, Holds
<1>10. spot' \in Nat \X Nat /\ spot'[1] = spot[1] /\ spot'[2] = k + 1
  BY <1>1, <1>2
<1>11. LaneTyped'
  BY <1>1, <1>2, <1>5, <1>8, <1>10 DEF LaneInv, LaneTyped
<1>12. Competitor' = Competitor /\ Answered' = Answered /\ b = Competitor.brand
  BY <1>1, <1>10 DEF Competitor, Answered, b
<1>13. \A c : AnswersHeld(c)' <=> AnswersHeld(c)
  BY <1>1 DEF AnswersHeld
<1>14. \A l \in DOMAIN Answered : l < k + 1 => Holds(pending', Noted(b, l))
  <2> SUFFICES ASSUME NEW l \in DOMAIN Answered, l < k + 1 PROVE Holds(pending', Noted(b, l))
    OBVIOUS
  <2>1. l < k \/ l = k
    BY <1>2
  <2>2. CASE l < k
    <3>1. Holds(pending, Noted(b, l))
      BY <1>1, <1>12, <2>2 DEF LaneInv, LaneCovered, k
    <3> QED
      BY <1>8, <3>1
  <2>3. CASE l = k
    BY <1>8, <2>3 DEF id
  <2> QED
    BY <2>1, <2>2, <2>3
<1>15. LaneCovered'
  BY <1>1, <1>10, <1>12, <1>13, <1>14 DEF LaneInv, LaneCovered, Ready
<1> QED
  BY <1>1, <1>8, <1>9, <1>11, <1>15 DEF LaneInv

LEMMA SeedNextKeeps ==
  ASSUME RunInv, LaneInv, SeedNext PROVE LaneInv'
<1> DEFINE p == spot[1]
<1>1. /\ stage = "seed" /\ p <= Len(names) /\ spot[2] > Len(Answered)
      /\ entries' = entries \o pending /\ pending' = <<>> /\ spot' = <<p + 1, 1>>
      /\ stage' = stage /\ sources' = sources /\ laneFailed' = laneFailed /\ names' = names
  BY DEF SeedNext, LaneStep
<1>2. /\ p \in Nat /\ p >= 1 /\ spot[2] \in Nat /\ Len(names) \in Nat
      /\ DOMAIN Answered = 1 .. Len(Answered) /\ Len(Answered) \in Nat
  <2>1. p \in Nat /\ p >= 1 /\ spot[2] \in Nat
    BY DEF LaneInv, LaneTyped
  <2>2. Len(names) \in Nat
    BY DEF RunInv
  <2> QED
    BY <1>1, <2>1, <2>2, AtCompetitor
<1>3. /\ entries' \in Seq(Standing(sources)) /\ NoTwice(entries')
      /\ \A id : Holds(entries, id) \/ Holds(pending, id) => Holds(entries', id)
  BY <1>1, JoinedEntries DEF LaneInv, LaneTyped
<1>4. Apart(entries', pending') /\ NoTwice(pending') /\ pending' \in Seq(Standing(sources'))
  BY <1>1, EmptyLane DEF Apart
<1>5. spot' \in Nat \X Nat /\ spot'[1] = p + 1 /\ spot'[2] = 1
  BY <1>1, <1>2
<1>6. LaneTyped'
  BY <1>1, <1>2, <1>3, <1>4, <1>5 DEF LaneInv, LaneTyped
<1>7. \A q \in 1 .. Len(names) : q < p + 1 => AnswersHeld(names[q].brand)'
  <2> SUFFICES ASSUME NEW q \in 1 .. Len(names), q < p + 1
               PROVE  AnswersHeld(names[q].brand)'
    OBVIOUS
  <2>1. CASE q < p
    <3>1. AnswersHeld(names[q].brand)
      BY <1>1, <2>1 DEF LaneInv, LaneCovered
    <3> QED
      BY <1>1, <1>3, <3>1 DEF AnswersHeld
  <2>2. CASE q = p
    <3>1. Answered = Fixture[names[p].brand] /\ Competitor = names[p]
      BY DEF Answered, Competitor
    <3>2. \A k \in DOMAIN Answered : Holds(pending, Noted(names[p].brand, k))
      <4> SUFFICES ASSUME NEW k \in DOMAIN Answered PROVE Holds(pending, Noted(names[p].brand, k))
        OBVIOUS
      <4>1. k < spot[2]
        BY <1>1, <1>2
      <4> QED
        BY <1>1, <3>1, <4>1 DEF LaneInv, LaneCovered
    <3> QED
      BY <1>1, <1>3, <2>2, <3>1, <3>2 DEF AnswersHeld
  <2> QED
    BY <1>2, <2>1, <2>2
<1>8. p + 1 <= Len(names) => \A k \in DOMAIN Answered' : ~(k < 1)
  <2> SUFFICES ASSUME p + 1 <= Len(names) PROVE \A k \in DOMAIN Answered' : ~(k < 1)
    OBVIOUS
  <2>1. p + 1 \in DOMAIN names
    BY <1>2 DEF RunInv
  <2>2. Competitor' \in Names
    BY <1>1, <1>5, <2>1 DEF Competitor, RunInv
  <2>3. Competitor'.brand \in Brands
    BY <2>2 DEF Names
  <2>4. DOMAIN Answered' = 1 .. Len(Answered')
    BY <2>3, FixtureTyped DEF Answered
  <2> QED
    BY <2>4
<1>9. LaneCovered'
  BY <1>1, <1>5, <1>7, <1>8 DEF LaneCovered, Ready
<1> QED
  BY <1>1, <1>3, <1>4, <1>6, <1>9 DEF LaneInv

LEMMA SeedDoneKeeps ==
  ASSUME RunInv, LaneInv, SeedDone PROVE LaneInv'
<1>1. /\ stage = "seed" /\ spot[1] > Len(names) /\ stage' = "warm" /\ names' = names
      /\ sources' = sources /\ entries' = entries /\ pending' = pending
      /\ spot' = spot /\ laneFailed' = laneFailed
  BY DEF SeedDone, LaneStep, laneVars
<1>2. LaneTyped'
  BY <1>1 DEF LaneInv, LaneTyped
<1>3. \A q \in 1 .. Len(names) : q < spot[1]
  BY <1>1 DEF RunInv, LaneInv, LaneTyped
<1>4. \A q \in 1 .. Len(names) : AnswersHeld(names[q].brand)'
  BY <1>1, <1>3 DEF LaneInv, LaneCovered, AnswersHeld
<1>5. LaneCovered'
  BY <1>1, <1>4 DEF LaneCovered
<1> QED
  BY <1>1, <1>2, <1>5 DEF LaneInv

LEMMA GiveUpLaneKeeps ==
  ASSUME RunInv, LaneInv, GiveUpLane PROVE LaneInv'
<1>1. /\ stage' = "warm" /\ names' = names /\ sources' = sources /\ entries' = entries
      /\ pending' = <<>> /\ spot' = spot /\ laneFailed' = TRUE
  BY DEF GiveUpLane, LaneFails, LaneStep
<1>2. LaneTyped'
  BY <1>1, EmptyLane DEF LaneInv, LaneTyped
<1>3. LaneCovered'
  BY <1>1 DEF LaneCovered
<1>4. NoTwice(pending') /\ Apart(entries', pending')
  BY <1>1, EmptyLane DEF Apart
<1> QED
  BY <1>1, <1>2, <1>3, <1>4 DEF LaneInv

LEMMA LaneInvNext == RunInv /\ RunInv' /\ LaneInv /\ [Next]_vars => LaneInv'
<1> SUFFICES ASSUME RunInv, RunInv', LaneInv, [Next]_vars PROVE LaneInv'
  OBVIOUS
<1>1. names' \in Seq(Names)
  BY DEF RunInv
<1>2. CASE Begin \/ Ask \/ Discover \/ Persist \/ Design
  BY <1>1, <1>2, LaneNotBegun DEF Begin, Ask, Discover, Announce, Persist, Design, LaneStep
<1>3. CASE Abort
  BY <1>3, LaneKeeps DEF Abort
<1>4. CASE Seed
  BY <1>4, SeedRowKeeps, SeedNextKeeps, SeedDoneKeeps, GiveUpLaneKeeps DEF Seed
<1>5. CASE Warm \/ Invoke \/ Thread \/ Passing
  BY <1>5, LaneKeeps DEF Warm, Invoke, Thread, Passing, ExceptStage
<1>6. CASE Import
  <2>1. UNCHANGED <<laneVars, names>> /\ stage' = stage
    BY <1>6 DEF Import, ImportAsked, ImportRow, ImportEvent, ImportFails, ImportStep, runVars
  <2>2. sources \subseteq sources'
    BY <1>6 DEF Import, ImportAsked, ImportRow, ImportEvent, ImportFails
  <2> QED
    BY <2>1, <2>2, LaneKeeps
<1>7. CASE UNCHANGED vars
  BY <1>7, LaneKeeps DEF vars, runVars
<1> QED
  BY <1>2, <1>3, <1>4, <1>5, <1>6, <1>7 DEF Next, Executor

LEMMA LaneInvAlways == Spec => []LaneInv
BY RunInvInit, RunInvNext, LaneInvInit, LaneInvNext, PTL DEF Spec

(* What the graph is seeded with is in sources, and no brand has two       *)
(* entries for one field, even if the request spelled the brand twice, so  *)
(* that a claim cites at most one seeded source (survey_seed.py:33-37).    *)
THEOREM EntriesAreSound == Spec => []EntriesStand
<1>1. RunInv /\ LaneInv => EntriesStand
  <2> SUFFICES ASSUME RunInv, LaneInv PROVE EntriesStand
    OBVIOUS
  <2>1. \A i \in DOMAIN entries : entries[i] \in Standing(sources)
    BY DEF LaneInv, LaneTyped
  <2>2. \A i \in DOMAIN entries : entries[i].source \in sources
    BY <2>1 DEF Standing
  <2>3. ASSUME NEW i \in DOMAIN entries, NEW j \in DOMAIN entries,
               entries[i].competitor.brand = entries[j].competitor.brand,
               entries[i].field = entries[j].field
        PROVE  i = j
    <3>1. entries[i].source = entries[j].source
      BY <2>1, <2>3, StandingOnce
    <3> QED
      BY <3>1 DEF LaneInv, NoTwice
  <2> QED
    BY <2>2, <2>3 DEF EntriesStand
<1> QED
  BY <1>1, RunInvAlways, LaneInvAlways, PTL

(* Only a failure cuts the lane short: without one, every competitor has   *)
(* all its answers in front of the graph (runner.py:360-361).              *)
THEOREM LaneReachesAll == Spec => []LaneCutOnlyByFailure
<1>1. RunInv /\ LaneInv => LaneCutOnlyByFailure
  <2> SUFFICES ASSUME RunInv, LaneInv, Ready, ~laneFailed,
                      NEW b \in BrandsOf(names), NEW k \in DOMAIN Fixture[b]
               PROVE  Holds(entries, Noted(b, k))
    BY DEF LaneCutOnlyByFailure, Holds, Noted
  <2>1. PICK p \in 1 .. Len(names) : names[p].brand = b
    BY DEF BrandsOf, RunInv
  <2> QED
    BY <2>1 DEF LaneInv, LaneCovered, AnswersHeld
<1> QED
  BY <1>1, RunInvAlways, LaneInvAlways, PTL

(***************************************************************************)
(* The pool: the slots that were claimed pay for the starts.  Begun(c) is  *)
(* what will have started by time c if every thread wakes at its slot.     *)
(***************************************************************************)
Begun(c) ==
  {i \in DOMAIN work : item[i] \notin {"queued", "gated"} \/ (item[i] = "gated" /\ slot[i] <= c)}

Taken == {i \in DOMAIN work : item[i] # "queued"}

PoolInv ==
  /\ PoolTypeOK /\ IsFiniteSet(DOMAIN work)
  /\ interval > 0 =>
       /\ Cardinality(Taken) * interval <= lastStart
       /\ \A c \in Nat : c >= clock => Cardinality(Begun(c)) * interval <= c + interval

LEMMA OneMore ==
  ASSUME NEW n \in Nat, NEW k \in Nat
  PROVE  (n + 1) * k = n * k + k /\ n * k \in Nat
OBVIOUS

LEMMA WorkCounted ==
  ASSUME PoolInv
  PROVE  /\ IsFiniteSet(Taken) /\ Cardinality(Taken) \in Nat
         /\ \A c : IsFiniteSet(Begun(c)) /\ Cardinality(Begun(c)) \in Nat
                   /\ Cardinality(Begun(c)) <= Cardinality(Taken)
<1>1. Taken \subseteq DOMAIN work /\ \A c : Begun(c) \subseteq Taken
  BY DEF Taken, Begun
<1> QED
  BY <1>1, FS_Subset, FS_CardinalityType DEF PoolInv

LEMMA IdlePool ==
  ASSUME interval' \in Nat, lastStart' = 0, clock' = 0, IsFiniteSet(DOMAIN work'),
         item' = [i \in DOMAIN work' |-> "queued"], slot' = [i \in DOMAIN work' |-> 0]
  PROVE  PoolInv'
<1>1. PoolTypeOK'
  BY DEF PoolTypeOK
<1>2. Taken' = {} /\ \A c : Begun(c)' = {}
  BY DEF Taken, Begun
<1>3. Cardinality(Taken') = 0 /\ \A c : Cardinality(Begun(c)') = 0
  BY <1>2, FS_EmptySet
<1>4. \A k \in Nat : 0 * k <= 0 /\ \A c \in Nat : 0 * k <= c + k
  OBVIOUS
<1>5. 0 * interval' <= lastStart' /\ \A c \in Nat : 0 * interval' <= c + interval'
  BY <1>4
<1> QED
  BY <1>1, <1>3, <1>4, <1>5 DEF PoolInv

LEMMA PoolInvInit == Init => PoolInv
<1> SUFFICES ASSUME Init PROVE PoolInv
  OBVIOUS
<1>1. interval = 0 /\ work = <<>> /\ item = <<>> /\ slot = <<>> /\ lastStart = 0 /\ clock = 0
  BY DEF Init, PoolIdle
<1>2. DOMAIN work = {}
  BY <1>1
<1> QED
  BY <1>1, <1>2, FS_EmptySet DEF PoolInv, PoolTypeOK

LEMMA ClaimKeeps ==
  ASSUME PoolInv, NEW i \in DOMAIN work, Claim(i) PROVE PoolInv'
<1>1. /\ item[i] = "queued" /\ work' = work /\ interval' = interval /\ clock' = clock
      /\ interval \in Nat /\ clock \in Nat /\ lastStart \in Nat
      /\ item \in [DOMAIN work -> {"queued", "gated", "fetching"} \cup Ended]
      /\ slot \in [DOMAIN work -> Nat]
  BY DEF Claim, PoolInv, PoolTypeOK
<1>2. CASE interval = 0
  BY <1>1, <1>2 DEF Claim, PoolInv, PoolTypeOK
<1>3. CASE interval # 0
  <2>1. /\ item' = [item EXCEPT ![i] = "gated"] /\ slot' = [slot EXCEPT ![i] = Claimed]
        /\ lastStart' = Claimed + interval
    BY <1>3 DEF Claim
  <2>2. Claimed \in Nat /\ Claimed >= lastStart /\ Claimed >= clock
    BY <1>1 DEF Claimed, Later
  <2>3. PoolTypeOK'
    BY <1>1, <2>1, <2>2 DEF PoolTypeOK
  <2>4. Taken' = Taken \cup {i} /\ i \notin Taken
    BY <1>1, <2>1 DEF Taken
  <2>5. Cardinality(Taken') = Cardinality(Taken) + 1
    BY <2>4, FS_AddElement, WorkCounted
  <2>6. Cardinality(Taken) * interval <= lastStart
    BY <1>1, <1>3 DEF PoolInv
  <2>7. /\ (Cardinality(Taken) + 1) * interval = Cardinality(Taken) * interval + interval
        /\ Cardinality(Taken) * interval \in Nat
    BY <1>1, WorkCounted, OneMore
  <2>8. (Cardinality(Taken) + 1) * interval <= Claimed + interval
    BY <1>1, <2>2, <2>6, <2>7
  <2>9. ASSUME NEW c \in Nat, c >= clock
        PROVE  Cardinality(Begun(c)') * interval <= c + interval
    <3>1. CASE c < Claimed
      <4>1. Begun(c)' = Begun(c)
        BY <1>1, <2>1, <2>2, <3>1 DEF Begun
      <4> QED
        BY <1>1, <1>3, <2>9, <4>1 DEF PoolInv
    <3>2. CASE c >= Claimed
      <4>1. Begun(c)' = Begun(c) \cup {i}
        BY <1>1, <2>1, <2>2, <3>2 DEF Begun
      <4>2. Cardinality(Begun(c)') <= Cardinality(Taken) + 1 /\ Cardinality(Begun(c)') \in Nat
        <5>1. /\ IsFiniteSet(Begun(c)) /\ Cardinality(Begun(c)) \in Nat
              /\ Cardinality(Taken) \in Nat /\ Cardinality(Begun(c)) <= Cardinality(Taken)
          BY WorkCounted
        <5>2. Cardinality(Begun(c) \cup {i}) \in {Cardinality(Begun(c)), Cardinality(Begun(c)) + 1}
          BY <5>1, FS_AddElement
        <5> QED
          BY <4>1, <5>1, <5>2
      <4>3. Cardinality(Begun(c)') * interval <= (Cardinality(Taken) + 1) * interval
        <5>1. \A m, n, k \in Nat : m <= n => m * k <= n * k
          OBVIOUS
        <5> QED
          BY <1>1, <4>2, <5>1, WorkCounted
      <4>4. Cardinality(Begun(c)') * interval \in Nat
        BY <1>1, <4>2, OneMore
      <4> QED
        BY <1>1, <2>2, <2>7, <2>8, <3>2, <4>3, <4>4
    <3> QED
      BY <2>2, <3>1, <3>2
  <2> QED
    BY <1>1, <2>1, <2>3, <2>5, <2>8, <2>9 DEF PoolInv
<1> QED
  BY <1>2, <1>3

LEMMA ThreadKeeps ==
  ASSUME PoolInv, NEW i \in DOMAIN work, Start(i) \/ Fetch(i) PROVE PoolInv'
<1>1. /\ work' = work /\ interval' = interval /\ clock' = clock /\ lastStart' = lastStart
      /\ interval \in Nat /\ clock \in Nat /\ lastStart \in Nat
      /\ item \in [DOMAIN work -> {"queued", "gated", "fetching"} \cup Ended]
      /\ slot \in [DOMAIN work -> Nat]
  BY DEF Start, Fetch, PoolInv, PoolTypeOK
<1>2. \/ /\ item[i] = "gated" /\ slot[i] <= clock
         /\ item' = [item EXCEPT ![i] = "fetching"] /\ slot' = [slot EXCEPT ![i] = 0]
      \/ /\ item[i] = "fetching" /\ slot' = slot
         /\ \E end \in Ended : item' = [item EXCEPT ![i] = end]
  BY <1>1 DEF Start, Fetch, Warmed, Failed, Ended
<1>3. PoolTypeOK'
  BY <1>1, <1>2 DEF PoolTypeOK
<1>4. Taken' = Taken
  BY <1>1, <1>2 DEF Taken, Ended
<1>5. ASSUME NEW c \in Nat, c >= clock PROVE Begun(c)' = Begun(c)
  <2>1. item[i] = "gated" => slot[i] <= c
    BY <1>1, <1>2, <1>5
  <2> QED
    BY <1>1, <1>2, <2>1 DEF Begun, Ended
<1> QED
  BY <1>1, <1>3, <1>4, <1>5 DEF PoolInv

LEMMA TickKeeps ==
  ASSUME PoolInv, Tick PROVE PoolInv'
<1>1. /\ UNCHANGED <<interval, work, item, slot, lastStart>> /\ clock' = clock + 1
      /\ clock \in Nat
  BY DEF Tick, PoolInv, PoolTypeOK
<1>2. Taken' = Taken /\ \A c : Begun(c)' = Begun(c)
  BY <1>1 DEF Taken, Begun
<1>3. \A c \in Nat : c >= clock' => c >= clock
  BY <1>1
<1> QED
  BY <1>1, <1>2, <1>3 DEF PoolInv, PoolTypeOK

LEMMA PoolInvNext == RunInv /\ PoolInv /\ [Next]_vars => PoolInv'
<1> SUFFICES ASSUME RunInv, PoolInv, [Next]_vars PROVE PoolInv'
  OBVIOUS
<1>1. ASSUME UNCHANGED poolVars PROVE PoolInv'
  <2>1. Taken' = Taken /\ \A c : Begun(c)' = Begun(c)
    BY <1>1 DEF poolVars, Taken, Begun
  <2> QED
    BY <1>1, <2>1 DEF poolVars, PoolInv, PoolTypeOK
<1>2. CASE Begin \/ Ask \/ Discover \/ Persist \/ Abort
  BY <1>1, <1>2 DEF Begin, Ask, Discover, Announce, Persist, Abort
<1>3. CASE Design \/ Seed
  BY <1>1, <1>3 DEF Design, Seed, SeedRow, SeedNext, SeedDone, GiveUpLane, LaneFails, LaneStep
<1>4. CASE Warm
  <2>1. ASSUME NEW gap \in Intervals, Submit(Urls, gap) PROVE PoolInv'
    <3>1. Len(names) * Len(Fields) \in Nat
      <4>1. Len(names) \in Nat /\ Len(Fields) \in Nat
        BY IntakeAssumption DEF RunInv
      <4> QED
        BY <4>1, OneMore
    <3>2. DOMAIN Urls = 1 .. Len(names) * Len(Fields)
      BY DEF Urls
    <3>3. IsFiniteSet(DOMAIN Urls)
      BY <3>1, <3>2, FS_Interval
    <3> QED
      BY <2>1, <3>3, IdlePool, IntakeAssumption DEF Submit
  <2> QED
    BY <1>1, <1>4, <2>1 DEF Warm
<1>5. CASE Invoke
  <2>1. /\ work' = <<>> /\ item' = <<>> /\ slot' = <<>> /\ interval' = 0
        /\ lastStart' = 0 /\ clock' = 0
    BY <1>5 DEF Invoke, Return
  <2>2. DOMAIN work' = {}
    BY <2>1
  <2> QED
    BY <2>1, <2>2, FS_EmptySet DEF PoolInv, PoolTypeOK
<1>6. CASE Thread
  BY <1>6, ClaimKeeps, ThreadKeeps DEF Thread, PoolThread
<1>7. CASE Passing
  BY <1>7, TickKeeps DEF Passing
<1>8. CASE Import
  BY <1>1, <1>8 DEF Import, ImportAsked, ImportRow, ImportEvent, ImportFails, ImportStep
<1>9. CASE UNCHANGED vars
  BY <1>1, <1>9 DEF vars
<1> QED
  BY <1>2, <1>3, <1>4, <1>5, <1>6, <1>7, <1>8, <1>9 DEF Next, Executor

LEMMA PoolInvAlways == Spec => []PoolInv
BY RunInvInit, RunInvNext, PoolInvInit, PoolInvNext, PTL DEF Spec

LEMMA WholeIntervals ==
  ASSUME NEW n \in Nat, NEW c \in Nat, NEW k \in Nat, k > 0, n * k <= c + k
  PROVE  n <= 1 + (c \div k)
<1> DEFINE q == c \div k
<1>1. q \in Nat /\ c < (q + 1) * k
  OBVIOUS
<1> HIDE DEF q
<1>2. (q + 1) * k + k = (q + 2) * k
  BY <1>1
<1>3. n * k < (q + 2) * k
  BY <1>1, <1>2
<1>4. n >= q + 2 => n * k >= (q + 2) * k
  BY <1>1
<1>5. n < q + 2
  BY <1>1, <1>3, <1>4
<1> QED
  BY <1>1, <1>5 DEF q

(* However late a thread wakes from the gate, n requests are never started *)
(* in less than n - 1 intervals (prewarm.py:127-142,                       *)
(* tests/test_prewarm.py:288), for any number of threads and pages.        *)
THEOREM RateAlwaysHeld == Spec => []RateHeld
<1>1. PoolInv => RateHeld
  <2> SUFFICES ASSUME PoolInv, interval > 0
               PROVE  Cardinality({i \in DOMAIN work : item[i] \notin {"queued", "gated"}})
                        <= 1 + (clock \div interval)
    BY DEF RateHeld
  <2> DEFINE begun == {i \in DOMAIN work : item[i] \notin {"queued", "gated"}}
  <2>1. interval \in Nat /\ clock \in Nat
    BY DEF PoolInv, PoolTypeOK
  <2>2. begun \subseteq Begun(clock)
    BY DEF Begun
  <2>3. Cardinality(Begun(clock)) <= 1 + (clock \div interval)
    <3>1. Cardinality(Begun(clock)) * interval <= clock + interval
      BY <2>1 DEF PoolInv
    <3> QED
      BY <2>1, <3>1, WorkCounted, WholeIntervals
  <2>4. Cardinality(begun) <= Cardinality(Begun(clock)) /\ Cardinality(begun) \in Nat
    BY <2>2, WorkCounted, FS_Subset, FS_CardinalityType
  <2>5. Cardinality(Begun(clock)) \in Nat /\ clock \div interval \in Nat
    BY <2>1, WorkCounted
  <2> QED
    BY <2>3, <2>4, <2>5
<1> QED
  BY <1>1, PoolInvAlways, PTL

(***************************************************************************)
(* Why the intake ends.  IntakeEnds is liveness and stays with TLC, but    *)
(* that there are only so many steps is safety: each step of the executor, *)
(* of a thread of the pool or of the clock lowers Measure in the           *)
(* lexicographic order, and an import that goes on beside them leaves it.  *)
(***************************************************************************)
StageToGo == [s \in {"begin", "ask", "persist", "design", "seed", "warm", "pool", "graph",
                     "aborted"} |->
                CASE s = "begin" -> 7 [] s = "ask"  -> 6 [] s = "persist" -> 5
                  [] s = "design" -> 4 [] s = "seed" -> 3 [] s = "warm"   -> 2
                  [] s = "pool"  -> 1 [] OTHER -> 0]

Waiting(s) == {i \in DOMAIN work : item[i] = s}

\* Queries, competitors or pages.
Ahead == CASE stage = "ask"  -> Queries - asked
           [] stage = "seed" -> Len(names) + 1 - spot[1]
           [] stage = "pool" -> Cardinality(Waiting("queued"))
           [] OTHER          -> 0

\* Answers of a competitor, or pages of which a thread waits for its slot.
Within == CASE stage = "seed" /\ spot[1] <= Len(names) -> Len(Answered) + 1 - spot[2]
            [] stage = "pool" -> Cardinality(Waiting("gated"))
            [] OTHER          -> 0

Fetching == IF stage = "pool" THEN Cardinality(Waiting("fetching")) ELSE 0
ToWait   == IF stage = "pool" THEN lastStart + Slack - clock ELSE 0

Measure == <<StageToGo[stage], Ahead, Within, Fetching, ToWait>>

Lower(m, n) == \E k \in 1 .. 5 : m[k] < n[k] /\ \A j \in 1 .. k - 1 : m[j] = n[j]

StepsInv ==
  /\ stage = "seed" /\ spot[1] <= Len(names) => spot[2] <= Len(Answered) + 1
  /\ clock <= lastStart + Slack

VariantInv == RunInv /\ LaneInv /\ PoolInv /\ StepsInv

LEMMA StageToGoOf ==
  /\ DOMAIN StageToGo = {"begin", "ask", "persist", "design", "seed", "warm", "pool", "graph",
                         "aborted"}
  /\ \A s \in DOMAIN StageToGo : StageToGo[s] \in Nat
  /\ StageToGo["begin"] = 7 /\ StageToGo["ask"] = 6 /\ StageToGo["persist"] = 5
  /\ StageToGo["design"] = 4 /\ StageToGo["seed"] = 3 /\ StageToGo["warm"] = 2
  /\ StageToGo["pool"] = 1 /\ StageToGo["graph"] = 0 /\ StageToGo["aborted"] = 0
BY DEF StageToGo

LEMMA WaitingCounted ==
  ASSUME PoolInv, NEW s
  PROVE  IsFiniteSet(Waiting(s)) /\ Cardinality(Waiting(s)) \in Nat
<1>1. Waiting(s) \subseteq DOMAIN work
  BY DEF Waiting
<1> QED
  BY <1>1, FS_Subset, FS_CardinalityType DEF PoolInv

LEMMA MeasureTyped ==
  ASSUME VariantInv
  PROVE  /\ StageToGo[stage] \in Nat /\ Ahead \in Nat /\ Within \in Nat
         /\ Fetching \in Nat /\ ToWait \in Nat
<1>1. StageToGo[stage] \in Nat
  BY StageToGoOf DEF VariantInv, RunInv
<1>2. \A s : Cardinality(Waiting(s)) \in Nat
  BY WaitingCounted DEF VariantInv
<1>3. Ahead \in Nat
  <2>1. Queries - asked \in Nat
    BY IntakeAssumption DEF VariantInv, RunInv
  <2>2. Len(names) + 1 - spot[1] \in Nat
    <3>1. Len(names) \in Nat /\ spot[1] \in 1 .. Len(names) + 1
      BY DEF VariantInv, RunInv, LaneInv, LaneTyped
    <3> QED
      BY <3>1
  <2> QED
    BY <1>2, <2>1, <2>2 DEF Ahead
<1>4. Within \in Nat
  <2>1. ASSUME stage = "seed", spot[1] <= Len(names) PROVE Len(Answered) + 1 - spot[2] \in Nat
    <3>1. Answered \in Seq(Answers)
      BY <2>1, AtCompetitor DEF VariantInv
    <3>2. Len(Answered) \in Nat /\ spot[2] \in Nat /\ spot[2] <= Len(Answered) + 1
      BY <2>1, <3>1 DEF VariantInv, LaneInv, LaneTyped, StepsInv
    <3> QED
      BY <3>2
  <2> QED
    BY <1>2, <2>1 DEF Within
<1>5. Fetching \in Nat
  BY <1>2 DEF Fetching
<1>6. ToWait \in Nat
  <2>1. lastStart \in Nat /\ clock \in Nat /\ Slack \in Nat /\ clock <= lastStart + Slack
    BY WorkersAssumption DEF VariantInv, PoolInv, PoolTypeOK, StepsInv
  <2> QED
    BY <2>1 DEF ToWait
<1> QED
  BY <1>1, <1>3, <1>4, <1>5, <1>6

LEMMA LowerAt ==
  ASSUME NEW m, NEW n,
         \/ m[1] < n[1]
         \/ m[1] = n[1] /\ m[2] < n[2]
         \/ m[1] = n[1] /\ m[2] = n[2] /\ m[3] < n[3]
         \/ m[1] = n[1] /\ m[2] = n[2] /\ m[3] = n[3] /\ m[4] < n[4]
         \/ m[1] = n[1] /\ m[2] = n[2] /\ m[3] = n[3] /\ m[4] = n[4] /\ m[5] < n[5]
  PROVE  Lower(m, n)
<1>1. \A j \in 1 .. 5 - 1 : j = 1 \/ j = 2 \/ j = 3 \/ j = 4
  OBVIOUS
<1>2. \A k \in 1 .. 5 : \A j \in 1 .. k - 1 : j \in 1 .. 5 - 1 /\ j < k
  OBVIOUS
<1>3. CASE m[1] < n[1]
  BY <1>3 DEF Lower
<1>4. CASE m[1] = n[1] /\ m[2] < n[2]
  BY <1>4 DEF Lower
<1>5. CASE m[1] = n[1] /\ m[2] = n[2] /\ m[3] < n[3]
  <2>1. \A j \in 1 .. 3 - 1 : m[j] = n[j]
    BY <1>1, <1>2, <1>5
  <2> QED
    BY <1>5, <2>1 DEF Lower
<1>6. CASE m[1] = n[1] /\ m[2] = n[2] /\ m[3] = n[3] /\ m[4] < n[4]
  <2>1. \A j \in 1 .. 4 - 1 : m[j] = n[j]
    BY <1>1, <1>2, <1>6
  <2> QED
    BY <1>6, <2>1 DEF Lower
<1>7. CASE m[1] = n[1] /\ m[2] = n[2] /\ m[3] = n[3] /\ m[4] = n[4] /\ m[5] < n[5]
  <2>1. \A j \in 1 .. 5 - 1 : m[j] = n[j]
    BY <1>1, <1>7
  <2> QED
    BY <1>7, <2>1 DEF Lower
<1> QED
  BY <1>3, <1>4, <1>5, <1>6, <1>7

\* To the next stage, with an empty pool or a new one.
LEMMA StagesLower ==
  ASSUME VariantInv, Begin \/ Discover \/ Persist \/ Abort \/ Design \/ SeedDone \/ GiveUpLane
                       \/ Warm \/ Invoke
  PROVE  StepsInv' /\ Lower(Measure', Measure)
<1>1. StageToGo[stage'] < StageToGo[stage]
  BY StageToGoOf DEF Begin, Discover, Announce, Persist, Abort, Design, SeedDone, GiveUpLane,
                     LaneFails, Warm, Invoke
<1>2. Measure'[1] < Measure[1]
  BY <1>1 DEF Measure, StageToGo
<1>3. clock' <= lastStart' + Slack
  <2>1. CASE UNCHANGED <<clock, lastStart>>
    BY <2>1 DEF VariantInv, StepsInv
  <2>2. CASE clock' = 0 /\ lastStart' = 0
    BY <2>2, WorkersAssumption
  <2> QED
    BY <2>1, <2>2 DEF Begin, Discover, Announce, Persist, Abort, Design, SeedDone, GiveUpLane,
                      LaneFails, LaneStep, Warm, Invoke, Submit, Return, poolVars
<1>4. stage' = "seed" /\ spot'[1] <= Len(names') => spot'[2] <= Len(Answered') + 1
  <2> SUFFICES ASSUME stage' = "seed", spot'[1] <= Len(names')
               PROVE  spot'[2] <= Len(Answered') + 1
    OBVIOUS
  <2>1. stage = "design" /\ spot' = spot /\ names' = names
    BY DEF Begin, Discover, Announce, Persist, Abort, Design, SeedDone, GiveUpLane, LaneFails,
           LaneStep, laneVars, Warm, Invoke
  <2>2. spot' = <<1, 1>> /\ Answered' = Answered
    BY <2>1 DEF VariantInv, LaneInv, LaneTyped, Answered, Competitor
  <2>3. Len(Answered) \in Nat
    BY <2>1, AtCompetitor DEF VariantInv
  <2> QED
    BY <2>2, <2>3
<1> QED
  BY <1>2, <1>3, <1>4, LowerAt DEF StepsInv

LEMMA AskLowers ==
  ASSUME VariantInv, Ask PROVE StepsInv' /\ Lower(Measure', Measure)
<1>1. /\ stage = "ask" /\ stage' = stage /\ asked < Queries /\ asked' = asked + 1
      /\ asked \in Nat /\ Queries \in Nat /\ UNCHANGED <<clock, lastStart>>
  BY IntakeAssumption DEF Ask, poolVars, VariantInv, RunInv
<1>2. Queries - asked' < Queries - asked
  BY <1>1
<1>3. Measure'[1] = Measure[1] /\ Measure'[2] < Measure[2]
  BY <1>1, <1>2 DEF Measure, Ahead, StageToGo
<1>4. StepsInv'
  BY <1>1 DEF VariantInv, StepsInv
<1> QED
  BY <1>3, <1>4, LowerAt

\* Through the fixtures.
LEMMA SeedLowers ==
  ASSUME VariantInv, SeedRow \/ SeedNext PROVE StepsInv' /\ Lower(Measure', Measure)
<1>1. /\ stage = "seed" /\ stage' = "seed" /\ names' = names /\ spot[1] <= Len(names)
      /\ UNCHANGED <<clock, lastStart>>
  BY DEF SeedRow, SeedNext, LaneStep, poolVars
<1>2. /\ Len(names) \in Nat /\ spot \in Nat \X Nat /\ Len(Answered) \in Nat
  BY <1>1, AtCompetitor DEF VariantInv, RunInv, LaneInv, LaneTyped
<1>3. CASE SeedRow
  <2>1. spot' = <<spot[1], spot[2] + 1>> /\ spot[2] <= Len(Answered)
    BY <1>3 DEF SeedRow
  <2>2. spot'[1] = spot[1] /\ spot'[2] = spot[2] + 1
    BY <2>1
  <2>3. Answered' = Answered
    BY <1>1, <2>2 DEF Answered, Competitor
  <2>4. /\ spot'[2] <= Len(Answered') + 1
        /\ Len(Answered') + 1 - spot'[2] < Len(Answered) + 1 - spot[2]
    BY <1>2, <2>1, <2>2, <2>3
  <2>5. Measure'[1] = Measure[1] /\ Measure'[2] = Measure[2] /\ Measure'[3] < Measure[3]
    BY <1>1, <2>2, <2>4 DEF Measure, Ahead, Within, StageToGo
  <2> QED
    BY <1>1, <2>4, <2>5, LowerAt DEF VariantInv, StepsInv
<1>4. CASE SeedNext
  <2>1. spot' = <<spot[1] + 1, 1>>
    BY <1>4 DEF SeedNext
  <2>2. spot'[1] = spot[1] + 1 /\ spot'[2] = 1
    BY <2>1
  <2>3. Len(names') + 1 - spot'[1] < Len(names) + 1 - spot[1]
    BY <1>1, <1>2, <2>2
  <2>4. ASSUME spot'[1] <= Len(names') PROVE spot'[2] <= Len(Answered') + 1
    <3>1. spot'[1] \in DOMAIN names
      BY <1>1, <1>2, <2>2, <2>4
    <3>2. Answered' = Fixture[names[spot'[1]].brand]
      BY <1>1 DEF Answered, Competitor
    <3>3. names[spot'[1]].brand \in Brands
      <4>1. names[spot'[1]] \in Names
        BY <3>1 DEF VariantInv, RunInv
      <4> QED
        BY <4>1 DEF Names
    <3>4. Len(Answered') \in Nat
      BY <3>2, <3>3, FixtureTyped
    <3> QED
      BY <2>2, <3>4
  <2>5. Measure'[1] = Measure[1] /\ Measure'[2] < Measure[2]
    BY <1>1, <2>3 DEF Measure, Ahead, StageToGo
  <2> QED
    BY <1>1, <2>4, <2>5, LowerAt DEF VariantInv, StepsInv
<1> QED
  BY <1>3, <1>4

\* A thread takes its page to the next of queued, gated, fetching and ended.
LEMMA ThreadLowers ==
  ASSUME VariantInv, Thread PROVE StepsInv' /\ Lower(Measure', Measure)
<1>1. PICK i \in DOMAIN work : Claim(i) \/ Start(i) \/ Fetch(i)
  BY DEF Thread, PoolThread
<1>2. /\ stage = "pool" /\ stage' = stage /\ work' = work /\ clock' = clock
      /\ interval \in Nat /\ clock \in Nat /\ lastStart \in Nat /\ Slack \in Nat
      /\ item \in [DOMAIN work -> {"queued", "gated", "fetching"} \cup Ended]
      /\ clock <= lastStart + Slack
  BY <1>1, WorkersAssumption
  DEF Thread, Claim, Start, Fetch, VariantInv, PoolInv, PoolTypeOK, StepsInv
<1>3. ASSUME NEW s, item[i] = s, item'[i] # s, \A j \in DOMAIN work \ {i} : item'[j] = item[j]
      PROVE  Cardinality(Waiting(s)') < Cardinality(Waiting(s))
  <2>1. Waiting(s)' = Waiting(s) \ {i} /\ i \in Waiting(s)
    BY <1>2, <1>3 DEF Waiting
  <2> QED
    BY <2>1, WaitingCounted, FS_RemoveElement DEF VariantInv
<1>4. CASE Claim(i)
  <2>1. /\ item[i] = "queued" /\ item'[i] # "queued"
        /\ \A j \in DOMAIN work \ {i} : item'[j] = item[j]
    BY <1>2, <1>4 DEF Claim
  <2>2. lastStart' \in Nat /\ lastStart' >= lastStart
    <3>1. lastStart' = lastStart \/ lastStart' = Claimed + interval
      BY <1>4 DEF Claim
    <3>2. Claimed \in Nat /\ Claimed >= lastStart
      BY <1>2 DEF Claimed, Later
    <3> QED
      BY <1>2, <3>1, <3>2
  <2>3. clock' <= lastStart' + Slack
    <3>1. /\ clock' = clock /\ clock \in Nat /\ lastStart \in Nat /\ Slack \in Nat
          /\ clock <= lastStart + Slack
      BY <1>2
    <3>2. \A m, n, c, d \in Nat : m >= n /\ c <= n + d => c <= m + d
      OBVIOUS
    <3> QED
      BY <2>2, <3>1, <3>2
  <2>4. Measure'[1] = Measure[1] /\ Measure'[2] < Measure[2]
    BY <1>2, <1>3, <2>1 DEF Measure, Ahead, StageToGo
  <2> QED
    BY <1>2, <2>3, <2>4, LowerAt DEF StepsInv
<1>5. CASE Start(i)
  <2>1. /\ item[i] = "gated" /\ item'[i] = "fetching" /\ lastStart' = lastStart
        /\ \A j \in DOMAIN work \ {i} : item'[j] = item[j]
    BY <1>2, <1>5 DEF Start
  <2>2. Waiting("queued")' = Waiting("queued")
    BY <1>2, <2>1 DEF Waiting
  <2>3. Measure'[1] = Measure[1] /\ Measure'[2] = Measure[2] /\ Measure'[3] < Measure[3]
    BY <1>2, <1>3, <2>1, <2>2 DEF Measure, Ahead, Within, StageToGo
  <2> QED
    BY <1>2, <2>1, <2>3, LowerAt DEF StepsInv
<1>6. CASE Fetch(i)
  <2>1. /\ item[i] = "fetching" /\ item'[i] \in Ended /\ lastStart' = lastStart
        /\ \A j \in DOMAIN work \ {i} : item'[j] = item[j]
    BY <1>2, <1>6 DEF Fetch, Warmed, Failed, Ended
  <2>2. Waiting("queued")' = Waiting("queued") /\ Waiting("gated")' = Waiting("gated")
    BY <1>2, <2>1 DEF Waiting, Ended
  <2>3. /\ Measure'[1] = Measure[1] /\ Measure'[2] = Measure[2] /\ Measure'[3] = Measure[3]
        /\ Measure'[4] < Measure[4]
    BY <1>2, <1>3, <2>1, <2>2 DEF Measure, Ahead, Within, Fetching, StageToGo, Ended
  <2> QED
    BY <1>2, <2>1, <2>3, LowerAt DEF StepsInv
<1> QED
  BY <1>1, <1>4, <1>5, <1>6

\* Time passes, but not beyond what a thread may oversleep.
LEMMA PassingLowers ==
  ASSUME VariantInv, Passing PROVE StepsInv' /\ Lower(Measure', Measure)
<1>1. /\ stage = "pool" /\ stage' = stage /\ UNCHANGED <<work, item, lastStart>>
      /\ clock' = clock + 1 /\ clock < lastStart + Slack
      /\ clock \in Nat /\ lastStart \in Nat /\ Slack \in Nat
  BY WorkersAssumption DEF Passing, Tick, VariantInv, PoolInv, PoolTypeOK
<1>2. clock' <= lastStart' + Slack /\ lastStart' + Slack - clock' < lastStart + Slack - clock
  BY <1>1
<1>3. \A s : Waiting(s)' = Waiting(s)
  BY <1>1 DEF Waiting
<1>4. /\ Measure'[1] = Measure[1] /\ Measure'[2] = Measure[2] /\ Measure'[3] = Measure[3]
      /\ Measure'[4] = Measure[4] /\ Measure'[5] < Measure[5]
  BY <1>1, <1>2, <1>3 DEF Measure, Ahead, Within, Fetching, ToWait, StageToGo
<1> QED
  BY <1>1, <1>2, <1>4, LowerAt DEF StepsInv

LEMMA StepsLower ==
  ASSUME VariantInv, Executor \/ Thread \/ Passing
  PROVE  StepsInv' /\ Lower(Measure', Measure)
BY StagesLower, AskLowers, SeedLowers, ThreadLowers, PassingLowers DEF Executor, Seed

LEMMA ImportLeaves ==
  ASSUME VariantInv, Import \/ UNCHANGED vars
  PROVE  StepsInv' /\ Measure' = Measure
<1>1. UNCHANGED <<runVars, laneVars, poolVars>>
  BY DEF Import, ImportAsked, ImportRow, ImportEvent, ImportFails, ImportStep, vars
<1>2. /\ UNCHANGED <<stage, asked, names, spot, work, item, lastStart, clock>>
      /\ Answered' = Answered /\ \A s : Waiting(s)' = Waiting(s)
  BY <1>1 DEF runVars, laneVars, poolVars, Answered, Competitor, Waiting
<1>3. StepsInv'
  BY <1>2 DEF VariantInv, StepsInv
<1> QED
  BY <1>2, <1>3 DEF Measure, Ahead, Within, Fetching, ToWait, StageToGo

LEMMA StepsInvAlways == Spec => []VariantInv
<1>1. Init => StepsInv
  BY WorkersAssumption DEF Init, PoolIdle, StepsInv
<1>2. VariantInv /\ [Next]_vars => StepsInv'
  BY StepsLower, ImportLeaves DEF Next
<1>3. VariantInv <=> RunInv /\ LaneInv /\ PoolInv /\ StepsInv
  BY DEF VariantInv
<1> QED
  BY <1>1, <1>2, <1>3, RunInvAlways, LaneInvAlways, PoolInvAlways, PTL DEF Spec

\* The steps of an intake run out (runner.py:100-175, prewarm.py:53-223), whatever
\* discovery finds, whatever fails and however the threads of the pool interleave:
\* each lowers a measure of five numbers, and an import beside them raises none.
THEOREM StepsRunOut ==
  Spec => /\ [](\A k \in 1 .. 5 : Measure[k] \in Nat)
          /\ [][/\ Executor \/ Thread \/ Passing => Lower(Measure', Measure)
                /\ Import => Measure' = Measure]_vars
<1>1. VariantInv => \A k \in 1 .. 5 : Measure[k] \in Nat
  <2> SUFFICES ASSUME VariantInv, NEW k \in 1 .. 5 PROVE Measure[k] \in Nat
    OBVIOUS
  <2>1. k = 1 \/ k = 2 \/ k = 3 \/ k = 4 \/ k = 5
    OBVIOUS
  <2> QED
    BY <2>1, MeasureTyped DEF Measure
<1>2. VariantInv => /\ Executor \/ Thread \/ Passing => Lower(Measure', Measure)
                    /\ Import => Measure' = Measure
  BY StepsLower, ImportLeaves
<1> QED
  BY <1>1, <1>2, StepsInvAlways, PTL

(* The types of the executor's, the lane's, the import's and the pool's    *)
(* variables, of all of runner.py's intake.                                *)
THEOREM TypeCorrect == Spec => []TypeOK
<1>1. RunInv /\ ImportInv /\ LaneInv /\ PoolInv => TypeOK
  <2> SUFFICES ASSUME RunInv, ImportInv, LaneInv, PoolInv PROVE TypeOK
    OBVIOUS
  <2>1. \A i \in DOMAIN entries : entries[i].competitor \in Names
    BY DEF LaneInv, LaneTyped, Standing
  <2>2. PoolTypeOK
    BY DEF PoolInv
  <2>3. spot[1] \in 1 .. Len(names) + 1 /\ laneFailed \in BOOLEAN
    BY DEF LaneInv, LaneTyped
  <2>4. /\ import \in {"idle", "refused", "row", "event", "done", "failed"}
        /\ response \in 1 .. Responses + 1 /\ audited \in BOOLEAN
    BY DEF ImportInv
  <2> QED
    BY <2>1, <2>2, <2>3, <2>4 DEF RunInv, TypeOK
<1> QED
  BY <1>1, RunInvAlways, ImportInvAlways, LaneInvAlways, PoolInvAlways, PTL

=============================================================================
