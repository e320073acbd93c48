--------------------------- MODULE CollectionProofs ---------------------------
(***************************************************************************)
(* Theorems about Collection for any threads, tasks, rounds, search        *)
(* results and budget.  Fairness is not used: these are safety properties. *)
(***************************************************************************)
EXTENDS Collection, FiniteSetTheorems, SequenceTheorems, WellFoundedInduction, TLAPS

\* The entries of a call that the closure will charge.
ChargedAt(s) == {k \in DOMAIN s : Charged(s[k].kind)}

\* The counters and the entries belong together: what the call has fetched is
\* what it will be charged for.  Whoever waits at the gate was within the cap
\* when it asked, and nothing moves the cap or the counter meanwhile.
BudgetInv ==
  /\ call \in Nat /\ used \in Nat /\ attempts \in Nat
  /\ \E S : collected \in Seq(S)
  /\ attempts = Cardinality(ChargedAt(collected))
  /\ fetched = used + attempts
  /\ fetched <= FetchBudget
  /\ stage # "loop" => attempts = 0 /\ collected = <<>>
  /\ gate = [t \in Threads |-> gate[t]]
  /\ gate[Self].stage # "idle" => AtHit /\ attempts < FetchCap

\* What an entry adds to the charge of its call.
LEMMA ChargeOfEntry ==
  ASSUME NEW S, NEW s \in Seq(S), NEW e
  PROVE  /\ \E T : Append(s, e) \in Seq(T)
         /\ Cardinality(ChargedAt(s)) \in Nat
         /\ Cardinality(ChargedAt(Append(s, e)))
              = Cardinality(ChargedAt(s)) + (IF Charged(e.kind) THEN 1 ELSE 0)
<1> DEFINE T == S \cup {e}
           n == Len(s)
<1>1. s \in Seq(T) /\ e \in T /\ n \in Nat /\ DOMAIN s = 1 .. n
  BY SeqMonotonic
<1>2. /\ Append(s, e) \in Seq(T)
      /\ DOMAIN Append(s, e) = 1 .. (n + 1)
      /\ \A k \in 1 .. n : Append(s, e)[k] = s[k]
      /\ Append(s, e)[n + 1] = e
  BY <1>1, AppendProperties
<1>3. IsFiniteSet(ChargedAt(s)) /\ Cardinality(ChargedAt(s)) \in Nat
  <2>1. IsFiniteSet(1 .. n)
    BY <1>1, FS_Interval
  <2>2. ChargedAt(s) \subseteq 1 .. n
    BY <1>1 DEF ChargedAt
  <2> QED BY <2>1, <2>2, FS_Subset, FS_CardinalityType
<1>4. CASE Charged(e.kind)
  <2>1. ChargedAt(Append(s, e)) = ChargedAt(s) \cup {n + 1}
    BY <1>1, <1>2, <1>4 DEF ChargedAt
  <2>2. n + 1 \notin ChargedAt(s)
    BY <1>1 DEF ChargedAt
  <2> QED BY <1>2, <1>3, <1>4, <2>1, <2>2, FS_AddElement
<1>5. CASE ~ Charged(e.kind)
  <2>1. ChargedAt(Append(s, e)) = ChargedAt(s)
    BY <1>1, <1>2, <1>5 DEF ChargedAt
  <2> QED BY <1>2, <1>3, <1>5, <2>1
<1> QED BY <1>4, <1>5

\* Within the cap there is something left of the budget.
LEMMA CapLeavesBudget ==
  ASSUME call \in Nat, used \in Nat
  PROVE  FetchCap \in Int /\ FetchCap <= FetchBudget - used
<1>1. Round \in Int
  BY CollectionConstants DEF Round
<1> QED BY <1>1, CollectionConstants DEF FetchCap, LowerOf, Remaining

LEMMA BudgetInvInitially == Init => BudgetInv
<1> SUFFICES ASSUME Init PROVE BudgetInv
  OBVIOUS
<1>1. Cardinality(ChargedAt(<<>>)) = 0
  <2>1. ChargedAt(<<>>) = {}
    BY DEF ChargedAt
  <2> QED BY <2>1, FS_EmptySet
<1>2. \E S : collected \in Seq(S)
  <2>1. <<>> \in Seq({})
    OBVIOUS
  <2> QED BY <2>1 DEF Init
<1>3. gate[Self].stage = "idle" /\ gate = [t \in Threads |-> gate[t]]
  BY CollectionConstants DEF Init, GateInit, NoCall
<1>4. /\ call = 0 /\ used = 0 /\ attempts = 0 /\ fetched = 0
      /\ collected = <<>> /\ stage = "idle"
  BY DEF Init
<1> QED BY <1>1, <1>2, <1>3, <1>4, CollectionConstants DEF BudgetInv

\* Steps that change the gate of this run only.
LEMMA GateOfSelf ==
  ASSUME gate = [t \in Threads |-> gate[t]], NEW t \in Threads,
         \/ \E d : Call(t, d)
         \/ Load(t)
         \/ Return(t)
  PROVE  /\ gate' = [u \in Threads |-> gate'[u]]
         /\ t # Self => gate'[Self] = gate[Self]
         /\ Load(t) => gate[t].stage # "idle"
         /\ Return(t) => gate'[t].stage = "idle"
<1> USE CollectionConstants
<1>0. ASSUME Return(t) PROVE gate' = [gate EXCEPT ![t] = NoCall] /\ gate'[t].stage = "idle"
  <2>1. gate' = [gate EXCEPT ![t] = NoCall]
    BY <1>0 DEF Return
  <2>2. gate'[t] = NoCall
    BY <2>1
  <2> QED BY <2>1, <2>2 DEF NoCall
<1>1. CASE \E d : Call(t, d)
  <2>1. gate[t].stage = "idle" /\ ~ Load(t)
    BY <1>1 DEF Call, Load, CheckMark, DropMark, FetchRaises, FetchAnswers, Forget
  <2>2. \E c : gate' = [gate EXCEPT ![t] = c]
    BY <1>1 DEF Call
  <2> QED BY <1>0, <2>1, <2>2
<1>2. CASE Load(t)
  <2>1. gate[t].stage # "idle"
    BY <1>2 DEF Load, CheckMark, DropMark, FetchRaises, FetchAnswers, Forget
  <2>2. \E c : gate' = [gate EXCEPT ![t] = c]
    BY <1>2 DEF Load, CheckMark, DropMark, FetchRaises, FetchAnswers, Forget, Advance, Become
  <2> QED BY <1>0, <2>1, <2>2
<1>3. CASE Return(t)
  <2>1. gate' = [gate EXCEPT ![t] = NoCall]
    BY <1>0, <1>3
  <2>2. Load(t) => gate[t].stage # "idle"
    BY DEF Load, CheckMark, DropMark, FetchRaises, FetchAnswers, Forget
  <2> QED BY <1>0, <1>3, <2>1, <2>2
<1> QED BY <1>1, <1>2, <1>3

\* The steps of this run that change no counter and are not at the gate.
LEMMA ElsewhereKeepsBudgetInv ==
  ASSUME BudgetInv, Begin \/ Expand \/ Complete \/ Rank \/ Leave
  PROVE  BudgetInv'
<1> USE DEF BudgetInv
<1>1. UNCHANGED <<gate, used, attempts, collected, fetched>> /\ call' \in Nat
  BY DEF Begin, Expand, Complete, Rank, Leave, Submit, search, history, gateVars, closure
<1>2. stage # "loop" /\ gate[Self].stage = "idle"
  BY DEF Begin, Expand, Complete, Rank, Leave, AtHit
<1> QED BY <1>1, <1>2 DEF ChargedAt

LEMMA AskGateKeepsBudgetInv ==
  ASSUME BudgetInv, AskGate
  PROVE  BudgetInv'
<1>1. UNCHANGED <<stage, call, used, ranked, position, attempts, collected, fetched>>
  BY DEF AskGate, closure, search, history
<1>2. AtHit' /\ (attempts < FetchCap)'
  BY <1>1 DEF AskGate, AtHit, FetchCap, Round, Remaining, LowerOf
<1>3. gate' = [t \in Threads |-> gate'[t]]
  <2>1. Call(Self, Hit.site)
    BY DEF AskGate
  <2> QED BY <2>1, GateOfSelf, CollectionConstants DEF BudgetInv
<1> QED BY <1>1, <1>2, <1>3 DEF BudgetInv, ChargedAt

LEMMA LoadRobotsKeepsBudgetInv ==
  ASSUME BudgetInv, LoadRobots
  PROVE  BudgetInv'
<1>1. UNCHANGED <<stage, call, used, ranked, position, attempts, collected, fetched>>
  BY DEF LoadRobots, closure, search, history
<1>2. gate[Self].stage # "idle" /\ gate' = [t \in Threads |-> gate'[t]]
  BY GateOfSelf, CollectionConstants DEF BudgetInv, LoadRobots
<1>3. AtHit' /\ (attempts < FetchCap)'
  BY <1>1, <1>2 DEF BudgetInv, AtHit, FetchCap, Round, Remaining, LowerOf
<1> QED BY <1>1, <1>2, <1>3 DEF BudgetInv, ChargedAt

LEMMA SkipDisallowedKeepsBudgetInv ==
  ASSUME BudgetInv, SkipDisallowed
  PROVE  BudgetInv'
<1> DEFINE e == [hit |-> Hit, kind |-> "skipped_robots"]
<1>1. UNCHANGED <<stage, call, used, attempts, fetched>> /\ stage = "loop"
  BY DEF SkipDisallowed, AtHit, closure, history
<1>2. collected' = Append(collected, e) /\ ~ Charged(e.kind)
  BY DEF SkipDisallowed, Collect, Charged
<1>3. gate'[Self].stage = "idle" /\ gate' = [t \in Threads |-> gate'[t]]
  BY GateOfSelf, CollectionConstants DEF BudgetInv, SkipDisallowed
<1>4. /\ \E T : collected' \in Seq(T)
      /\ Cardinality(ChargedAt(collected')) = Cardinality(ChargedAt(collected))
  <2>1. PICK S : collected \in Seq(S)
    BY DEF BudgetInv
  <2> QED BY <1>2, <2>1, ChargeOfEntry
<1> QED BY <1>1, <1>3, <1>4 DEF BudgetInv, ChargedAt

LEMMA FetchKeepsBudgetInv ==
  ASSUME BudgetInv, Fetch
  PROVE  BudgetInv'
<1>1. UNCHANGED <<stage, call, used>> /\ stage = "loop"
  BY DEF Fetch, AtHit, closure
<1>2. attempts' = attempts + 1 /\ fetched' = fetched + 1
  BY DEF Fetch
<1>3. gate'[Self].stage = "idle" /\ gate' = [t \in Threads |-> gate'[t]]
  BY GateOfSelf, CollectionConstants DEF BudgetInv, Fetch
<1>4. PICK kind \in {"page", "thin", "fetch_failed"} :
        collected' = Append(collected, [hit |-> Hit, kind |-> kind])
  <2>1. Outcomes \subseteq {"page", "thin", "fetch_failed"}
    BY DEF Outcomes, Fallback, Rendered, LiveOutcomes
  <2>2. PICK outcome \in Outcomes : Collect(outcome)
    BY DEF Fetch
  <2> QED BY <2>1, <2>2 DEF Collect
<1>5. /\ \E T : collected' \in Seq(T)
      /\ Cardinality(ChargedAt(collected')) = Cardinality(ChargedAt(collected)) + 1
  <2>1. PICK S : collected \in Seq(S)
    BY DEF BudgetInv
  <2>2. Charged([hit |-> Hit, kind |-> kind].kind)
    BY DEF Charged
  <2> QED BY <1>4, <2>1, <2>2, ChargeOfEntry
<1>6. attempts + 1 <= FetchBudget - used
  BY CapLeavesBudget, CollectionConstants DEF BudgetInv, Fetch
<1> QED BY <1>1, <1>2, <1>3, <1>5, <1>6, CollectionConstants DEF BudgetInv, ChargedAt

LEMMA TakeSnippetKeepsBudgetInv ==
  ASSUME BudgetInv, TakeSnippet
  PROVE  BudgetInv'
<1> DEFINE e == [hit |-> Hit, kind |-> "snippet"]
<1>1. UNCHANGED <<stage, call, used, attempts, fetched, gate>> /\ stage = "loop"
  BY DEF TakeSnippet, AtHit, closure, history, gateVars
<1>2. gate[Self].stage = "idle"
  BY CapLeavesBudget DEF BudgetInv, TakeSnippet
<1>3. collected' = Append(collected, e) \/ collected' = collected
  BY DEF TakeSnippet, Collect
<1>4. /\ \E T : collected' \in Seq(T)
      /\ Cardinality(ChargedAt(collected')) = Cardinality(ChargedAt(collected))
  <2>1. PICK S : collected \in Seq(S)
    BY DEF BudgetInv
  <2>2. ~ Charged(e.kind)
    BY DEF Charged
  <2>3. CASE collected' = collected
    BY <2>1, <2>3
  <2>4. CASE collected' = Append(collected, e)
    <3>1. /\ \E T : Append(collected, e) \in Seq(T)
          /\ Cardinality(ChargedAt(collected)) \in Nat
          /\ Cardinality(ChargedAt(Append(collected, e)))
               = Cardinality(ChargedAt(collected)) + 0
      BY <2>1, <2>2, ChargeOfEntry
    <3> QED BY <2>4, <3>1
  <2> QED BY <1>3, <2>3, <2>4
<1> QED BY <1>1, <1>2, <1>4 DEF BudgetInv, ChargedAt

LEMMA FinishKeepsBudgetInv ==
  ASSUME BudgetInv, Finish
  PROVE  BudgetInv'
<1>1. /\ UNCHANGED <<call, fetched, gate>> /\ stage' = "idle"
      /\ used' = used + attempts /\ attempts' = 0 /\ collected' = <<>>
  BY DEF Finish, BudgetInv, ChargedAt, history, gateVars
<1>2. gate[Self].stage = "idle"
  BY DEF Finish, BudgetInv
<1>3. Cardinality(ChargedAt(<<>>)) = 0 /\ <<>> \in Seq({})
  <2>1. ChargedAt(<<>>) = {}
    BY DEF ChargedAt
  <2> QED BY <2>1, FS_EmptySet
<1>4. \E S : collected' \in Seq(S)
  BY <1>1, <1>3
<1> QED BY <1>1, <1>2, <1>3, <1>4 DEF BudgetInv

LEMMA OthersKeepBudgetInv ==
  ASSUME BudgetInv, Clock \/ \E t \in Threads : Other(t)
  PROVE  BudgetInv'
<1>1. UNCHANGED <<stage, call, used, ranked, position, attempts, collected, fetched>>
  BY DEF Clock, Other, closure, search, history
<1>2. gate' = [t \in Threads |-> gate'[t]] /\ gate'[Self] = gate[Self]
  <2>1. CASE Clock
    BY <2>1 DEF Clock, Tick, BudgetInv
  <2>2. CASE \E t \in Threads : Other(t)
    BY <2>2, GateOfSelf DEF Other, BudgetInv
  <2> QED BY <2>1, <2>2
<1>3. gate[Self].stage # "idle" => AtHit' /\ (attempts < FetchCap)'
  BY <1>1 DEF BudgetInv, AtHit, FetchCap, Round, Remaining, LowerOf
<1> QED BY <1>1, <1>2, <1>3 DEF BudgetInv, ChargedAt

\* Over all calls, tasks and rounds of a run the page fetches stay within
\* fetch_budget_per_run (graph.py make_default_collect_fn), whatever fails.
THEOREM BudgetIsKept == Spec => []BudgetKept
<1>1. Init => BudgetInv
  BY BudgetInvInitially
<1>2. BudgetInv /\ [Next]_vars => BudgetInv'
  <2> SUFFICES ASSUME BudgetInv, [Next]_vars PROVE BudgetInv'
    OBVIOUS
  <2>1. CASE Own
    BY <2>1, ElsewhereKeepsBudgetInv, AskGateKeepsBudgetInv, LoadRobotsKeepsBudgetInv,
       SkipDisallowedKeepsBudgetInv, FetchKeepsBudgetInv, TakeSnippetKeepsBudgetInv,
       FinishKeepsBudgetInv DEF Own
  <2>2. CASE Clock \/ \E t \in Threads : Other(t)
    BY <2>2, OthersKeepBudgetInv
  <2>3. CASE UNCHANGED vars
    BY <2>3 DEF vars, BudgetInv, ChargedAt, AtHit, FetchCap, Round, Remaining, LowerOf
  <2> QED BY <2>1, <2>2, <2>3 DEF Next
<1>3. BudgetInv => BudgetKept
  BY DEF BudgetInv, BudgetKept
<1> QED BY <1>1, <1>2, <1>3, PTL DEF Spec

----------------------------------------------------------------------------
(***************************************************************************)
(* The ranking: no url twice, no domain beyond its cap, and no look-alike  *)
(* ahead of what it imitates.                                              *)
(***************************************************************************)
NoUrlTwice(list) == \A k, l \in DOMAIN list : list[k].url = list[l].url => k = l

OfDomain(list, d) == {k \in DOMAIN list : list[k].domain = d}

InFront(list) ==
  \A i, j \in DOMAIN list :
     /\ Padded(list[i].domain, list[j].domain) /\ Genuine(list[j].domain)
     /\ list[j].authority > list[i].authority
     /\ list[i].relevance = list[j].relevance
     => j < i

WellRanked(list) ==
  /\ list \in Seq(Previews) /\ NoUrlTwice(list) /\ InFront(list)
  /\ \A d : Cardinality(OfDomain(list, d)) <= PerDomainCap

\* A set of places that is not empty has a last one.
LEMMA LastPlace ==
  ASSUME NEW n \in Nat, NEW K, K \subseteq 1 .. n, K # {}
  PROVE  \E x \in K : \A y \in K : y <= x
<1> DEFINE T == {n - k : k \in K}
<1>1. T \subseteq Nat /\ T # {}
  <2>1. \A k \in K : k \in Nat /\ k <= n
    OBVIOUS
  <2>2. \A k \in K : n - k \in Nat
    BY <2>1
  <2> QED
    BY <2>2
<1>2. PICK t \in T : \A y \in T : ~ (<<y, t>> \in OpToRel(<, Nat))
  BY <1>1, NatLessThanWellFounded, WFMin
<1>3. \A y \in T : ~ (y < t)
  BY <1>1, <1>2 DEF OpToRel
<1>4. PICK x \in K : t = n - x
  BY <1>2
<1>5. \A y \in K : y <= x
  <2> SUFFICES ASSUME NEW y \in K PROVE y <= x
    OBVIOUS
  <2>1. n - y \in T
    OBVIOUS
  <2>2. ~ (n - y < n - x)
    BY <1>3, <1>4, <2>1
  <2>3. x \in Nat /\ y \in Nat
    OBVIOUS
  <2> HIDE DEF T
  <2> QED
    BY <2>2, <2>3
<1> QED
  BY <1>5

\* At least one engine has found it, and at most five have.
LEMMA AgreementBounds ==
  ASSUME NEW s \in Seq(Previews), NEW i \in DOMAIN s
  PROVE  Agreement(s, i) \in 1 .. 5
<1> DEFINE votes == {s[j].engine : j \in {k \in DOMAIN s : s[k].url = s[i].url}}
<1>1. votes \subseteq Engines /\ s[i].engine \in votes
  <2>1. \A j \in DOMAIN s : s[j] \in Previews
    OBVIOUS
  <2> QED
    BY <2>1, SearchAssumption
<1>2. IsFiniteSet(Engines) /\ Cardinality(Engines) <= Cardinality(TierEngines)
  BY SearchAssumption, FS_Subset DEF Engines
<1>3. IsFiniteSet(votes) /\ Cardinality(votes) <= Cardinality(Engines)
  BY <1>1, <1>2, FS_Subset
<1>4. Cardinality(votes) \in Nat /\ Cardinality(votes) # 0
  BY <1>1, <1>3, FS_CardinalityType, FS_EmptySet
<1>5. Cardinality(TierEngines) \in Nat /\ Cardinality(TierEngines) <= 5
      /\ Cardinality(Engines) \in Nat
  BY <1>2, SearchAssumption, FS_CardinalityType
<1>6. Agreement(s, i) = Cardinality(votes)
  BY DEF Agreement
<1> HIDE DEF votes
<1> QED
  BY <1>2, <1>3, <1>4, <1>5, <1>6

LEMMA PenaltyDecides ==
  ASSUME NEW a \in Int, NEW b \in Int, NEW r \in Int, NEW e \in {0, Unit}, NEW f \in {0, Unit},
         NEW g \in 1 .. 5, NEW h \in 1 .. 5
  PROVE  /\ a + e + Unit * g + r \in Int
         /\ b > a => (a + e + Unit * g + r) - 5 * Unit < (b + f + Unit * h + r) - 0
<1>1. Unit \in Nat /\ Unit >= 1
  BY RankingAssumption
<1>2. Unit * g \in Int /\ Unit * g <= 5 * Unit
  <2>1. g = 1 \/ g = 2 \/ g = 3 \/ g = 4 \/ g = 5
    OBVIOUS
  <2> QED
    BY <1>1, <2>1
<1>3. Unit * h \in Int /\ Unit * h >= Unit
  <2>1. h = 1 \/ h = 2 \/ h = 3 \/ h = 4 \/ h = 5
    OBVIOUS
  <2> QED
    BY <1>1, <2>1
<1>4. e \in Int /\ f \in Int /\ e <= Unit /\ f >= 0
  BY <1>1
<1> QED
  BY <1>1, <1>2, <1>3, <1>4

LEMMA QualityTyped ==
  ASSUME NEW s \in Seq(Previews), NEW i \in First(s)
  PROVE  /\ i \in DOMAIN s /\ i \in Nat /\ s[i] \in Previews
         /\ s[i].authority \in Int /\ s[i].relevance \in Int
         /\ Independence(s, i) \in {0, Unit} /\ Agreement(s, i) \in 1 .. 5
         /\ Qualities(s)[i] = Quality(s, i) /\ Quality(s, i) \in Int
<1>1. i \in DOMAIN s /\ i \in Nat
  BY DEF First
<1>2. s[i] \in Previews
  BY <1>1
<1>3. s[i].authority \in Int /\ s[i].relevance \in Int
  BY <1>2, SearchAssumption
<1>4. Independence(s, i) \in {0, Unit}
  BY DEF Independence, IndependenceBonus
<1>5. Agreement(s, i) \in 1 .. 5
  BY <1>1, AgreementBounds
<1>6. Quality(s, i) \in Int
  <2>1. Composite(s, i) \in Int
    BY <1>3, <1>4, <1>5, PenaltyDecides DEF Composite
  <2> QED
    BY <2>1, RankingAssumption DEF Quality, SpamPenalty
<1>7. Qualities(s)[i] = Quality(s, i)
  BY DEF Qualities
<1> QED
  BY <1>1, <1>2, <1>3, <1>4, <1>5, <1>6, <1>7

\* Five engines cannot make up for the penalty; six could.
LEMMA DemotedBelow ==
  ASSUME NEW s \in Seq(Previews), NEW i \in First(s), NEW j \in First(s),
         Padded(s[i].domain, s[j].domain), Genuine(s[j].domain),
         s[j].authority > s[i].authority, s[i].relevance = s[j].relevance
  PROVE  Quality(s, i) < Quality(s, j)
<1>1. Squats(s, i)
  BY DEF Squats
<1>2. ~ Squats(s, j)
  <2>1. \A k \in First(s) : s[k] \in Previews
    BY QualityTyped
  <2> QED
    BY <2>1 DEF Squats, Genuine
<1>3. /\ Quality(s, i) = Composite(s, i) - 5 * Unit
      /\ Quality(s, j) = Composite(s, j) - 0
  BY <1>1, <1>2 DEF Quality, SpamPenalty
<1>4. /\ s[i].authority \in Int /\ s[i].relevance \in Int
      /\ Independence(s, i) \in {0, Unit} /\ Agreement(s, i) \in 1 .. 5
      /\ s[j].authority \in Int /\ s[j].relevance \in Int
      /\ Independence(s, j) \in {0, Unit} /\ Agreement(s, j) \in 1 .. 5
  BY QualityTyped
<1>5. /\ Composite(s, i) = s[i].authority + Independence(s, i) + Unit * Agreement(s, i)
                             + s[i].relevance
      /\ Composite(s, j) = s[j].authority + Independence(s, j) + Unit * Agreement(s, j)
                             + s[i].relevance
  BY DEF Composite
<1>6. (s[i].authority + Independence(s, i) + Unit * Agreement(s, i) + s[i].relevance) - 5 * Unit
        < (s[j].authority + Independence(s, j) + Unit * Agreement(s, j) + s[i].relevance) - 0
  BY <1>4, PenaltyDecides
<1> QED
  BY <1>3, <1>5, <1>6

LEMMA RankingIsSound ==
  ASSUME NEW s \in Seq(Previews),
         NEW list \in DedupeAndRank(s, Qualities(s), TopK, PerDomainCap)
  PROVE  WellRanked(list)
<1> DEFINE q    == Qualities(s)
           kept == WithinCap(s, q, PerDomainCap)
           c    == Cardinality(kept)
<1>1. PICK order \in Orders(s, q, PerDomainCap) :
        list = [k \in Top(order, TopK) |-> s[order[k]]]
  BY DEF DedupeAndRank
<1>2. kept \subseteq First(s) /\ First(s) \subseteq 1 .. Len(s)
  BY DEF WithinCap, First
<1>3. IsFiniteSet(First(s)) /\ IsFiniteSet(kept) /\ c \in Nat
  <2>1. IsFiniteSet(1 .. Len(s))
    BY FS_Interval
  <2>2. IsFiniteSet(First(s))
    BY <1>2, <2>1, FS_Subset
  <2>3. IsFiniteSet(kept)
    BY <1>2, <2>2, FS_Subset
  <2> QED
    BY <2>2, <2>3, FS_CardinalityType
<1>4. /\ order \in [1 .. c -> kept]
      /\ \A k, l \in 1 .. c : k < l => Better(q, order[k], order[l])
  BY DEF Orders
<1> DEFINE n == IF TopK < c THEN TopK ELSE c
<1>5. n \in Nat /\ n <= c /\ Top(order, TopK) = 1 .. n
  BY <1>3, <1>4, CollectionConstants DEF Top
<1>6. \A k \in 1 .. n : /\ k \in 1 .. c /\ order[k] \in First(s) /\ order[k] \in kept
                        /\ list[k] = s[order[k]] /\ list[k] \in Previews
  <2> SUFFICES ASSUME NEW k \in 1 .. n
               PROVE  /\ k \in 1 .. c /\ order[k] \in First(s) /\ order[k] \in kept
                      /\ list[k] = s[order[k]] /\ list[k] \in Previews
    OBVIOUS
  <2>1. k \in 1 .. c
    BY <1>3, <1>5
  <2>2. order[k] \in kept /\ order[k] \in First(s)
    BY <1>2, <1>4, <2>1
  <2>3. list[k] = s[order[k]]
    BY <1>1, <1>5
  <2> QED
    BY <2>1, <2>2, <2>3, QualityTyped
<1>7. list \in Seq(Previews) /\ DOMAIN list = 1 .. n
  <2>1. list \in [1 .. n -> Previews]
    BY <1>1, <1>5, <1>6
  <2> QED
    BY <1>5, <2>1
<1> HIDE DEF n, c, kept, q
\* The order is strict, so that no place is listed twice.
<1>8. \A k, l \in 1 .. n : k < l => order[k] # order[l]
  <2> SUFFICES ASSUME NEW k \in 1 .. n, NEW l \in 1 .. n, k < l, order[k] = order[l]
               PROVE  FALSE
    OBVIOUS
  <2>1. Better(q, order[k], order[k])
    BY <1>4, <1>6
  <2>2. q[order[k]] \in Int /\ order[k] \in Nat
    BY <1>6, QualityTyped DEF q
  <2> QED
    BY <2>1, <2>2 DEF Better
<1>9. NoUrlTwice(list)
  <2> SUFFICES ASSUME NEW k \in 1 .. n, NEW l \in 1 .. n, list[k].url = list[l].url, k # l
               PROVE  FALSE
    BY <1>7 DEF NoUrlTwice
  <2>1. order[k] # order[l]
    <3>1. k < l \/ l < k
      BY <1>5
    <3> QED
      BY <1>8, <3>1
  <2>2. s[order[k]].url = s[order[l]].url /\ order[k] \in First(s) /\ order[l] \in First(s)
    BY <1>6
  <2>3. order[k] \in Nat /\ order[l] \in Nat /\ order[k] >= 1 /\ order[l] >= 1
    BY <1>2, <2>2
  <2>4. order[k] < order[l] \/ order[l] < order[k]
    BY <2>1, <2>3
  <2> QED
    BY <2>2, <2>3, <2>4 DEF First
<1>10. InFront(list)
  <2> SUFFICES ASSUME NEW i \in 1 .. n, NEW j \in 1 .. n,
                      Padded(list[i].domain, list[j].domain), Genuine(list[j].domain),
                      list[j].authority > list[i].authority,
                      list[i].relevance = list[j].relevance
               PROVE  j < i
    BY <1>7 DEF InFront
  <2>1. Quality(s, order[i]) < Quality(s, order[j])
    BY <1>6, DemotedBelow
  <2>2. /\ q[order[i]] = Quality(s, order[i]) /\ q[order[j]] = Quality(s, order[j])
        /\ Quality(s, order[i]) \in Int /\ Quality(s, order[j]) \in Int
    BY <1>6, QualityTyped DEF q
  <2>3. ~ (i < j)
    <3> SUFFICES ASSUME i < j PROVE FALSE
      OBVIOUS
    <3>1. Better(q, order[i], order[j])
      BY <1>4, <1>6
    <3> QED
      BY <2>1, <2>2, <3>1 DEF Better
  <2>4. i # j
    BY <2>1, <2>2
  <2> QED
    BY <1>5, <2>3, <2>4
\* The worst of a domain has fewer than the cap ahead of it: all its others.
<1>11. ASSUME NEW d PROVE Cardinality(OfDomain(list, d)) <= PerDomainCap
  <2> DEFINE K == OfDomain(list, d)
  <2>1. K \subseteq 1 .. n /\ IsFiniteSet(K) /\ Cardinality(K) \in Nat
    <3>1. K \subseteq 1 .. n
      BY <1>7 DEF OfDomain
    <3>2. IsFiniteSet(1 .. n)
      BY <1>5, FS_Interval
    <3> HIDE DEF K
    <3> QED
      BY <3>1, <3>2, FS_Subset, FS_CardinalityType
  <2>2. CASE K = {}
    BY <2>2, FS_EmptySet DEF PerDomainCap
  <2>3. CASE K # {}
    <3>1. PICK x \in K : \A y \in K : y <= x
      BY <1>5, <2>1, <2>3, LastPlace
    <3> DEFINE ahead == {j \in First(s) : /\ s[j].domain = s[order[x]].domain
                                          /\ Better(q, j, order[x])}
               place == [k \in K \ {x} |-> order[k]]
    <3>2. Cardinality(ahead) < PerDomainCap
      BY <1>6, <2>1, <3>1 DEF kept, WithinCap
    <3>3. place \in [K \ {x} -> ahead]
      <4> SUFFICES ASSUME NEW k \in K \ {x} PROVE order[k] \in ahead
        OBVIOUS
      <4>1. k \in 1 .. n /\ x \in 1 .. n /\ k < x
        BY <1>5, <2>1, <3>1
      <4>2. Better(q, order[k], order[x])
        BY <1>4, <1>6, <4>1
      <4>3. list[k].domain = d /\ list[x].domain = d
        BY <3>1 DEF OfDomain
      <4> QED
        BY <1>6, <4>1, <4>2, <4>3
    <3>4. \A k, l \in K \ {x} : place[k] = place[l] => k = l
      <4> SUFFICES ASSUME NEW k \in K \ {x}, NEW l \in K \ {x}, order[k] = order[l], k # l
                   PROVE  FALSE
        OBVIOUS
      <4>1. k \in 1 .. n /\ l \in 1 .. n /\ (k < l \/ l < k)
        BY <1>5, <2>1
      <4> QED
        BY <1>8, <4>1
    <3>5. place \in Injection(K \ {x}, ahead)
      BY <3>3, <3>4 DEF Injection, IsInjective
    <3>6. IsFiniteSet(ahead) /\ Cardinality(ahead) \in Nat
      BY <1>3, FS_Subset, FS_CardinalityType
    <3>7. Cardinality(K \ {x}) <= Cardinality(ahead)
      BY <3>5, <3>6, FS_Injection
    <3>8. Cardinality(K \ {x}) = Cardinality(K) - 1
      BY <2>1, <3>1, FS_RemoveElement
    <3> HIDE DEF K, ahead
    <3> QED
      BY <2>1, <3>2, <3>6, <3>7, <3>8 DEF PerDomainCap, K
  <2> QED
    BY <2>2, <2>3
<1> QED
  BY <1>7, <1>9, <1>10, <1>11 DEF WellRanked

(***************************************************************************)
(* What a call collects are different candidates, from in front of the one *)
(* that the loop is at.                                                    *)
(***************************************************************************)
Drawn(entries) ==
  /\ \E S : entries \in Seq(S)
  /\ \A k \in DOMAIN entries : \E p \in DOMAIN ranked : p < position /\ entries[k].hit = ranked[p]
  /\ \A k, l \in DOMAIN entries : entries[k].hit.url = entries[l].hit.url => k = l

SearchInv ==
  /\ call \in Nat
  /\ \A t \in 0 .. (Tasks - 1) : memo[t] \subseteq Lines \cup {Base}
  /\ memo = [t \in 0 .. (Tasks - 1) |-> memo[t]]
  /\ pending \subseteq Jobs /\ merged \in Seq(Previews)
  /\ WellRanked(ranked) /\ position \in Nat \ {0} /\ Drawn(collected)
  /\ stage # "loop" => collected = <<>>

LEMMA NothingRanked == WellRanked(<<>>) /\ <<>> \in Seq(Previews)
<1>1. \A d : OfDomain(<<>>, d) = {}
  BY DEF OfDomain
<1>2. \A d : Cardinality(OfDomain(<<>>, d)) <= PerDomainCap
  BY <1>1, FS_EmptySet DEF PerDomainCap
<1> QED
  BY <1>2 DEF WellRanked, NoUrlTwice, InFront

LEMMA NothingDrawn == Drawn(<<>>) /\ Drawn(<<>>)'
<1>1. <<>> \in Seq({})
  OBVIOUS
<1> QED
  BY <1>1 DEF Drawn

LEMMA SearchInvInit == Init => SearchInv
BY NothingRanked, NothingDrawn DEF Init, SearchInv

\* The candidate at the loop is added, and the loop moves on.
LEMMA EntryDrawn ==
  ASSUME SearchInv, AtHit, NEW kind, position' = position + 1, ranked' = ranked,
         collected' \in {collected, Append(collected, [hit |-> Hit, kind |-> kind])}
  PROVE  WellRanked(ranked)' /\ position' \in Nat \ {0} /\ Drawn(collected)'
<1> DEFINE e == [hit |-> Hit, kind |-> kind]
<1>1. /\ WellRanked(ranked) /\ position \in Nat /\ Drawn(collected)
      /\ Len(ranked) \in Nat /\ DOMAIN ranked = 1 .. Len(ranked)
  BY DEF SearchInv, WellRanked
<1>2. \A k \in DOMAIN collected : \E p \in DOMAIN ranked :
        p < position' /\ collected[k].hit = ranked[p]
  BY <1>1 DEF Drawn
<1>3. CASE collected' = collected
  BY <1>1, <1>2, <1>3 DEF Drawn
<1>4. CASE collected' = Append(collected, e)
  <2>1. PICK S : collected \in Seq(S)
    BY <1>1 DEF Drawn
  <2> DEFINE n == Len(collected)
  <2>2. /\ collected' \in Seq(S \cup {e}) /\ n \in Nat /\ DOMAIN collected = 1 .. n
        /\ DOMAIN collected' = 1 .. (n + 1) /\ collected'[n + 1] = e
        /\ \A k \in 1 .. n : collected'[k] = collected[k]
    <3>1. collected \in Seq(S \cup {e}) /\ e \in S \cup {e}
      BY <2>1, SeqMonotonic
    <3> QED
      BY <1>4, <3>1, AppendProperties
  <2>3. e.hit = ranked[position]
    BY DEF Hit
  <2> HIDE DEF n, e
  <2>4. /\ \A k \in DOMAIN collected' : k \in DOMAIN collected \/ k = n + 1
        /\ \A k \in DOMAIN collected : collected'[k] = collected[k]
    BY <2>2
  <2>5. position \in DOMAIN ranked \/ position = 0
    BY <1>1 DEF AtHit
  <2>6. CASE position \in DOMAIN ranked
    <3>1. \A k \in DOMAIN collected : collected[k].hit.url # e.hit.url
      <4> SUFFICES ASSUME NEW k \in DOMAIN collected, collected[k].hit.url = e.hit.url
                   PROVE  FALSE
        OBVIOUS
      <4>1. PICK p \in DOMAIN ranked : p < position /\ collected[k].hit = ranked[p]
        BY <1>1 DEF Drawn
      <4>2. p = position
        BY <1>1, <2>3, <2>6, <4>1 DEF WellRanked, NoUrlTwice
      <4> QED
        BY <1>1, <4>1, <4>2
    <3>2. \A k \in DOMAIN collected' : \E p \in DOMAIN ranked' :
            p < position' /\ collected'[k].hit = ranked'[p]
      BY <1>1, <1>2, <2>2, <2>3, <2>4, <2>6
    <3>3. \A k, l \in DOMAIN collected' :
            collected'[k].hit.url = collected'[l].hit.url => k = l
      BY <1>1, <2>2, <2>4, <3>1 DEF Drawn
    <3> QED
      BY <1>1, <2>2, <3>2, <3>3 DEF Drawn
  <2>7. position # 0
    BY DEF SearchInv
  <2> QED
    BY <2>5, <2>6, <2>7
<1> QED
  BY <1>3, <1>4 DEF e

LEMMA SubmitKeeps ==
  ASSUME NEW queries, queries \subseteq Lines \cup {Base}, Submit(queries)
  PROVE  pending' \subseteq Jobs /\ stage' = "search"
BY DEF Submit, Jobs

LEMMA ExpandKeepsSearchInv ==
  ASSUME SearchInv, Expand PROVE SearchInv'
<1>1. /\ call' = call /\ merged' = merged /\ ranked' = ranked /\ position' = position
      /\ collected' = collected /\ stage = "expand"
  BY DEF Expand
<1>2. Task \in 0 .. (Tasks - 1)
  BY CollectionConstants DEF SearchInv, Task
<1> DEFINE Submitted ==
      /\ pending' \subseteq Jobs /\ stage' = "search"
      /\ \A t \in 0 .. (Tasks - 1) : memo'[t] \subseteq Lines \cup {Base}
      /\ memo' = [t \in 0 .. (Tasks - 1) |-> memo'[t]]
<1>3. Submitted
  <2>1. CASE memo[Task] # {} /\ Submit(memo[Task]) /\ UNCHANGED memo
    BY <1>2, <2>1, SubmitKeeps DEF SearchInv
  <2>2. CASE Submit({Base}) /\ UNCHANGED memo
    BY <2>2, SubmitKeeps DEF SearchInv
  <2>3. ASSUME NEW queries \in Expansions, Submit(queries),
               memo' = [memo EXCEPT ![Task] = queries]
        PROVE  Submitted
    <3>1. queries \subseteq Lines \cup {Base}
      BY DEF Expansions
    <3>2. pending' \subseteq Jobs /\ stage' = "search"
      BY <2>3, <3>1, SubmitKeeps
    <3> QED
      BY <2>3, <3>1, <3>2 DEF SearchInv
  <2> HIDE DEF Submitted
  <2> QED
    BY <2>1, <2>2, <2>3 DEF Expand
<1>4. WellRanked(ranked') /\ Drawn(collected)'
  BY <1>1 DEF SearchInv, Drawn
<1> QED
  BY <1>1, <1>3, <1>4 DEF SearchInv

\* Whatever a provider returns of its previews.
LEMMA FoundTyped ==
  ASSUME NEW job \in Jobs, NEW previews \in Found(job)
  PROVE  previews \in Seq(Previews)
<1>1. Results[job] \in Seq(Previews) /\ <<>> \in Seq(Previews)
  BY SearchAssumption, NothingRanked
<1>2. \A n \in DOMAIN Results[job] : SubSeq(Results[job], 1, n) \in Seq(Previews)
  <2> SUFFICES ASSUME NEW n \in DOMAIN Results[job]
               PROVE  SubSeq(Results[job], 1, n) \in Seq(Previews)
    OBVIOUS
  <2>1. n \in 1 .. Len(Results[job]) /\ Len(Results[job]) \in Nat
    BY <1>1
  <2>2. \A i \in 1 .. n : i \in 1 .. Len(Results[job])
    BY <2>1
  <2> QED
    BY <1>1, <2>1, <2>2, SubSeqProperties
<1> QED
  BY <1>1, <1>2 DEF Found

LEMMA CompleteKeepsSearchInv ==
  ASSUME SearchInv, Complete PROVE SearchInv'
<1>1. /\ call' = call /\ memo' = memo /\ ranked' = ranked /\ position' = position
      /\ collected' = collected /\ stage' = stage
  BY DEF Complete, closure
<1>2. PICK job \in pending : /\ pending' = pending \ {job}
                             /\ \E previews \in Found(job) : merged' = merged \o previews
  BY DEF Complete
<1>3. merged' \in Seq(Previews) /\ pending' \subseteq Jobs
  <2>1. job \in Jobs /\ merged \in Seq(Previews)
    BY DEF SearchInv
  <2>2. PICK previews \in Found(job) : merged' = merged \o previews
    BY <1>2
  <2>3. previews \in Seq(Previews)
    BY <2>1, FoundTyped
  <2> QED
    BY <1>2, <2>1, <2>2, <2>3, ConcatProperties DEF SearchInv
<1>4. WellRanked(ranked') /\ Drawn(collected)'
  BY <1>1 DEF SearchInv, Drawn
<1> QED
  BY <1>1, <1>3, <1>4 DEF SearchInv

LEMMA RankKeepsSearchInv ==
  ASSUME SearchInv, Rank PROVE SearchInv'
<1>1. /\ call' = call /\ memo' = memo /\ pending' = pending /\ position' = position
      /\ collected' = collected /\ merged' = <<>> /\ stage = "search"
      /\ ranked' \in DedupeAndRank(merged, Qualities(merged), TopK, PerDomainCap)
  BY DEF Rank, closure
<1>2. WellRanked(ranked')
  BY <1>1, RankingIsSound DEF SearchInv
<1>3. Drawn(collected)'
  <2>1. collected' = <<>>
    BY <1>1 DEF SearchInv
  <2> QED
    BY <2>1, NothingDrawn DEF Drawn
<1>4. merged' \in Seq(Previews)
  BY <1>1, NothingRanked
<1> QED
  BY <1>1, <1>2, <1>3, <1>4 DEF SearchInv

LEMMA LoopKeepsSearchInv ==
  ASSUME SearchInv, SkipDisallowed \/ Fetch \/ TakeSnippet PROVE SearchInv'
<1>1. /\ call' = call /\ memo' = memo /\ pending' = pending /\ merged' = merged
      /\ ranked' = ranked /\ position' = position + 1 /\ AtHit /\ stage' = stage
  BY DEF SkipDisallowed, Fetch, TakeSnippet, MoveOn, closure, search
<1>2. \E kind : collected' \in {collected, Append(collected, [hit |-> Hit, kind |-> kind])}
  <2>1. CASE SkipDisallowed
    BY <2>1 DEF SkipDisallowed, Collect
  <2>2. CASE Fetch
    BY <2>2 DEF Fetch, Collect
  <2>3. CASE TakeSnippet
    BY <2>3 DEF TakeSnippet, Collect
  <2> QED
    BY <2>1, <2>2, <2>3
<1>3. WellRanked(ranked)' /\ position' \in Nat \ {0} /\ Drawn(collected)'
  BY <1>1, <1>2, EntryDrawn
<1>4. stage' = "loop"
  BY <1>1 DEF AtHit
<1> QED
  BY <1>1, <1>3, <1>4 DEF SearchInv

LEMMA FinishKeepsSearchInv ==
  ASSUME SearchInv, Finish PROVE SearchInv'
<1>1. /\ call' = call /\ memo' = memo /\ pending' = pending /\ merged' = merged
      /\ ranked' = <<>> /\ position' = 1 /\ collected' = <<>> /\ stage' = "idle"
  BY DEF Finish
<1>2. WellRanked(ranked') /\ Drawn(collected)'
  BY <1>1, NothingRanked, NothingDrawn DEF Drawn
<1> QED
  BY <1>1, <1>2 DEF SearchInv

LEMMA SearchInvNext == SearchInv /\ [Next]_vars => SearchInv'
<1> SUFFICES ASSUME SearchInv, [Next]_vars PROVE SearchInv'
  OBVIOUS
<1>1. ASSUME UNCHANGED <<memo, search, position, collected>>, call' \in Nat,
             stage' = stage \/ (stage' # "loop" /\ stage # "loop")
      PROVE  SearchInv'
  <2>1. WellRanked(ranked') /\ Drawn(collected)'
    BY <1>1 DEF SearchInv, Drawn, search
  <2> QED
    BY <1>1, <2>1 DEF SearchInv, search
<1>2. CASE Begin \/ Leave
  <2>1. UNCHANGED <<memo, search, position, collected>> /\ call' \in Nat
    BY <1>2 DEF Begin, Leave, closure, SearchInv
  <2>2. stage = "idle" /\ stage' \in {"idle", "expand", "left"}
    BY <1>2 DEF Begin, Leave
  <2> QED
    BY <1>1, <2>1, <2>2
<1>3. CASE AskGate \/ LoadRobots \/ Clock \/ \E t \in Threads : Other(t)
  <2>1. UNCHANGED <<stage, closure, search, position, collected>>
    BY <1>3 DEF AskGate, LoadRobots, Clock, Other
  <2> QED
    BY <1>1, <2>1 DEF closure, SearchInv
<1>4. CASE UNCHANGED vars
  BY <1>1, <1>4 DEF vars, search, SearchInv
<1> QED
  BY <1>2, <1>3, <1>4, ExpandKeepsSearchInv, CompleteKeepsSearchInv, RankKeepsSearchInv,
     LoopKeepsSearchInv, FinishKeepsSearchInv DEF Next, Own

LEMMA SearchInvAlways == Spec => []SearchInv
BY SearchInvInit, SearchInvNext, PTL DEF Spec

\* What one call stores has no url twice and at most two sources of a domain
\* (dedupe.py:320-340, collector.py:194-203), whatever the engines returned, in
\* whatever order they answered.
THEOREM StoredIsDiverse == Spec => []EvidenceIsDiverse
<1>1. SearchInv => EvidenceIsDiverse
  <2> SUFFICES ASSUME SearchInv PROVE EvidenceIsDiverse
    OBVIOUS
  <2>1. Stored \subseteq DOMAIN collected /\ Drawn(collected) /\ WellRanked(ranked)
    BY DEF Stored, SearchInv
  <2>2. \A i, j \in Stored : collected[i].hit.url = collected[j].hit.url => i = j
    BY <2>1 DEF Drawn
  <2>3. ASSUME NEW i \in Stored
        PROVE  Cardinality({k \in Stored : collected[k].hit.domain
                                             = collected[i].hit.domain}) <= PerDomainCap
    <3> DEFINE d    == collected[i].hit.domain
               mine == {k \in Stored : collected[k].hit.domain = d}
               from == [k \in mine |-> CHOOSE p \in DOMAIN ranked : collected[k].hit = ranked[p]]
    <3>1. \A k \in mine : from[k] \in DOMAIN ranked /\ collected[k].hit = ranked[from[k]]
      <4> SUFFICES ASSUME NEW k \in mine
                   PROVE  \E p \in DOMAIN ranked : collected[k].hit = ranked[p]
        OBVIOUS
      <4> QED
        BY <2>1 DEF Drawn
    <3> HIDE DEF from
    <3>2. from \in [mine -> OfDomain(ranked, d)]
      <4>1. \A k \in mine : from[k] \in OfDomain(ranked, d)
        BY <3>1 DEF OfDomain
      <4> QED
        BY <4>1 DEF from
    <3>3. \A k, l \in mine : from[k] = from[l] => k = l
      BY <2>2, <3>1
    <3>4. from \in Injection(mine, OfDomain(ranked, d))
      BY <3>2, <3>3 DEF Injection, IsInjective
    <3>5. IsFiniteSet(OfDomain(ranked, d)) /\ Cardinality(OfDomain(ranked, d)) \in Nat
      <4>1. OfDomain(ranked, d) \subseteq 1 .. Len(ranked)
        BY <2>1 DEF OfDomain, WellRanked
      <4>2. IsFiniteSet(1 .. Len(ranked))
        BY <2>1, FS_Interval DEF WellRanked
      <4> QED
        BY <4>1, <4>2, FS_Subset, FS_CardinalityType
    <3>6. Cardinality(mine) <= Cardinality(OfDomain(ranked, d)) /\ Cardinality(mine) \in Nat
      BY <3>4, <3>5, FS_Injection, FS_CardinalityType
    <3>7. Cardinality(OfDomain(ranked, d)) <= PerDomainCap
      BY <2>1 DEF WellRanked
    <3> QED
      BY <3>5, <3>6, <3>7 DEF PerDomainCap
  <2> QED
    BY <2>2, <2>3 DEF EvidenceIsDiverse
<1> QED
  BY <1>1, SearchInvAlways, PTL

\* A look-alike with as much to say about the query is never a candidate before
\* the genuine domain that it imitates (dedupe.py:258-297), however the answers of
\* the engines are interleaved.
THEOREM ImitationsComeLater == Spec => []LookAlikeBehind
<1>1. SearchInv => LookAlikeBehind
  BY DEF SearchInv, WellRanked, InFront, LookAlikeBehind
<1> QED
  BY <1>1, SearchInvAlways, PTL

----------------------------------------------------------------------------
(***************************************************************************)
(* The robots gate.  A denial that was parsed is in _CACHE for good unless *)
(* a fetch that was under way then put something else in its place, so a   *)
(* call that begins after it ends in it; and a denying domain has a parser *)
(* that allows only after it was answered with an error status.            *)
(***************************************************************************)
IsCall(c) == c = [stage |-> c.stage, domain |-> c.domain, known |-> c.known,
                  parser |-> c.parser]

\* What holds of a call, for the domains that are emptied and overwritten.
CallSound(c, emptied, overwritten) ==
  /\ IsCall(c)
  /\ c.stage # "idle" => c.domain \in Domains
  /\ c.stage = "parsed" => /\ c.parser \in {"allow", "deny"}
                           /\ c.parser = "allow" /\ c.domain \in Denying => c.domain \in emptied
  /\ c.known => c.stage = "deny" \/ (c.stage = "allow" /\ c.domain \in overwritten)

CallInv(c) == CallSound(c, Emptied, Overwritten)

GateInv ==
  /\ gate = [t \in Threads |-> gate[t]]
  /\ \A t \in Threads : CallInv(gate[t])
  /\ parsed \in [Domains -> Answers]
  /\ failedAt = [d \in Domains |-> failedAt[d]]
  /\ now \in Nat
  /\ \A d \in Denying : parsed[d] = "allow" => d \in Emptied
  /\ Denied \subseteq Domains
  /\ \A d \in Denied : parsed[d] = "deny" \/ (parsed[d] = "allow" /\ d \in Overwritten)
  /\ \A r \in trespass : r.from # r.to \/ r.from \in Overwritten

\* The history only grows, and what is true of it stays true.
LEMMA HistoryGrows ==
  ASSUME loaded \subseteq loaded'
  PROVE  Emptied \subseteq Emptied' /\ Overwritten \subseteq Overwritten'
BY DEF Emptied, Overwritten

LEMMA GateInvInitially == Init => GateInv
<1> SUFFICES ASSUME Init PROVE GateInv
  OBVIOUS
<1>1. \A t \in Threads : gate[t] = NoCall
  BY DEF Init, GateInit
<1>2. CallInv(NoCall)
  BY DEF CallInv, CallSound, IsCall, NoCall
<1>3. Denied = {}
  BY DEF Denied, Init, GateInit
<1> QED BY <1>1, <1>2, <1>3, GateConstants DEF Init, GateInit, GateInv, Answers

LEMMA AdvanceBecomes ==
  ASSUME GateInv, NEW t \in Threads, NEW s, Advance(t, s)
  PROVE  Become(t, s, gate[t].parser)
<1>1. gate' = [gate EXCEPT ![t] = [gate[t] EXCEPT !.stage = s]]
  BY DEF Advance
<1>2. [gate[t] EXCEPT !.stage = s] = [stage |-> s, domain |-> gate[t].domain,
                                     known |-> gate[t].known, parser |-> gate[t].parser]
  BY DEF GateInv, CallInv, CallSound, IsCall
<1> QED BY <1>1, <1>2 DEF Become

\* What each step of _load_parser makes of the call.
LEMMA LoadBecomes ==
  ASSUME GateInv, NEW t \in Threads, Load(t)
  PROVE  \/ /\ CheckMark(t) /\ gate[t].stage = "miss"
            /\ \E s \in {"fetch", "allow", "expired"} : Become(t, s, gate[t].parser)
         \/ /\ DropMark(t) /\ gate[t].stage = "expired"
            /\ Become(t, "fetch", gate[t].parser)
         \/ /\ FetchRaises(t) /\ gate[t].stage = "fetch"
            /\ Become(t, "allow", gate[t].parser)
         \/ /\ FetchAnswers(t) /\ gate[t].stage = "fetch"
            /\ \E answer \in Served(gate[t].domain) : Become(t, "parsed", answer)
         \/ /\ Forget(t) /\ gate[t].stage = "parsed"
            /\ Become(t, gate[t].parser, "none")
<1>1. ASSUME NEW s, Advance(t, s) PROVE Become(t, s, gate[t].parser)
  BY <1>1, AdvanceBecomes
<1>4. CASE CheckMark(t)
  <2>1. Advance(t, "fetch") \/ Advance(t, "allow") \/ Advance(t, "expired")
    BY <1>4 DEF CheckMark
  <2> QED BY <1>1, <1>4, <2>1 DEF CheckMark
<1>5. CASE DropMark(t)
  BY <1>1, <1>5 DEF DropMark
<1>6. CASE FetchRaises(t)
  BY <1>1, <1>6 DEF FetchRaises
<1>7. CASE FetchAnswers(t)
  <2>1. PICK answer \in Served(gate[t].domain) :
          Become(t, "parsed", answer)
    BY <1>7 DEF FetchAnswers
  <2> QED BY <1>7, <2>1 DEF FetchAnswers
<1>8. CASE Forget(t)
  BY <1>8 DEF Forget
<1> QED BY <1>4, <1>5, <1>6, <1>7, <1>8 DEF Load

\* A step that changes the call of one thread only, to one that is sound.
LEMMA CallChanges ==
  ASSUME GateInv, loaded \subseteq loaded', NEW t \in Threads, NEW c,
         gate' = [gate EXCEPT ![t] = c], CallSound(c, Emptied', Overwritten')
  PROVE  gate' = [u \in Threads |-> gate'[u]] /\ (\A u \in Threads : CallInv(gate[u]))'
<1>1. gate' = [u \in Threads |-> IF u = t THEN c ELSE gate[u]]
  BY DEF GateInv
<1>2. ASSUME NEW u \in Threads PROVE CallInv(gate[u])'
  <2>1. CASE u = t
    BY <1>1, <2>1 DEF CallInv
  <2>2. CASE u # t
    <3>1. gate'[u] = gate[u] /\ CallInv(gate[u])
      BY <1>1, <2>2 DEF GateInv
    <3> QED BY <3>1, HistoryGrows DEF CallInv, CallSound, IsCall
  <2> QED BY <2>1, <2>2
<1> QED BY <1>1, <1>2

\* One step of the gate on behalf of any thread.
LEMMA GateStep ==
  ASSUME GateInv, NEW t \in Threads,
         \/ \E d \in Domains : Call(t, d)
         \/ Load(t)
         \/ Return(t) /\ UNCHANGED shared,
         UNCHANGED trespass
  PROVE  GateInv'
<1> USE GateConstants
<1>1. ASSUME NEW c, gate' = [gate EXCEPT ![t] = c], CallSound(c, Emptied', Overwritten'),
             UNCHANGED <<parsed, loaded>>,
             failedAt' = [d \in Domains |-> failedAt'[d]], now' \in Nat
      PROVE  GateInv'
  <2>1. gate' = [u \in Threads |-> gate'[u]] /\ (\A u \in Threads : CallInv(gate[u]))'
    BY <1>1, CallChanges
  <2>2. UNCHANGED <<Denied, Emptied, Overwritten>>
    BY <1>1 DEF Denied, Emptied, Overwritten
  <2> QED BY <1>1, <2>1, <2>2 DEF GateInv
<1>2. CASE \E d \in Domains : Call(t, d)
  <2>1. PICK d \in Domains : Call(t, d)
    BY <1>2
  <2> DEFINE c == [stage |-> IF parsed[d] = "none" THEN "miss" ELSE parsed[d],
                   domain |-> d, known |-> d \in Denied, parser |-> "none"]
  <2>2. gate' = [gate EXCEPT ![t] = c] /\ UNCHANGED <<parsed, failedAt, loaded, now>>
    BY <2>1 DEF Call, shared
  <2>3. d \in Denied => c.stage = "deny" \/ (c.stage = "allow" /\ d \in Overwritten)
    BY DEF GateInv
  <2>4. c.stage # "parsed"
    BY DEF GateInv, Answers
  <2>5. UNCHANGED <<Emptied, Overwritten>>
    BY <2>2 DEF Emptied, Overwritten
  <2>6. CallSound(c, Emptied', Overwritten')
    BY <2>3, <2>4, <2>5 DEF CallSound, IsCall
  <2> QED BY <1>1, <2>2, <2>6 DEF GateInv
<1>3. CASE Load(t)
  <2> DEFINE d == gate[t].domain
  <2>1. CallInv(gate[t])
    BY DEF GateInv
  <2>2. ASSUME NEW s, NEW p, Become(t, s, p), ~ gate[t].known, d \in Domains,
               s \in {"fetch", "allow", "expired", "deny"}, UNCHANGED <<parsed, loaded>>,
               failedAt' = [e \in Domains |-> failedAt'[e]], now' \in Nat
        PROVE  GateInv'
    <3> DEFINE c == [stage |-> s, domain |-> d, known |-> gate[t].known, parser |-> p]
    <3>1. CallSound(c, Emptied', Overwritten')
      BY <2>2 DEF CallSound, IsCall
    <3> QED BY <1>1, <2>2, <3>1 DEF Become
  <2>3. gate[t].stage \in {"miss", "expired", "fetch", "parsed"} => ~ gate[t].known /\ d \in Domains
    BY <2>1 DEF CallInv, CallSound
  <2>4. ASSUME CheckMark(t) \/ DropMark(t) \/ FetchRaises(t) \/ Forget(t)
        PROVE  /\ UNCHANGED <<parsed, loaded>> /\ now' \in Nat
               /\ failedAt' = [e \in Domains |-> failedAt'[e]]
    BY <2>4 DEF CheckMark, DropMark, FetchRaises, Forget, shared, GateInv
  <2>5. CASE FetchAnswers(t) /\ gate[t].stage = "fetch"
    <3>1. PICK answer \in Served(d) :
            /\ parsed' = [parsed EXCEPT ![d] = answer]
            /\ loaded' = loaded \cup {[domain |-> d, answer |-> answer,
                                       overDenial |-> parsed[d] = "deny",
                                       known |-> gate[t].known]}
            /\ Become(t, "parsed", answer)
      BY <2>5 DEF FetchAnswers
    <3> DEFINE load == [domain |-> d, answer |-> answer, overDenial |-> parsed[d] = "deny",
                        known |-> gate[t].known]
               c == [stage |-> "parsed", domain |-> d, known |-> gate[t].known, parser |-> answer]
    <3>2. ~ gate[t].known /\ d \in Domains
      BY <2>3, <2>5
    <3>3. gate' = [gate EXCEPT ![t] = c]
      BY <3>1 DEF Become
    <3>4. load.domain = d /\ load.answer = answer /\ (load.overDenial <=> parsed[d] = "deny")
          /\ ~ load.known /\ load \in loaded' /\ loaded \subseteq loaded'
      BY <3>1, <3>2
    <3>5. answer \in {"deny", "allow"}
      BY DEF Served
    <3>6. answer = "allow" /\ d \in Denying => d \in Emptied'
      BY <3>4 DEF Emptied
    <3>7. answer = "allow" /\ d \in Denied => d \in Overwritten'
      <4>1. CASE parsed[d] = "deny" /\ answer = "allow"
        BY <3>4, <4>1 DEF Overwritten
      <4>2. CASE d \in Overwritten
        BY <3>4, <4>2, HistoryGrows
      <4> QED BY <4>1, <4>2 DEF GateInv
    <3>8. Denied' \subseteq Denied \cup {d} /\ (answer = "allow" => Denied' \subseteq Denied)
      <4>1. ASSUME NEW e \in Denied' PROVE e \in Denied \/ (e = d /\ answer = "deny")
        <5>1. PICK l \in loaded' : l.answer = "deny" /\ l.domain = e
          BY DEF Denied
        <5>2. l \in loaded \/ l = load
          BY <3>1
        <5> QED BY <3>4, <5>1, <5>2 DEF Denied
      <4> QED BY <4>1, <3>5
    <3>9. CallSound(c, Emptied', Overwritten')
      BY <3>2, <3>5, <3>6 DEF CallSound, IsCall
    <3>10. gate' = [u \in Threads |-> gate'[u]] /\ (\A u \in Threads : CallInv(gate[u]))'
      BY <3>3, <3>4, <3>9, CallChanges
    <3>11. parsed' = [e \in Domains |-> IF e = d THEN answer ELSE parsed[e]]
      BY <3>1, <3>2 DEF GateInv
    <3>12. \A e \in Denying : parsed'[e] = "allow" => e \in Emptied'
      BY <3>4, <3>6, <3>11, HistoryGrows DEF GateInv
    <3>13. \A e \in Denied' : /\ e \in Domains
                              /\ \/ parsed'[e] = "deny"
                                 \/ parsed'[e] = "allow" /\ e \in Overwritten'
      <4> SUFFICES ASSUME NEW e \in Denied'
                   PROVE  e \in Domains /\ (\/ parsed'[e] = "deny"
                                            \/ parsed'[e] = "allow" /\ e \in Overwritten')
        OBVIOUS
      <4>1. e \in Domains
        BY <3>2, <3>8 DEF GateInv
      <4>2. CASE e = d
        BY <3>5, <3>7, <3>8, <3>11, <4>1, <4>2
      <4>3. CASE e # d
        BY <3>4, <3>8, <3>11, <4>1, <4>3, HistoryGrows DEF GateInv
      <4> QED BY <4>1, <4>2, <4>3
    <3>14. \A r \in trespass' : r.from # r.to \/ r.from \in Overwritten'
      BY <3>4, HistoryGrows DEF GateInv
    <3>15. UNCHANGED <<failedAt, now>>
      BY <2>5 DEF FetchAnswers
    <3>16. parsed' \in [Domains -> Answers]
      BY <3>5, <3>11 DEF GateInv, Answers
    <3> QED BY <3>10, <3>12, <3>13, <3>14, <3>15, <3>16 DEF GateInv
  <2>6. CASE CheckMark(t) /\ gate[t].stage = "miss"
             /\ \E s \in {"fetch", "allow", "expired"} : Become(t, s, gate[t].parser)
    BY <2>2, <2>3, <2>4, <2>6
  <2>7. CASE DropMark(t) /\ gate[t].stage = "expired" /\ Become(t, "fetch", gate[t].parser)
    BY <2>2, <2>3, <2>4, <2>7
  <2>8. CASE FetchRaises(t) /\ gate[t].stage = "fetch" /\ Become(t, "allow", gate[t].parser)
    BY <2>2, <2>3, <2>4, <2>8
  <2>9. CASE Forget(t) /\ gate[t].stage = "parsed" /\ Become(t, gate[t].parser, "none")
    <3>1. gate[t].parser \in {"allow", "deny"}
      BY <2>1, <2>9 DEF CallInv, CallSound
    <3> QED BY <2>2, <2>3, <2>4, <2>9, <3>1
  <2> QED BY <1>3, <2>5, <2>6, <2>7, <2>8, <2>9, LoadBecomes
<1>4. CASE Return(t) /\ UNCHANGED shared
  <2>1. gate' = [gate EXCEPT ![t] = NoCall] /\ UNCHANGED <<parsed, failedAt, loaded, now>>
    BY <1>4 DEF Return, shared
  <2>2. CallSound(NoCall, Emptied', Overwritten')
    BY DEF CallSound, IsCall, NoCall
  <2> QED BY <1>1, <2>1, <2>2 DEF GateInv
<1> QED BY <1>2, <1>3, <1>4

LEMMA FetchKeepsGateInv ==
  ASSUME GateInv, Fetch
  PROVE  GateInv'
<1> USE GateConstants, CollectionConstants
<1>1. gate[Self].known => gate[Self].domain \in Overwritten
  BY DEF Fetch, GateInv, CallInv, CallSound
<1>2. \A r \in Trespasses : r.from # r.to \/ r.from \in Overwritten
  BY <1>1 DEF Trespasses
<1>3. /\ gate' = [gate EXCEPT ![Self] = NoCall]
      /\ UNCHANGED <<parsed, failedAt, loaded, now>>
  BY DEF Fetch, Return, shared
<1>4. UNCHANGED <<Denied, Emptied, Overwritten>>
  BY <1>3 DEF Denied, Emptied, Overwritten
<1>5. \A r \in trespass' : r.from # r.to \/ r.from \in Overwritten'
  <2>1. trespass' = trespass \cup Trespasses
    BY DEF Fetch
  <2> QED BY <1>2, <1>4, <2>1 DEF GateInv
<1>6. gate' = [t \in Threads |-> gate'[t]] /\ (\A t \in Threads : CallInv(gate[t]))'
  <2>1. CallSound(NoCall, Emptied', Overwritten')
    BY DEF CallSound, IsCall, NoCall
  <2> QED BY <1>3, <2>1, CallChanges
<1> QED BY <1>3, <1>4, <1>5, <1>6 DEF GateInv

LEMMA NextKeepsGateInv == SearchInv /\ GateInv /\ [Next]_vars => GateInv'
<1> SUFFICES ASSUME SearchInv, GateInv, [Next]_vars PROVE GateInv'
  OBVIOUS
<1> USE CollectionConstants
<1>1. CASE Fetch
  BY <1>1, FetchKeepsGateInv
<1>2. CASE AskGate
  <2>1. Hit.site \in Domains
    <3>1. Hit \in Previews
      BY <1>2 DEF AskGate, AtHit, Hit, SearchInv, WellRanked
    <3> QED BY <3>1, SearchAssumption
  <2> QED BY <1>2, <2>1, GateStep DEF AskGate, history
<1>3. CASE LoadRobots \/ SkipDisallowed
  BY <1>3, GateStep DEF LoadRobots, SkipDisallowed, history
<1>4. ASSUME UNCHANGED <<parsed, failedAt, loaded, gate, trespass>>, now' \in Nat PROVE GateInv'
  <2>1. UNCHANGED <<Denied, Emptied, Overwritten>>
    BY <1>4 DEF Denied, Emptied, Overwritten
  <2> QED BY <1>4, <2>1 DEF GateInv, CallInv
<1>5. CASE Begin \/ Expand \/ Complete \/ Rank \/ TakeSnippet \/ Finish \/ Leave
  <2>1. UNCHANGED <<parsed, failedAt, loaded, now, gate, trespass>>
    BY <1>5 DEF Begin, Expand, Complete, Rank, TakeSnippet, Finish, Leave, history, gateVars
  <2>2. now' \in Nat
    BY <2>1 DEF GateInv
  <2> QED BY <1>4, <2>1, <2>2
<1>6. CASE \E t \in Threads : Other(t)
  <2>1. PICK t \in Threads : Other(t)
    BY <1>6
  <2>2. UNCHANGED trespass
    BY <2>1 DEF Other, history
  <2>3. (\E d \in Domains : Call(t, d)) \/ Load(t) \/ (Return(t) /\ UNCHANGED shared)
    BY <2>1 DEF Other
  <2> QED BY <2>2, <2>3, GateStep
<1>7. CASE Clock
  <2>1. UNCHANGED <<parsed, failedAt, loaded, gate, trespass>> /\ now' = now + 1
    BY <1>7 DEF Clock, Tick, history
  <2>2. now' \in Nat
    BY <2>1 DEF GateInv
  <2> QED BY <1>4, <2>1, <2>2
<1>8. CASE UNCHANGED vars
  <2>1. UNCHANGED <<parsed, failedAt, loaded, now, gate, trespass>>
    BY <1>8 DEF vars
  <2>2. now' \in Nat
    BY <2>1 DEF GateInv
  <2> QED BY <1>4, <2>1, <2>2
<1> QED BY <1>1, <1>2, <1>3, <1>5, <1>6, <1>7, <1>8 DEF Next, Own

LEMMA GateInvAlways == Spec => []GateInv
BY SearchInvAlways, GateInvInitially, NextKeepsGateInv, PTL DEF Spec

\* A page is fetched against a denial that was parsed before only as the end of a
\* redirect (collector/fetch.py), or when a fetch of robots.txt that was already
\* under way has put an empty one in its place (robots.py:73-75 over
\* agents/collector.py:75), for any number of threads that share the gate.
THEOREM DenialIsLostOnlyInRace == Spec => []DenialLostOnlyInRace
<1>1. GateInv => DenialLostOnlyInRace
  BY DEF GateInv, DenialLostOnlyInRace
<1> QED BY <1>1, GateInvAlways, PTL

\* The verdict that thread t reaches in one step of the gate.
LEMMA VerdictIsBrief ==
  ASSUME GateInv, NEW t \in Threads, NEW u \in Threads,
         \/ \E d \in Domains : Call(t, d)
         \/ Load(t)
         \/ Return(t),
         gate[u].stage # "allow", gate'[u].stage = "allow",
         gate'[u].domain \in Denying \ Emptied
  PROVE  now - failedAt'[gate'[u].domain] < TTL
<1> USE GateConstants
<1>1. ASSUME NEW c, gate' = [gate EXCEPT ![t] = c]
      PROVE  u = t /\ gate'[u] = c
  <2>1. gate' = [v \in Threads |-> IF v = t THEN c ELSE gate[v]]
    BY <1>1 DEF GateInv
  <2> QED BY <2>1
<1>2. CASE \E e \in Domains : Call(t, e)
  <2>1. PICK e \in Domains : Call(t, e)
    BY <1>2
  <2>2. gate'[u] = [stage |-> IF parsed[e] = "none" THEN "miss" ELSE parsed[e],
                    domain |-> e, known |-> e \in Denied, parser |-> "none"]
    BY <1>1, <2>1 DEF Call
  <2> QED BY <2>2 DEF GateInv
<1>3. CASE Load(t)
  <2> DEFINE d == gate[t].domain
  <2>1. ASSUME NEW s, NEW p, Become(t, s, p)
        PROVE  u = t /\ s = "allow" /\ gate'[u].domain = d /\ d \in Denying \ Emptied
    <3>1. u = t /\ gate'[u] = [stage |-> s, domain |-> d, known |-> gate[t].known, parser |-> p]
      BY <1>1, <2>1 DEF Become
    <3> QED BY <3>1
  <2>2. CASE CheckMark(t)
    <3>1. PICK s : /\ Advance(t, s)
                   /\ s = CASE failedAt[d] = Never     -> "fetch"
                            [] now - failedAt[d] < TTL -> "allow"
                            [] OTHER                   -> "expired"
      BY <2>2 DEF CheckMark
    <3>2. Become(t, s, gate[t].parser)
      BY <3>1, AdvanceBecomes
    <3>3. s = "allow" /\ gate'[u].domain = d /\ UNCHANGED failedAt
      BY <2>1, <2>2, <3>2 DEF CheckMark, shared
    <3>4. now - failedAt[d] < TTL
      BY <3>1, <3>3
    <3> QED BY <3>3, <3>4
  <2>3. CASE FetchRaises(t)
    <3>1. Become(t, "allow", gate[t].parser)
      BY <2>3, AdvanceBecomes DEF FetchRaises
    <3>2. d \in Domains /\ gate'[u].domain = d
      BY <2>1, <3>1
    <3>3. failedAt'[d] = now
      BY <2>3, <3>2 DEF FetchRaises, GateInv
    <3> QED BY <3>2, <3>3 DEF GateInv
  <2>4. CASE Forget(t) /\ Become(t, gate[t].parser, "none") /\ gate[t].stage = "parsed"
    <3>1. gate[t].parser = "allow" /\ d \in Denying \ Emptied
      BY <2>1, <2>4
    <3>2. CallInv(gate[t])
      BY DEF GateInv
    <3> QED BY <2>4, <3>1, <3>2 DEF CallInv, CallSound
  <2>5. CASE DropMark(t) /\ Become(t, "fetch", gate[t].parser)
    BY <2>1, <2>5
  <2>6. CASE \E answer : Become(t, "parsed", answer)
    BY <2>1, <2>6
  <2>7. CASE FetchAnswers(t) /\ \E answer \in Served(d) : Become(t, "parsed", answer)
    BY <2>6, <2>7
  <2>8. \/ CheckMark(t) \/ FetchRaises(t)
        \/ DropMark(t) /\ Become(t, "fetch", gate[t].parser)
        \/ FetchAnswers(t) /\ \E answer \in Served(d) : Become(t, "parsed", answer)
        \/ Forget(t) /\ Become(t, gate[t].parser, "none") /\ gate[t].stage = "parsed"
    BY <1>3, LoadBecomes
  <2> QED BY <2>2, <2>3, <2>4, <2>5, <2>7, <2>8
<1>4. CASE Return(t)
  <2>1. gate'[u] = NoCall
    BY <1>1, <1>4 DEF Return
  <2>2. NoCall.stage # "allow"
    BY DEF NoCall
  <2> QED BY <2>1, <2>2
<1> QED BY <1>2, <1>3, <1>4

\* A failure to load robots.txt lets pages of a denying domain through for less
\* than _FAILURE_TTL_SECONDS (collector/robots.py), however the threads that share
\* the two dictionaries interleave, unless its host has answered with an error
\* status: what was parsed then allows for good (FailOpenIsBrief is violated).
THEOREM OutageEnds == Spec => OutageIsBrief
<1> DEFINE Brief ==
      \A t \in Threads :
        /\ gate[t].stage # "allow" /\ gate'[t].stage = "allow"
        /\ gate'[t].domain \in Denying \ Emptied
        => now - failedAt'[gate'[t].domain] < TTL
<1>1. SearchInv /\ GateInv /\ [Next]_vars => [Brief]_vars
  <2> SUFFICES ASSUME SearchInv, GateInv, [Next]_vars PROVE Brief
    OBVIOUS
  <2> USE CollectionConstants
  <2>1. CASE AskGate
    <3>1. Hit \in Previews
      BY <2>1 DEF AskGate, AtHit, Hit, SearchInv, WellRanked
    <3>2. Hit.site \in Domains
      BY <3>1, SearchAssumption
    <3> QED BY <2>1, <3>2, VerdictIsBrief DEF AskGate
  <2>2. CASE LoadRobots \/ SkipDisallowed \/ Fetch
    <3>1. Load(Self) \/ Return(Self)
      BY <2>2 DEF LoadRobots, SkipDisallowed, Fetch
    <3> QED BY <3>1, VerdictIsBrief
  <2>3. CASE \E t \in Threads : Other(t)
    <3>1. PICK t \in Threads : Other(t)
      BY <2>3
    <3>2. (\E d \in Domains : Call(t, d)) \/ Load(t) \/ Return(t)
      BY <3>1 DEF Other
    <3> QED BY <3>2, VerdictIsBrief
  <2>4. CASE Begin \/ Expand \/ Complete \/ Rank \/ TakeSnippet \/ Finish \/ Leave \/ Clock
             \/ UNCHANGED vars
    <3>1. UNCHANGED gate
      BY <2>4 DEF Begin, Expand, Complete, Rank, TakeSnippet, Finish, Leave, Clock, Tick, vars,
                  gateVars
    <3> QED BY <3>1
  <2> QED BY <2>1, <2>2, <2>3, <2>4 DEF Next, Own
<1> QED BY <1>1, SearchInvAlways, GateInvAlways, PTL DEF Spec, OutageIsBrief

----------------------------------------------------------------------------
(***************************************************************************)
(* Why the node ends.  NodeFinishes is liveness and stays with TLC, but    *)
(* that the run has only so many steps is safety: each of its own steps    *)
(* lowers Measure in the lexicographic order, and no step of another       *)
(* thread or of the clock raises it.                                       *)
(***************************************************************************)
StageToGo == CASE stage = "expand" -> 4 [] stage = "search" -> 3 [] stage = "loop" -> 2
               [] stage = "idle"   -> 1 [] OTHER -> 0

\* The futures to come, or the candidates.
Ahead == CASE stage = "search" -> Cardinality(pending)
           [] stage = "loop"   -> Len(ranked) + 1 - position
           [] OTHER            -> 0

\* Within one call of the gate.
GateToGo == [s \in {"idle", "miss", "expired", "fetch", "parsed", "allow", "deny"} |->
               CASE s = "idle"  -> 5 [] s = "miss"   -> 4 [] s = "expired" -> 3
                 [] s = "fetch" -> 2 [] s = "parsed" -> 1 [] OTHER -> 0]

Measure == <<Tasks * Rounds - call, StageToGo, Ahead, GateToGo[gate[Self].stage]>>

Lower(m, n) == \E k \in 1 .. 4 : m[k] < n[k] /\ \A j \in 1 .. k - 1 : m[j] = n[j]

StepsInv ==
  /\ stage \in {"idle", "expand", "search", "loop", "left"} /\ call <= Tasks * Rounds
  /\ \A t \in 0 .. (Tasks - 1) : IsFiniteSet(memo[t])
  /\ IsFiniteSet(pending)
  /\ position <= Len(ranked) + 1 /\ (stage # "loop" => position = 1)
  /\ \A d \in Domains : parsed[d] \in Answers
  /\ gate[Self].stage \in DOMAIN GateToGo

VariantInv == SearchInv /\ GateInv /\ StepsInv

LEMMA GateToGoOf ==
  /\ DOMAIN GateToGo = {"idle", "miss", "expired", "fetch", "parsed", "allow", "deny"}
  /\ \A s \in DOMAIN GateToGo : GateToGo[s] \in Nat
  /\ GateToGo["idle"] = 5 /\ GateToGo["miss"] = 4 /\ GateToGo["expired"] = 3
  /\ GateToGo["fetch"] = 2 /\ GateToGo["parsed"] = 1
  /\ GateToGo["allow"] = 0 /\ GateToGo["deny"] = 0
BY DEF GateToGo

LEMMA MeasureTyped ==
  ASSUME VariantInv
  PROVE  /\ Tasks * Rounds - call \in Nat /\ StageToGo \in Nat /\ Ahead \in Nat
         /\ GateToGo[gate[Self].stage] \in Nat
<1>1. Tasks * Rounds \in Nat /\ call \in Nat /\ call <= Tasks * Rounds
  BY CollectionConstants DEF VariantInv, StepsInv, SearchInv
<1>2. Tasks * Rounds - call \in Nat
  <2> DEFINE n == Tasks * Rounds
  <2>1. n \in Nat /\ call \in Nat /\ call <= n
    BY <1>1
  <2> HIDE DEF n
  <2>2. n - call \in Nat
    BY <2>1
  <2> QED
    BY <2>2 DEF n
<1>3. Ahead \in Nat
  <2>1. Cardinality(pending) \in Nat
    BY FS_CardinalityType DEF VariantInv, StepsInv
  <2>2. Len(ranked) + 1 - position \in Nat
    <3>1. Len(ranked) \in Nat /\ position \in Nat /\ position <= Len(ranked) + 1
      BY DEF VariantInv, StepsInv, SearchInv, WellRanked
    <3> QED
      BY <3>1
  <2> QED
    BY <2>1, <2>2 DEF Ahead
<1> QED
  BY <1>2, <1>3, GateToGoOf DEF StageToGo, VariantInv, StepsInv

\* One step of the gate: the caller's call comes nearer to its verdict, and every
\* parser answers.
LEMMA GateComesNearer ==
  ASSUME GateInv, StepsInv, NEW t \in Threads,
         \/ \E d \in Domains : Call(t, d)
         \/ Load(t)
         \/ Return(t) /\ UNCHANGED shared
  PROVE  /\ \A d \in Domains : parsed'[d] \in Answers
         /\ t # Self => gate'[Self] = gate[Self]
         /\ gate'[Self].stage \in DOMAIN GateToGo
         /\ t = Self /\ ((\E d \in Domains : Call(t, d)) \/ Load(t))
              => GateToGo[gate'[Self].stage] < GateToGo[gate[Self].stage]
<1> USE CollectionConstants
<1>1. CASE \E d \in Domains : Call(t, d)
  <2>1. PICK d \in Domains : Call(t, d)
    BY <1>1
  <2>2. parsed' = parsed /\ gate[t].stage = "idle"
    BY <2>1 DEF Call, shared
  <2>3. /\ gate' = [gate EXCEPT ![t] = gate'[t]]
        /\ gate'[t].stage \in {"miss", "allow", "deny"}
    BY <2>1 DEF Call, GateInv, StepsInv, Answers
  <2>4. t # Self => gate'[Self] = gate[Self]
    BY <2>3 DEF GateInv
  <2> QED
    BY <2>2, <2>3, <2>4, GateToGoOf DEF StepsInv
<1>2. CASE Load(t)
  <2>1. ASSUME NEW s, NEW p, Become(t, s, p)
        PROVE  gate'[t].stage = s /\ (t # Self => gate'[Self] = gate[Self])
    <3>1. gate' = [u \in Threads |-> IF u = t THEN [stage |-> s, domain |-> gate[t].domain,
                                                    known |-> gate[t].known, parser |-> p]
                                     ELSE gate[u]]
      BY <2>1 DEF Become, GateInv
    <3> QED
      BY <3>1
  <2>2. \A d \in Domains : parsed'[d] \in Answers
    BY <1>2 DEF Load, CheckMark, FetchRaises, DropMark, FetchAnswers, Forget, Served, GateInv,
                StepsInv, Answers, shared
  <2>3. gate[t].stage = "parsed" => gate[t].parser \in {"allow", "deny"}
    BY DEF GateInv, CallInv, CallSound
  <2>4. /\ t # Self => gate'[Self] = gate[Self]
        /\ \/ gate[t].stage = "miss" /\ gate'[t].stage \in {"fetch", "allow", "expired"}
           \/ gate[t].stage = "expired" /\ gate'[t].stage = "fetch"
           \/ gate[t].stage = "fetch" /\ gate'[t].stage \in {"allow", "parsed"}
           \/ gate[t].stage = "parsed" /\ gate'[t].stage \in {"allow", "deny"}
    BY <1>2, <2>1, <2>3, LoadBecomes
  <2> QED
    BY <2>2, <2>4, GateToGoOf DEF StepsInv
<1>3. CASE Return(t) /\ UNCHANGED shared /\ ~ (\E d \in Domains : Call(t, d)) /\ ~ Load(t)
  <2>1. gate' = [gate EXCEPT ![t] = NoCall] /\ parsed' = parsed
    BY <1>3 DEF Return, shared
  <2>2. t # Self => gate'[Self] = gate[Self]
    BY <2>1 DEF GateInv
  <2>3. gate'[t].stage = "idle"
    BY <2>1 DEF GateInv, NoCall
  <2> QED
    BY <1>3, <2>1, <2>2, <2>3, GateToGoOf DEF StepsInv
<1> QED
  BY <1>1, <1>2, <1>3

LEMMA VariantInvInitially == Init => VariantInv
<1> SUFFICES ASSUME Init PROVE VariantInv
  OBVIOUS
<1>1. SearchInv /\ GateInv
  BY SearchInvInit, GateInvInitially
<1>2. Tasks * Rounds \in Nat /\ call = 0
  BY CollectionConstants DEF Init
<1>3. call <= Tasks * Rounds
  <2> DEFINE n == Tasks * Rounds
  <2>1. n \in Nat /\ call = 0
    BY <1>2
  <2> HIDE DEF n
  <2>2. call <= n
    BY <2>1
  <2> QED
    BY <2>2 DEF n
<1>4. gate[Self].stage = "idle"
  BY CollectionConstants DEF Init, GateInit, NoCall
<1>5. IsFiniteSet({}) /\ Len(<<>>) = 0
  BY FS_EmptySet
<1> QED
  BY <1>1, <1>3, <1>4, <1>5, GateToGoOf DEF Init, GateInit, Answers, StepsInv, VariantInv

\* Which component a step of the run lowers.
LEMMA LowerAt ==
  ASSUME NEW m, NEW n,
         \/ m[1] < n[1]
         \/ m[1] = n[1] /\ m[2] < n[2]
         \/ m[1] = n[1] /\ m[2] = n[2] /\ m[3] < n[3]
         \/ m[1] = n[1] /\ m[2] = n[2] /\ m[3] = n[3] /\ m[4] < n[4]
  PROVE  Lower(m, n)
<1>1. CASE m[1] < n[1]
  BY <1>1 DEF Lower
<1>2. CASE m[1] = n[1] /\ m[2] < n[2]
  BY <1>2 DEF Lower
<1>3. CASE m[1] = n[1] /\ m[2] = n[2] /\ m[3] < n[3]
  <2>1. \A j \in 1 .. 2 : j = 1 \/ j = 2
    OBVIOUS
  <2>2. \A j \in 1 .. 3 - 1 : m[j] = n[j]
    BY <1>3, <2>1
  <2> QED
    BY <1>3, <2>2 DEF Lower
<1>4. CASE m[1] = n[1] /\ m[2] = n[2] /\ m[3] = n[3] /\ m[4] < n[4]
  <2>1. \A j \in 1 .. 3 : j = 1 \/ j = 2 \/ j = 3
    OBVIOUS
  <2>2. \A j \in 1 .. 4 - 1 : m[j] = n[j]
    BY <1>4, <2>1
  <2> QED
    BY <1>4, <2>2 DEF Lower
<1> QED
  BY <1>1, <1>2, <1>3, <1>4

Elsewhere == Clock \/ \E t \in Threads : Other(t)

\* Others do not touch the run, nor its call of the gate.
LEMMA ElsewhereKeepsSteps ==
  ASSUME VariantInv, Elsewhere
  PROVE  StepsInv' /\ Measure' = Measure
<1>1. UNCHANGED <<stage, call, memo, pending, ranked, position>>
  BY DEF Elsewhere, Clock, Other, closure, search
<1>2. /\ gate'[Self] = gate[Self]
      /\ \A d \in Domains : parsed'[d] \in Answers
  <2>1. CASE Clock
    BY <2>1 DEF Clock, Tick, VariantInv, StepsInv
  <2>2. CASE \E t \in Threads : Other(t)
    <3>1. PICK t \in Threads : Other(t)
      BY <2>2
    <3>2. t # Self /\ ((\E d \in Domains : Call(t, d)) \/ Load(t)
                       \/ (Return(t) /\ UNCHANGED shared))
      BY <3>1 DEF Other
    <3> QED
      BY <3>2, GateComesNearer DEF VariantInv
  <2> QED
    BY <2>1, <2>2 DEF Elsewhere
<1> QED
  BY <1>1, <1>2 DEF VariantInv, StepsInv, Measure, StageToGo, Ahead

\* At the gate, on behalf of the run.
LEMMA GateLowers ==
  ASSUME VariantInv, AskGate \/ LoadRobots
  PROVE  StepsInv' /\ Lower(Measure', Measure)
<1>1. UNCHANGED <<stage, call, memo, pending, ranked, position>>
  BY DEF AskGate, LoadRobots, closure, search
<1>2. (\E d \in Domains : Call(Self, d)) \/ Load(Self)
  <2>1. CASE AskGate
    <3>1. Hit \in Previews
      BY <2>1 DEF AskGate, AtHit, Hit, VariantInv, SearchInv, WellRanked
    <3>2. Hit.site \in Domains
      BY <3>1, SearchAssumption
    <3> QED
      BY <2>1, <3>2 DEF AskGate
  <2> QED
    BY <2>1 DEF LoadRobots
<1>3. /\ \A d \in Domains : parsed'[d] \in Answers
      /\ gate'[Self].stage \in DOMAIN GateToGo
      /\ GateToGo[gate'[Self].stage] < GateToGo[gate[Self].stage]
  BY <1>2, GateComesNearer, CollectionConstants DEF VariantInv
<1>4. StepsInv'
  BY <1>1, <1>3 DEF VariantInv, StepsInv, GateToGo
<1>5. /\ Measure'[1] = Measure[1] /\ Measure'[2] = Measure[2] /\ Measure'[3] = Measure[3]
      /\ Measure'[4] < Measure[4]
  BY <1>1, <1>3 DEF Measure, StageToGo, Ahead, GateToGo
<1> QED
  BY <1>4, <1>5, LowerAt

\* Through the candidates.
LEMMA LoopLowers ==
  ASSUME VariantInv, SkipDisallowed \/ Fetch \/ TakeSnippet
  PROVE  StepsInv' /\ Lower(Measure', Measure)
<1>1. /\ UNCHANGED <<stage, call, memo, pending, ranked>> /\ stage = "loop"
      /\ position' = position + 1 /\ position <= Len(ranked)
  BY DEF SkipDisallowed, Fetch, TakeSnippet, MoveOn, AtHit, closure, search
<1>2. Len(ranked) \in Nat /\ position \in Nat
  BY DEF VariantInv, SearchInv, WellRanked
<1>3. /\ \A d \in Domains : parsed'[d] \in Answers
      /\ gate'[Self].stage \in DOMAIN GateToGo
  <2>1. CASE TakeSnippet
    BY <2>1 DEF TakeSnippet, gateVars, VariantInv, StepsInv
  <2>2. CASE SkipDisallowed \/ Fetch
    <3>1. Return(Self) /\ UNCHANGED shared
      BY <2>2 DEF SkipDisallowed, Fetch
    <3> QED
      BY <3>1, GateComesNearer, CollectionConstants DEF VariantInv
  <2> QED
    BY <2>1, <2>2
<1>4. position' <= Len(ranked') + 1 /\ Len(ranked') + 1 - position' < Len(ranked) + 1 - position
  BY <1>1, <1>2
<1>5. StepsInv'
  BY <1>1, <1>3, <1>4 DEF VariantInv, StepsInv, GateToGo
<1>6. Measure'[1] = Measure[1] /\ Measure'[2] = Measure[2] /\ Measure'[3] < Measure[3]
  BY <1>1, <1>4 DEF Measure, StageToGo, Ahead
<1> QED
  BY <1>5, <1>6, LowerAt

\* From one stage to the next.
LEMMA StagesLower ==
  ASSUME VariantInv, Begin \/ Expand \/ Rank \/ Finish \/ Leave, IsFiniteSet(Engines)
  PROVE  StepsInv' /\ Lower(Measure', Measure)
<1>1. UNCHANGED <<parsed, gate>>
  BY DEF Begin, Expand, Rank, Finish, Leave, gateVars
<1>2. /\ \A d \in Domains : parsed'[d] \in Answers
      /\ gate'[Self].stage \in DOMAIN GateToGo
  BY <1>1 DEF VariantInv, StepsInv
<1> DEFINE calls == Tasks * Rounds
<1>3. calls \in Nat /\ call \in Nat
  BY CollectionConstants DEF VariantInv, SearchInv
<1>4. CASE Begin
  <2>1. /\ call < calls /\ call' = call + 1 /\ stage' \in {"idle", "expand"} /\ stage = "idle"
        /\ UNCHANGED <<memo, pending, ranked, position>>
    BY <1>4 DEF Begin, search
  <2> HIDE DEF calls
  <2>2. call' <= calls /\ calls - call' < calls - call
    BY <1>3, <2>1
  <2>3. StepsInv'
    BY <1>2, <2>1, <2>2 DEF VariantInv, StepsInv, GateToGo, calls
  <2>4. Measure'[1] < Measure[1]
    BY <2>2 DEF Measure, calls
  <2> QED
    BY <2>3, <2>4, LowerAt
<1> HIDE DEF calls
<1>5. ASSUME call' = call, StageToGo' < StageToGo PROVE Lower(Measure', Measure)
  <2>1. Measure'[1] = Measure[1] /\ Measure'[2] < Measure[2]
    BY <1>5 DEF Measure
  <2> QED
    BY <2>1, LowerAt
<1>6. CASE Expand
  <2>1. /\ UNCHANGED <<call, ranked, position>> /\ stage = "expand" /\ stage' = "search"
    BY <1>6 DEF Expand, Submit
  <2>2. Task \in 0 .. (Tasks - 1)
    BY CollectionConstants DEF VariantInv, SearchInv, Task
  <2>3. /\ IsFiniteSet(pending')
        /\ \A t \in 0 .. (Tasks - 1) : IsFiniteSet(memo'[t])
    <3>1. ASSUME NEW queries, IsFiniteSet(queries), Submit(queries) PROVE IsFiniteSet(pending')
      <4>1. IsFiniteSet(queries \X Engines)
        BY <3>1, FS_Product
      <4> QED
        BY <3>1, <4>1 DEF Submit
    <3>2. IsFiniteSet({Base})
      BY FS_Singleton
    <3>3. CASE memo[Task] # {} /\ Submit(memo[Task]) /\ UNCHANGED memo
      BY <2>2, <3>1, <3>3 DEF VariantInv, StepsInv
    <3>4. ASSUME NEW queries \in Expansions, Submit(queries),
                 memo' = [memo EXCEPT ![Task] = queries]
          PROVE  /\ IsFiniteSet(pending')
                 /\ \A t \in 0 .. (Tasks - 1) : IsFiniteSet(memo'[t])
      <4>1. IsFiniteSet(queries)
        BY <3>2, <3>4 DEF Expansions
      <4>2. \A t \in 0 .. (Tasks - 1) : memo'[t] = IF t = Task THEN queries ELSE memo[t]
        BY <2>2, <3>4 DEF VariantInv, SearchInv
      <4> QED
        BY <3>1, <3>4, <4>1, <4>2 DEF VariantInv, StepsInv
    <3>5. CASE Submit({Base}) /\ UNCHANGED memo
      BY <3>1, <3>2, <3>5 DEF VariantInv, StepsInv
    <3> QED
      BY <1>6, <3>3, <3>4, <3>5 DEF Expand
  <2> QED
    BY <1>2, <1>5, <2>1, <2>3 DEF VariantInv, StepsInv, GateToGo, StageToGo
<1>7. CASE Rank
  <2>1. /\ UNCHANGED <<call, memo, pending, position>> /\ stage = "search" /\ stage' = "loop"
    BY <1>7 DEF Rank, closure
  <2>2. Len(ranked') \in Nat
    BY <1>7, RankKeepsSearchInv DEF VariantInv, SearchInv, WellRanked
  <2>3. position' = 1 /\ position' <= Len(ranked') + 1
    BY <2>1, <2>2 DEF VariantInv, StepsInv
  <2> QED
    BY <1>2, <1>5, <2>1, <2>3 DEF VariantInv, StepsInv, GateToGo, StageToGo
<1>8. CASE Finish
  <2>1. /\ UNCHANGED <<call, memo, pending>> /\ stage = "loop" /\ stage' = "idle"
        /\ ranked' = <<>> /\ position' = 1
    BY <1>8 DEF Finish
  <2>2. position' <= Len(ranked') + 1
    BY <2>1
  <2> QED
    BY <1>2, <1>5, <2>1, <2>2 DEF VariantInv, StepsInv, GateToGo, StageToGo
<1>9. CASE Leave
  <2>1. /\ UNCHANGED <<call, memo, pending, ranked, position>> /\ stage = "idle"
        /\ stage' = "left"
    BY <1>9 DEF Leave, closure, search
  <2> QED
    BY <1>2, <1>5, <2>1 DEF VariantInv, StepsInv, GateToGo, StageToGo
<1> QED
  BY <1>4, <1>6, <1>7, <1>8, <1>9

LEMMA CompleteLowers ==
  ASSUME VariantInv, Complete
  PROVE  StepsInv' /\ Lower(Measure', Measure)
<1>1. /\ UNCHANGED <<stage, call, memo, ranked, position, parsed, gate>> /\ stage = "search"
  BY DEF Complete, closure, gateVars
<1>2. PICK job \in pending : pending' = pending \ {job}
  BY DEF Complete
<1>3. /\ IsFiniteSet(pending') /\ Cardinality(pending) \in Nat
      /\ Cardinality(pending') = Cardinality(pending) - 1
  BY <1>2, FS_RemoveElement, FS_CardinalityType DEF VariantInv, StepsInv
<1>4. StepsInv'
  BY <1>1, <1>3 DEF VariantInv, StepsInv, GateToGo
<1>5. Measure'[1] = Measure[1] /\ Measure'[2] = Measure[2] /\ Measure'[3] < Measure[3]
  BY <1>1, <1>3 DEF Measure, StageToGo, Ahead
<1> QED
  BY <1>4, <1>5, LowerAt

LEMMA OwnLowers ==
  ASSUME VariantInv, Own
  PROVE  StepsInv' /\ Lower(Measure', Measure)
<1>1. IsFiniteSet(Engines)
  BY SearchAssumption, FS_Subset DEF Engines
<1> QED
  BY <1>1, GateLowers, LoopLowers, StagesLower, CompleteLowers DEF Own

LEMMA VariantInvAlways == Spec => []VariantInv
<1>1. VariantInv /\ [Next]_vars => VariantInv'
  <2> SUFFICES ASSUME VariantInv, [Next]_vars PROVE VariantInv'
    OBVIOUS
  <2>1. SearchInv' /\ GateInv'
    BY SearchInvNext, NextKeepsGateInv DEF VariantInv
  <2>2. StepsInv'
    <3>1. CASE Own
      BY <3>1, OwnLowers
    <3>2. CASE Elsewhere
      BY <3>2, ElsewhereKeepsSteps
    <3>3. CASE UNCHANGED vars
      BY <3>3 DEF vars, search, closure, VariantInv, StepsInv, GateToGo
    <3> QED
      BY <3>1, <3>2, <3>3 DEF Next, Elsewhere
  <2> QED
    BY <2>1, <2>2 DEF VariantInv
<1> QED
  BY <1>1, VariantInvInitially, PTL DEF Spec

\* The steps of a run's collection run out (agents/collector.py, search.py,
\* robots.py), whatever the engines return and whatever other threads do at the
\* gate: its own steps lower a measure of four numbers, and nobody raises it.
THEOREM OwnStepsRunOut ==
  Spec => /\ [](\A k \in 1 .. 4 : Measure[k] \in Nat)
          /\ [][/\ Own => Lower(Measure', Measure)
                /\ Elsewhere => Measure' = Measure]_vars
<1>1. VariantInv => \A k \in 1 .. 4 : Measure[k] \in Nat
  <2> SUFFICES ASSUME VariantInv, NEW k \in 1 .. 4 PROVE Measure[k] \in Nat
    OBVIOUS
  <2>1. k = 1 \/ k = 2 \/ k = 3 \/ k = 4
    OBVIOUS
  <2> QED
    BY <2>1, MeasureTyped DEF Measure
<1>2. VariantInv => /\ Own => Lower(Measure', Measure)
                    /\ Elsewhere => Measure' = Measure
  BY OwnLowers, ElsewhereKeepsSteps
<1> QED
  BY <1>1, <1>2, VariantInvAlways, PTL

=============================================================================
