------------------------ MODULE RevisionLoopProofs ------------------------
(***************************************************************************)
(* Theorems about RevisionLoop for every intake, cap, budget and ceiling.  *)
(***************************************************************************)
EXTENDS RevisionLoop, FiniteSetTheorems, SequenceTheorems,
        WellFoundedInduction, TLAPS

----------------------------------------------------------------------------
\* A set of naturals that is not empty has a least element.
LEMMA LeastNatural ==
  ASSUME NEW S \in SUBSET Nat, S # {}
  PROVE  \E i \in S : \A j \in S : i <= j
<1>1. \E i \in S : \A j \in S : ~ (<<j, i>> \in OpToRel(<, Nat))
  BY NatLessThanWellFounded, WFMin
<1>2. \A i, j \in Nat : j < i => <<j, i>> \in OpToRel(<, Nat)
  BY DEF OpToRel
<1>3. PICK i \in S : \A j \in S : ~ (<<j, i>> \in OpToRel(<, Nat))
  BY <1>1
<1>4. ASSUME NEW j \in S PROVE i <= j
  <2>1. i \in Nat /\ j \in Nat
    OBVIOUS
  <2>2. ~ (j < i)
    BY <1>2, <1>3, <2>1
  <2> QED
    BY <2>1, <2>2
<1> QED
  BY <1>4

\* There are finitely many tasks, and no set of tasks outnumbers them.
LEMMA TasksFinite ==
  /\ IsFiniteSet(Tasks) /\ Cardinality(Tasks) \in Nat
  /\ \A S \in SUBSET Tasks : /\ IsFiniteSet(S) /\ Cardinality(S) \in Nat
                             /\ Cardinality(S) <= Cardinality(Tasks)
<1>1. IsFiniteSet(Tasks)
  BY FiniteIntake, FS_Product DEF Tasks
<1> QED
  BY <1>1, FS_Subset, FS_CardinalityType

\* Claims are about tasks.
LEMMA ClaimedAreTasks ==
  ASSUME order \in Seq(Tasks)
  PROVE  Claimed \subseteq Tasks /\ Flagged \subseteq Tasks
BY ElementOfSeq, LenProperties DEF Claimed, Flagged

\* FirstWith names a claim that fails one of the checks, if there is one.
LEMMA FirstWithNamesAClaim ==
  ASSUME order \in Seq(Tasks), NEW C
  PROVE  FirstWith(C) \in Claimed \cup {NoClaim}
<1> DEFINE hit == {i \in DOMAIN order : issues[order[i]] \cap C # {}}
<1>1. CASE hit = {}
  BY <1>1 DEF FirstWith
<1>2. CASE hit # {}
  <2>1. hit \in SUBSET Nat
    BY LenProperties
  <2>2. PICK i \in hit : \A j \in hit : i <= j
    BY <1>2, <2>1, LeastNatural
  <2>3. (CHOOSE k \in hit : \A j \in hit : k <= j) \in hit
    BY <2>2
  <2> QED
    BY <1>2, <2>3 DEF FirstWith, Claimed
<1> QED
  BY <1>1, <1>2

\* What QA writes into the state has the type the state needs.
LEMMA QaTypes ==
  ASSUME order \in Seq(Tasks)
  PROVE  /\ FirstIssueClaim \in Tasks \cup {NoClaim}
         /\ Verdict \in {"pass", "reject"}
         /\ Assignee \in {"none", "analyst", "collector"}
<1>1. FirstIssueClaim \in Tasks \cup {NoClaim}
  BY FirstWithNamesAClaim, ClaimedAreTasks DEF FirstIssueClaim
<1>2. Verdict \in {"pass", "reject"}
  BY DEF Verdict
<1>3. Assignee \in {"none", "analyst", "collector"}
  BY DEF Assignee
<1> QED
  BY <1>1, <1>2, <1>3

----------------------------------------------------------------------------
\* RunState and the tables keep their types whatever the agents return.
THEOREM TypeCorrect == Spec => []TypeOK
<1>1. Init => TypeOK
  BY NaturalLimits, EmptySeq DEF Init, TypeOK, Nodes
<1>2. TypeOK /\ [Next]_vars => TypeOK'
  <2> SUFFICES ASSUME TypeOK, [Next]_vars PROVE TypeOK'
    OBVIOUS
  <2> USE NaturalLimits DEF TypeOK, Nodes, Stopped, Run
  <2>1. CASE Intake
    BY <2>1 DEF Intake, evidence, reports, result
  <2>2. CASE Plan
    BY <2>2 DEF Plan, routing, evidence, reports, result
  <2>3. CASE Collect
    BY <2>3 DEF Collect, reports, result
  <2>4. CASE Analyze
    <3>1. PICK drafted \in SUBSET sourced :
            /\ Enrol(drafted \ Claimed)
            /\ \E found \in [drafted -> SUBSET Codes] :
                 issues' = [t \in Tasks |-> IF t \in drafted THEN found[t]
                                            ELSE issues[t]]
      BY <2>4 DEF Analyze
    <3>2. order' \in Seq(Tasks)
      <4> DEFINE new == drafted \ Claimed
      <4>1. new \subseteq Tasks /\ Cardinality(new) \in Nat
        BY TasksFinite
      <4>2. PICK s \in [1..Cardinality(new) -> new] : order' = order \o s
        BY <3>1 DEF Enrol
      <4>3. s \in Seq(Tasks)
        <5> DEFINE n == Cardinality(new)
        <5>1. n \in Nat /\ s \in [1..n -> Tasks]
          BY <4>1
        <5> HIDE DEF n
        <5> QED
          BY <5>1, SeqDef
      <4> QED
        BY <4>2, <4>3, ConcatProperties
    <3>3. issues' \in [Tasks -> SUBSET Codes]
      BY <3>1
    <3>4. budgetCalls' \in Nat
      BY <2>4, TasksFinite DEF Analyze
    <3> QED
      BY <2>4, <3>2, <3>3, <3>4 DEF Analyze, reports, result
  <2>5. CASE Qa
    <3>1. lastFlagged' \subseteq Tasks
      BY <2>5, ClaimedAreTasks DEF Qa, FlaggedInLastRound
    <3>2. budgetOk' \in BOOLEAN
      BY <2>5 DEF Qa
    <3> QED
      BY <2>5, <3>1, <3>2, QaTypes DEF Qa, evidence, result
  <2>6. CASE Route
    BY <2>6 DEF Route, evidence, reports, result
  <2>7. CASE Revise
    BY <2>7 DEF Revise, evidence, result
  <2>8. CASE Write
    <3>1. published' \subseteq Tasks
      BY <2>8, ClaimedAreTasks DEF Write, Passed
    <3> QED
      BY <2>8, <3>1 DEF Write, routing, evidence, reports
  <2>9. CASE Synthesis
    BY <2>9 DEF Synthesis, routing, evidence, reports, result
  <2>10. CASE NodeRaises
    <3>1. published' \subseteq Tasks
      BY <2>10, ClaimedAreTasks DEF NodeRaises, Passed
    <3> QED
      BY <2>10, <3>1 DEF NodeRaises, routing, evidence, reports
  <2>11. CASE Overrun
    BY <2>11 DEF Overrun, routing, evidence, reports, result
  <2>12. CASE UNCHANGED vars
    BY <2>12 DEF vars, routing, evidence, reports, result
  <2> QED
    BY <2>1, <2>2, <2>3, <2>4, <2>5, <2>6, <2>7, <2>8, <2>9, <2>10, <2>11,
       <2>12 DEF Next
<1> QED
  BY <1>1, <1>2, PTL DEF Spec
----------------------------------------------------------------------------
\* Super-steps a run has taken at most when it first reaches a node.
BaseSteps == [n \in Nodes \cup {"end"} |->
                CASE n = "intake"    -> 0
                  [] n = "plan"      -> 1
                  [] n = "collect"   -> 2
                  [] n = "analyze"   -> 3
                  [] n = "qa"        -> 4
                  [] n = "route"     -> 5
                  [] n \in {"revise", "write"} -> 6
                  [] n = "synthesis" -> 7
                  [] n = "end"       -> 8]

\* Each round adds at most five super-steps, and only cap rounds are begun.
StepBound ==
  /\ round <= cap
  /\ node = "intake" => round = 0
  /\ node = "revise" => round < cap
  /\ node \in Nodes \cup {"end"} => steps <= BaseSteps[node] + 5 * round
  /\ CeilingHasRoom => node # "overrun"

\* What each node inherits of the call budget.  Only route looks at it, so a
\* round is begun below the maximum and adds at most one pass over the tasks.
Ceiling == IF BudgetMax = 0 THEN 1 ELSE BudgetMax
BudgetBound ==
  /\ node \in {"intake", "plan"} => budgetCalls = 0
  /\ node = "revise" => budgetCalls < BudgetMax
  /\ node = "collect" => budgetCalls < Ceiling
  /\ node = "analyze" => budgetCalls <= Ceiling
  /\ budgetCalls <= Ceiling + Cardinality(Tasks)

\* The step bound is inductive: it needs only the types.
LEMMA StepBoundInductive ==
  TypeOK /\ StepBound /\ [Next]_vars => StepBound'
<1> SUFFICES ASSUME TypeOK, StepBound, [Next]_vars PROVE StepBound'
  OBVIOUS
<1> USE NaturalLimits DEF TypeOK, StepBound, CeilingHasRoom, WorstCase, Run
<1>1. BaseSteps["intake"] = 0 /\ BaseSteps["plan"] = 1 /\ BaseSteps["collect"] = 2
      /\ BaseSteps["analyze"] = 3 /\ BaseSteps["qa"] = 4 /\ BaseSteps["route"] = 5
      /\ BaseSteps["revise"] = 6 /\ BaseSteps["write"] = 6
      /\ BaseSteps["synthesis"] = 7 /\ BaseSteps["end"] = 8
  BY DEF BaseSteps, Nodes
<1>2. CASE Intake
  BY <1>1, <1>2 DEF Intake, Nodes
<1>3. CASE Plan
  BY <1>1, <1>3 DEF Plan, Nodes, routing
<1>4. CASE Collect
  BY <1>1, <1>4 DEF Collect, Nodes
<1>5. CASE Analyze
  BY <1>1, <1>5 DEF Analyze, Nodes
<1>6. CASE Qa
  BY <1>1, <1>6 DEF Qa, Nodes
<1>7. CASE Route
  BY <1>1, <1>7 DEF Route, MayRevise, Nodes
<1>8. CASE Revise
  BY <1>1, <1>8 DEF Revise, Nodes
<1>9. CASE Write
  BY <1>1, <1>9 DEF Write, Nodes, routing
<1>10. CASE Synthesis
  BY <1>1, <1>10 DEF Synthesis, Nodes, routing
<1>11. CASE NodeRaises
  BY <1>11 DEF NodeRaises, Nodes, routing
<1>12. CASE Overrun
  <2>1. steps <= 7 + 5 * cap
    BY <1>1, <1>12 DEF Overrun, Nodes
  <2>2. ~ CeilingHasRoom
    BY <2>1, <1>12 DEF Overrun
  <2> QED
    BY <2>2, <1>12 DEF Overrun, Nodes, routing
<1>13. CASE UNCHANGED vars
  BY <1>13 DEF vars, routing
<1> QED
  BY <1>2, <1>3, <1>4, <1>5, <1>6, <1>7, <1>8, <1>9, <1>10, <1>11, <1>12,
     <1>13 DEF Next

\* graph.py:509-514 for every cap and ceiling: where the ceiling has room for
\* 8 + 5 * cap super-steps, the recursion limit never ends a run.
THEOREM BackstopIsUnreached == Spec => []BackstopUnreached
<1>1. Init => StepBound
  BY NaturalLimits DEF Init, StepBound, BaseSteps, Nodes
<1>2. StepBound => BackstopUnreached
  BY DEF StepBound, BackstopUnreached
<1> QED
  BY <1>1, <1>2, StepBoundInductive, TypeCorrect, PTL DEF Spec

\* The budget bound is inductive: analyze is the only node that spends more
\* than one call, and it spends one per task that has sources.
LEMMA BudgetBoundInductive ==
  TypeOK /\ BudgetBound /\ [Next]_vars => BudgetBound'
<1> SUFFICES ASSUME TypeOK, BudgetBound, [Next]_vars PROVE BudgetBound'
  OBVIOUS
<1>1. Cardinality(sourced) \in Nat /\ Cardinality(sourced) <= Cardinality(Tasks)
      /\ Cardinality(Tasks) \in Nat
  BY TasksFinite DEF TypeOK
<1> DEFINE T == Cardinality(Tasks)
           c == Cardinality(sourced)
<1>2. T \in Nat /\ c \in Nat /\ c <= T
  BY <1>1
<1>3. Ceiling \in Nat /\ BudgetMax <= Ceiling /\ 1 <= Ceiling /\ BudgetMax \in Nat
  BY NaturalLimits DEF Ceiling
<1>4. budgetCalls \in Nat
  BY DEF TypeOK
<1>5. /\ node \in {"intake", "plan"} => budgetCalls = 0
      /\ node = "revise" => budgetCalls < BudgetMax
      /\ node = "collect" => budgetCalls < Ceiling
      /\ node = "analyze" => budgetCalls <= Ceiling
      /\ budgetCalls <= Ceiling + T
  BY DEF BudgetBound
<1>6. SUFFICES /\ node' \in {"intake", "plan"} => budgetCalls' = 0
               /\ node' = "revise" => budgetCalls' < BudgetMax
               /\ node' = "collect" => budgetCalls' < Ceiling
               /\ node' = "analyze" => budgetCalls' <= Ceiling
               /\ budgetCalls' <= Ceiling + T
  BY DEF BudgetBound, Ceiling
<1> HIDE DEF T, c
<1>7. CASE Intake
  BY <1>2, <1>3, <1>7 DEF Intake, Run
<1>8. CASE Plan
  BY <1>2, <1>3, <1>5, <1>8 DEF Plan, Run, routing
<1>9. CASE Collect
  BY <1>2, <1>3, <1>4, <1>5, <1>9 DEF Collect, Run
<1>10. CASE Analyze
  <2>1. budgetCalls' = budgetCalls + c
    BY <1>10 DEF Analyze, c
  <2> QED
    BY <2>1, <1>2, <1>3, <1>4, <1>5, <1>10 DEF Analyze, Run
<1>11. CASE Qa
  BY <1>5, <1>11 DEF Qa, Run
<1>12. CASE Route
  BY <1>5, <1>12 DEF Route, MayRevise, Run
<1>13. CASE Revise
  BY <1>3, <1>4, <1>5, <1>13 DEF Revise, Run
<1>14. CASE Write
  BY <1>5, <1>14 DEF Write, Run, routing
<1>15. CASE Synthesis
  BY <1>5, <1>15 DEF Synthesis, Run, routing
<1>16. CASE NodeRaises
  BY <1>5, <1>16 DEF NodeRaises, routing
<1>17. CASE Overrun
  BY <1>5, <1>17 DEF Overrun, routing
<1>18. CASE UNCHANGED vars
  BY <1>5, <1>18 DEF vars, routing
<1> QED
  BY <1>7, <1>8, <1>9, <1>10, <1>11, <1>12, <1>13, <1>14, <1>15, <1>16,
     <1>17, <1>18 DEF Next

\* No run begins more than cap rounds, and the budget that only route checks is
\* overshot by at most one call per task.
THEOREM SpendIsBounded == Spec => []SpendBound
<1>1. Init => StepBound /\ BudgetBound
  BY NaturalLimits, TasksFinite
     DEF Init, StepBound, BaseSteps, Nodes, BudgetBound, Ceiling
<1>2. StepBound /\ BudgetBound => SpendBound
  BY DEF StepBound, BudgetBound, SpendBound, Ceiling
<1> QED
  BY <1>1, <1>2, StepBoundInductive, BudgetBoundInductive, TypeCorrect, PTL
     DEF Spec
----------------------------------------------------------------------------
\* What QA found is still true of the rows when they are published: between qa
\* and the terminal event nothing touches the rows or the reports, and a
\* rejected run reaches write only when its rounds or its budget are used up.
VerdictStands ==
  /\ node \in {"route", "write"} =>
       /\ lastFlagged = Flagged
       /\ verdict = "pass" => Flagged = {} /\ Covers(Claimed)
  /\ node = "write" =>
       verdict = "pass" \/ round >= cap \/ budgetCalls >= BudgetMax
  /\ node \notin {"synthesis"} \cup Stopped => outcome = "none"
  /\ outcome # "none" => published = Claimed \ Flagged
  /\ outcome = "complete" => Covers(published)
  /\ outcome = "partial" =>
       verdict = "reject" /\ (round >= cap \/ budgetCalls >= BudgetMax)

\* A step that leaves the rows alone leaves what QA says of them.
LEMMA RowsUnchanged ==
  ASSUME UNCHANGED evidence
  PROVE  Claimed' = Claimed /\ Flagged' = Flagged
BY DEF evidence, Claimed, Flagged

\* VerdictStands is inductive: qa establishes its first part, route the second,
\* write uses both.
LEMMA VerdictStandsInductive ==
  TypeOK /\ VerdictStands /\ [Next]_vars => VerdictStands'
<1> SUFFICES ASSUME TypeOK, VerdictStands, [Next]_vars PROVE VerdictStands'
  OBVIOUS
<1> USE DEF VerdictStands, Stopped, Run
<1>1. CASE Intake \/ Plan \/ Collect
  BY <1>1 DEF Intake, Plan, Collect, result
<1>2. CASE Analyze
  BY <1>2 DEF Analyze, result
<1>3. CASE Qa
  <2>1. Claimed' = Claimed /\ Flagged' = Flagged
    BY <1>3, RowsUnchanged DEF Qa
  <2>2. lastFlagged' = Flagged
    BY <1>3 DEF Qa, FlaggedInLastRound
  <2>3. verdict' = "pass" => Flagged = {} /\ Covers(Claimed)
    BY <1>3 DEF Qa, Verdict
  <2>4. Covers(Claimed') <=> Covers(Claimed)
    BY <2>1
  <2> QED
    BY <1>3, <2>1, <2>2, <2>3, <2>4 DEF Qa, result, Covers, CoversFraction
<1>4. CASE Route
  <2>1. Claimed' = Claimed /\ Flagged' = Flagged
    BY <1>4, RowsUnchanged DEF Route
  <2>2. node' = "write" => verdict = "pass" \/ round >= cap \/ budgetCalls >= BudgetMax
    <3>1. node' = "write" => ~ MayRevise(budgetOk')
      BY <1>4 DEF Route
    <3>2. (~ budgetOk') <=> budgetCalls >= BudgetMax
      <4>1. budgetOk' = (budgetCalls < BudgetMax)
        BY <1>4 DEF Route
      <4>2. (~ (budgetCalls < BudgetMax)) <=> budgetCalls >= BudgetMax
        BY NaturalLimits DEF TypeOK
      <4> QED
        BY <4>1, <4>2, Zenon
    <3>3. verdict # "reject" <=> verdict = "pass"
      BY DEF TypeOK
    <3>4. (~ (round < cap)) <=> round >= cap
      BY NaturalLimits DEF TypeOK
    <3> QED
      BY <3>1, <3>2, <3>3, <3>4, Zenon DEF MayRevise
  <2> QED
    BY <1>4, <2>1, <2>2 DEF Route, reports, result, Covers, CoversFraction
<1>5. CASE Revise
  BY <1>5 DEF Revise, result
<1>6. CASE Write
  <2>1. Claimed' = Claimed /\ Flagged' = Flagged
    BY <1>6, RowsUnchanged DEF Write
  <2>2. published' = Claimed \ Flagged
    BY <1>6 DEF Write, Passed
  <2>3. outcome' = "complete" => verdict = "pass"
    BY <1>6 DEF Write
  <2>4. outcome' = "complete" => Covers(published')
    <3>1. verdict = "pass" => published' = Claimed /\ Covers(Claimed)
      BY <1>6 DEF Write, Passed
    <3> QED
      BY <2>3, <3>1
  <2>5. outcome' = "partial" =>
          verdict' = "reject" /\ (round' >= cap' \/ budgetCalls' >= BudgetMax)
    BY <1>6 DEF Write, routing, TypeOK
  <2>6. node' = "synthesis" /\ outcome' # "none"
    BY <1>6 DEF Write
  <2>7. Covers(published)' <=> Covers(published')
    BY DEF Covers, CoversFraction
  <2> QED
    BY <2>1, <2>2, <2>4, <2>5, <2>6, <2>7
<1>7. CASE Synthesis
  <2>1. Claimed' = Claimed /\ Flagged' = Flagged
    BY <1>7, RowsUnchanged DEF Synthesis
  <2> QED
    BY <1>7, <2>1 DEF Synthesis, routing, result, Covers, CoversFraction
<1>8. CASE NodeRaises
  <2>1. Claimed' = Claimed /\ Flagged' = Flagged
    BY <1>8, RowsUnchanged DEF NodeRaises
  <2>2. node = "write" => outcome = "none"
    OBVIOUS
  <2>3. outcome # "none" => published' = published
    BY <1>8, <2>2 DEF NodeRaises
  <2> QED
    BY <1>8, <2>1, <2>3 DEF NodeRaises, routing, Covers, CoversFraction
<1>9. CASE Overrun
  <2>1. Claimed' = Claimed /\ Flagged' = Flagged
    BY <1>9, RowsUnchanged DEF Overrun
  <2> QED
    BY <1>9, <2>1 DEF Overrun, routing, result, Covers, CoversFraction
<1>10. CASE UNCHANGED vars
  <2>1. Claimed' = Claimed /\ Flagged' = Flagged
    BY <1>10, RowsUnchanged DEF vars, evidence
  <2> QED
    BY <1>10, <2>1 DEF vars, routing, reports, result, Covers, CoversFraction
<1> QED
  BY <1>1, <1>2, <1>3, <1>4, <1>5, <1>6, <1>7, <1>8, <1>9, <1>10 DEF Next

\* Before anything has run there is nothing to say of the verdict.
LEMMA VerdictStandsInitially == Init => VerdictStands
BY DEF Init, VerdictStands, Stopped

\* The report is the clean claims, all of them and no other, however many
\* rounds the claims went through.
THEOREM ReportIsClean == Spec => []PublishedExactlyClean
<1>1. VerdictStands => PublishedExactlyClean
  BY DEF VerdictStands, PublishedExactlyClean
<1> QED
  BY <1>1, VerdictStandsInitially, VerdictStandsInductive, TypeCorrect, PTL DEF Spec

\* A partial report means that nothing more was allowed to be tried.
THEOREM PartialOnlyWhenSpent == Spec => []GivesUpOnlyWhenSpent
<1>1. VerdictStands => GivesUpOnlyWhenSpent
  BY DEF VerdictStands, GivesUpOnlyWhenSpent
<1> QED
  BY <1>1, VerdictStandsInitially, VerdictStandsInductive, TypeCorrect, PTL DEF Spec

----------------------------------------------------------------------------
\* The safety part of ImplementsContract: the loop starts as a run of the
\* contract does, and each of its steps is a step of the contract or none.
THEOREM LoopImplementsContract ==
  Spec => Contract!Init /\ [][Contract!Next]_(Contract!vars)
<1>1. Init => Contract!Init
  BY DEF Init, Contract!Init
<1>2. TypeOK /\ TypeOK' /\ VerdictStands /\ VerdictStands' /\ [Next]_vars
        => [Contract!Next]_(Contract!vars)
  <2> SUFFICES ASSUME TypeOK, TypeOK', VerdictStands, VerdictStands', [Next]_vars
               PROVE  [Contract!Next]_(Contract!vars)
    OBVIOUS
  <2> USE DEF Run, VerdictStands, Stopped, Contract!vars
  <2>1. CASE Intake \/ Plan \/ Collect \/ Analyze \/ Qa \/ Route \/ Revise
    BY <2>1 DEF Intake, Plan, Collect, Analyze, Qa, Route, Revise, result
  <2>2. CASE Write
    <3>1. outcome = "none" /\ node = "write" /\ outcome' \in {"complete", "partial"}
      BY <2>2 DEF Write
    <3>2. published' \in SUBSET Tasks
      BY DEF TypeOK
    <3>3. outcome' = "complete" => Covers(published')
      BY DEF Covers, CoversFraction
    <3>4. Contract!Settle
      BY <3>1, <3>2, <3>3 DEF Contract!Settle
    <3> QED
      BY <3>4 DEF Contract!Next
  <2>3. CASE Synthesis
    BY <2>3 DEF Synthesis, result
  <2>4. CASE NodeRaises
    <3>1. CASE outcome = "none"
      <4>1. published' \in SUBSET Tasks
        BY DEF TypeOK
      <4>2. Contract!Abort
        BY <2>4, <3>1, <4>1 DEF NodeRaises, Nodes, Contract!Abort
      <4> QED
        BY <4>2 DEF Contract!Next
    <3>2. CASE outcome # "none"
      BY <2>4, <3>2 DEF NodeRaises, Nodes
    <3> QED
      BY <3>1, <3>2
  <2>5. CASE Overrun
    <3>1. CASE outcome = "none"
      <4>1. published' \in SUBSET Tasks
        BY DEF TypeOK
      <4>2. Contract!Abort
        BY <2>5, <3>1, <4>1 DEF Overrun, Nodes, result, Contract!Abort
      <4> QED
        BY <4>2 DEF Contract!Next
    <3>2. CASE outcome # "none"
      BY <2>5, <3>2 DEF Overrun, Nodes, result
    <3> QED
      BY <3>1, <3>2
  <2>6. CASE UNCHANGED vars
    BY <2>6 DEF vars, result
  <2> QED
    BY <2>1, <2>2, <2>3, <2>4, <2>5, <2>6 DEF Next
<1> QED
  BY <1>1, <1>2, VerdictStandsInitially, VerdictStandsInductive, TypeCorrect, PTL
     DEF Spec
=============================================================================
