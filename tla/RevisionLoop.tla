---------------------------- MODULE RevisionLoop ----------------------------
(***************************************************************************)
(* The self-correcting graph of one run (graph.py, graph_nodes.py,         *)
(* qa/route.py, agents/qa.py): intake -> plan -> collect -> analyze -> qa  *)
(* -> route -> {write | revise -> collect/analyze ...} -> synthesis -> end.*)
(*                                                                         *)
(* One action per node, because LangGraph runs one node per super-step and *)
(* only this thread touches RunState.  A claim row is abstracted to the    *)
(* set of checks of qa/rules.py that it fails.  These depend on the row    *)
(* and its sources, neither of which changes: two claims can contradict    *)
(* each other only within one task, which has one claim (OneIdPerTask of   *)
(* ClaimLedger), and the id of a claim to come is nothing the analyst can  *)
(* name in based_on.  No reviewer corrects a claim while the loop runs:    *)
(* ClaimLedger is about that.                                              *)
(***************************************************************************)
EXTENDS Integers, FiniteSets, Sequences

CONSTANTS Competitors,     \* intake["competitors"]
          Fields,          \* intake["fields"]: the active schema's fields
          Codes,           \* the checks a draft may fail in this model
          Caps,            \* what MINGJING_REVISE_CAP may be set to
          BudgetMax,       \* MINGJING_BUDGET_CALLS
          RecursionLimit,  \* graph.py's _GRAPH_RECURSION_LIMIT
          NoClaim          \* "no claim id"

\* LINEAGE_GAP is the SCHEMA_GAP of _check_inference_lineage, which is found
\* after the other checks of a claim.
IssueCodes == {"SCHEMA_GAP", "WEAK_EVIDENCE", "HALLUCINATED_SNIPPET",
               "VALUE_UNSUPPORTED", "LINEAGE_GAP", "CONTRADICTION"}

Tasks == Competitors \X Fields

ASSUME FiniteIntake   == IsFiniteSet(Competitors) /\ IsFiniteSet(Fields)
ASSUME NaturalLimits  == Caps \subseteq Nat /\ BudgetMax \in Nat /\ RecursionLimit \in Nat
ASSUME KnownCodes     == Codes \subseteq IssueCodes
ASSUME NoClaimNoTask  == NoClaim \notin Tasks

VARIABLES
  cap,          \* settings.revise_round_cap, read from the environment once
  node,         \* the node LangGraph runs next, or how the run stopped
  steps,        \* super-steps executed
  round,        \* RunState.revision_round
  budgetCalls,  \* RunState.budget_calls
  budgetOk,     \* RunState.budget_ok
  verdict,      \* RunState.verdict
  assignee,     \* RunState.assignee
  sourced,      \* tasks with at least one row in RunState.sources
  order,        \* claims in the order of their first row in the claims table
  issues,       \* the checks a claim's latest row fails
  firstFlagged, \* first claim named in the accumulated RunState.qc_reports
  lastFlagged,  \* claims whose qc_report of the highest round has issues
  target,       \* claim_id of the latest revise_start event
  published,    \* claims the write node promoted to status = "pass"
  outcome       \* "complete"/"partial" once the terminal event is emitted

vars == <<cap, node, steps, round, budgetCalls, budgetOk, verdict, assignee,
          sourced, order, issues, firstFlagged, lastFlagged, target,
          published, outcome>>

routing  == <<round, budgetCalls, budgetOk, verdict, assignee>>
evidence == <<sourced, order, issues>>
reports  == <<firstFlagged, lastFlagged, target>>
result   == <<published, outcome>>

Stopped == {"end", "failed", "overrun"}
Nodes   == {"intake", "plan", "collect", "analyze", "qa", "route", "revise",
            "write", "synthesis"}

----------------------------------------------------------------------------
\* LangGraph executes the next node unless the recursion limit is used up.
Run(n, next) == /\ node = n
                /\ steps < RecursionLimit
                /\ steps' = steps + 1
                /\ node' = next
                /\ UNCHANGED cap

Claimed == {order[i] : i \in DOMAIN order}
Flagged == {t \in Claimed : issues[t] # {}}

\* qa/rules.py: len(covered) / len(required) must reach COVERAGE_THRESHOLD 0.8.
CoversFraction(S) == 5 * Cardinality({t[2] : t \in S}) >= 4 * Cardinality(Fields)
Covers(S) == Fields = {} \/ CoversFraction(S)

\* The first claim, in row order, whose codes meet C.
FirstWith(C) ==
  LET hit == {i \in DOMAIN order : issues[order[i]] \cap C # {}}
  IN IF hit = {} THEN NoClaim
     ELSE order[CHOOSE i \in hit : \A j \in hit : i <= j]

\* qa_check lists every claim's own issues before any contradiction, so the
\* first issue that names a claim is a contradiction only if there is no other.
FirstIssueClaim ==
  LET own == FirstWith(Codes \ {"CONTRADICTION"})
  IN IF own # NoClaim THEN own ELSE FirstWith({"CONTRADICTION"})

\* Schema gap and weak evidence are checked before the hallucinated snippet.
FirstIssueIsFabrication ==
  LET own == FirstWith(Codes \ {"CONTRADICTION"})
  IN /\ own # NoClaim
     /\ "HALLUCINATED_SNIPPET" \in issues[own]
     /\ issues[own] \cap {"SCHEMA_GAP", "WEAK_EVIDENCE"} = {}

\* qa_check, mutated: low coverage has a verdict of its own; it is no issue.
VerdictPartial    == CASE Flagged # {}    -> "reject"
                       [] Covers(Claimed) -> "pass"
                       [] OTHER           -> "partial"
VerdictNoCoverage == IF Flagged = {} THEN "pass" ELSE "reject"

Verdict  == IF Flagged = {} /\ Covers(Claimed) THEN "pass" ELSE "reject"
Assignee == CASE Verdict = "pass"        -> "none"
              [] FirstIssueIsFabrication -> "analyst"
              [] OTHER                   -> "collector"

----------------------------------------------------------------------------
Init == /\ cap \in Caps
        /\ node = "intake" /\ steps = 0
        /\ round = 0 /\ budgetCalls = 0 /\ budgetOk = TRUE
        /\ verdict = "pass" /\ assignee = "none"
        /\ sourced \in SUBSET Tasks         \* rows seeded by the survey lane
        /\ order = <<>> /\ issues = [t \in Tasks |-> {}]
        /\ firstFlagged = NoClaim /\ lastFlagged = {} /\ target = NoClaim
        /\ published = {} /\ outcome = "none"

\* Seeds the loop counters.
Intake == /\ Run("intake", "plan")
          /\ round' = 0 /\ budgetCalls' = 0 /\ budgetOk' = TRUE
          /\ UNCHANGED <<verdict, assignee, evidence, reports, result>>

\* Expands the intake into Tasks, which this model holds as a constant.
Plan == /\ Run("plan", "collect")
        /\ UNCHANGED <<routing, evidence, reports, result>>

\* One pass over all tasks, charged as one call whatever it fetched; any task
\* may gain sources, and sources are never taken away.
Collect == /\ Run("collect", "analyze")
           /\ \E found \in SUBSET Tasks : sourced' = sourced \cup found
           /\ budgetCalls' = budgetCalls + 1
           /\ UNCHANGED <<round, budgetOk, verdict, assignee, order, issues,
                          reports, result>>

\* Rows enter the table in task order; a claim keeps its place when redrafted.
Enrol(new) == \E s \in [1..Cardinality(new) -> new] :
                /\ {s[i] : i \in DOMAIN s} = new
                /\ order' = order \o s

\* Every task with sources costs one analyst call.  The call may raise or
\* return nothing usable, and then the task keeps the row it had.
Analyze == /\ Run("analyze", "qa")
           /\ \E drafted \in SUBSET sourced :
                /\ Enrol(drafted \ Claimed)
                /\ \E found \in [drafted -> SUBSET Codes] :
                     issues' = [t \in Tasks |-> IF t \in drafted THEN found[t]
                                                ELSE issues[t]]
           /\ budgetCalls' = budgetCalls + Cardinality(sourced)
           /\ UNCHANGED <<round, budgetOk, verdict, assignee, sourced, reports,
                          result>>

\* The same, mutated: a claim flagged in any round stays flagged.
FlaggedInAnyRound(before, now) == before \cup now

\* flagged_claim_ids_last_round reads the reports of the highest round only.
FlaggedInLastRound(before, now) == now

Qa == /\ Run("qa", "route")
      /\ verdict' = Verdict
      /\ assignee' = Assignee
      /\ budgetOk' = (budgetCalls < BudgetMax)
      /\ lastFlagged' = FlaggedInLastRound(lastFlagged, Flagged)
      /\ firstFlagged' = IF firstFlagged = NoClaim THEN FirstIssueClaim
                         ELSE firstFlagged
      /\ UNCHANGED <<round, budgetCalls, evidence, target, result>>

\* The router, mutated: the budget is ignored; the round cap is one too high;
\* the last permitted round is not used.
MayReviseOverBudget(ok) == verdict = "reject" /\ round < cap
MayReviseOverCap(ok)    == verdict = "reject" /\ round <= cap /\ ok
MayReviseTooFew(ok)     == verdict = "reject" /\ round + 1 < cap /\ ok

\* qa/route.py: a reject loops only below the cap and within the budget.
MayRevise(ok) == verdict = "reject" /\ round < cap /\ ok

Route == /\ budgetOk' = (budgetCalls < BudgetMax)
         /\ Run("route", IF MayRevise(budgetOk') THEN "revise" ELSE "write")
         /\ UNCHANGED <<round, budgetCalls, verdict, assignee, evidence,
                        reports, result>>

\* Revise, mutated: the round is not advanced.
ReviseSameRound == /\ Run("revise", IF assignee = "analyst" THEN "analyze" ELSE "collect")
                   /\ target' = firstFlagged
                   /\ UNCHANGED <<round, budgetCalls, budgetOk, verdict, assignee,
                                  evidence, firstFlagged, lastFlagged, result>>

\* The event names the first claim ever found in the accumulated reports.
Revise == /\ Run("revise", IF assignee = "analyst" THEN "analyze" ELSE "collect")
          /\ round' = round + 1
          /\ target' = firstFlagged
          /\ UNCHANGED <<budgetCalls, budgetOk, verdict, assignee, evidence,
                         firstFlagged, lastFlagged, result>>

Passed == IF verdict = "pass" THEN Claimed ELSE Claimed \ lastFlagged

Write == /\ Run("write", "synthesis")
         /\ published' = Passed
         /\ outcome' = IF verdict = "pass" THEN "complete" ELSE "partial"
         /\ UNCHANGED <<routing, evidence, reports>>

\* Non-fatal: it reads the published claims and stores a brief about them.
Synthesis == /\ Run("synthesis", "end")
             /\ UNCHANGED <<routing, evidence, reports, result>>

\* An exception escapes a node: LangGraph stops and invoke re-raises.  Rows
\* appended before it stay, which matters only for write: it promotes the
\* passed claims one by one, in row order.
NodeRaises == /\ node \in Nodes
              /\ node' = "failed"
              /\ steps' = steps + 1
              /\ steps < RecursionLimit
              /\ IF node = "write"
                 THEN \E k \in 0..Len(order) :
                        published' = {order[i] : i \in 1..k} \cap Passed
                 ELSE UNCHANGED published
              /\ UNCHANGED <<cap, routing, evidence, reports, outcome>>

\* The ceiling, mutated: it is noticed one super-step late.
OverrunLate == /\ node \in Nodes
               /\ steps > RecursionLimit
               /\ node' = "overrun"
               /\ UNCHANGED <<cap, steps, routing, evidence, reports, result>>

\* GraphRecursionError: nodes are left to run but the super-steps are used up.
Overrun == /\ node \in Nodes
           /\ steps >= RecursionLimit
           /\ node' = "overrun"
           /\ UNCHANGED <<cap, steps, routing, evidence, reports, result>>

Next == \/ Intake \/ Plan \/ Collect \/ Analyze \/ Qa \/ Route \/ Revise
        \/ Write \/ Synthesis \/ NodeRaises \/ Overrun

\* invoke drives the graph to its end on a thread of its own.
Spec == Init /\ [][Next]_vars /\ WF_vars(Next)

----------------------------------------------------------------------------
\* Every variable holds a value of its type (RunState, graph.py:71-95).
TypeOK == /\ cap \in Caps
          /\ node \in Nodes \cup Stopped
          /\ steps \in 0..RecursionLimit
          /\ round \in Nat /\ budgetCalls \in Nat /\ budgetOk \in BOOLEAN
          /\ verdict \in {"pass", "reject"}
          /\ assignee \in {"none", "analyst", "collector"}
          /\ sourced \subseteq Tasks
          /\ order \in Seq(Tasks)
          /\ issues \in [Tasks -> SUBSET Codes]
          /\ firstFlagged \in Tasks \cup {NoClaim}
          /\ lastFlagged \subseteq Tasks
          /\ target \in Tasks \cup {NoClaim}
          /\ published \subseteq Tasks
          /\ outcome \in {"none", "complete", "partial"}

\* The revise loop never outspends the cap: no more rounds than cap, and the
\* call budget, which is looked at only in route, is overshot by at most one
\* pass over the tasks (one collect charge and one analyst call per task).
SpendBound == /\ round <= cap
              /\ budgetCalls <= (IF BudgetMax = 0 THEN 1 ELSE BudgetMax)
                                  + Cardinality(Tasks)

\* The super-steps of the longest run, by cap (graph.py:509-512).
WorstCase == [c \in Caps |-> 8 + 5 * c]

\* The worst-case run fits under the ceiling.
CeilingHasRoom == WorstCase[cap] <= RecursionLimit

\* "The router never reaches it on any legitimate path" (graph.py:513-514),
\* wherever the ceiling has room for the configured cap.
BackstopUnreached == CeilingHasRoom => node # "overrun"

\* The write node publishes exactly the claims whose latest row is clean: a
\* claim flagged early and repaired later is in, one that was clean and is
\* redrafted badly is out, on the complete and on the partial path.
PublishedExactlyClean == outcome # "none" => published = Claimed \ Flagged

\* The loop gives up on a rejected run only when the last round that the cap
\* allows is used, or the budget is spent; it never stops early.
GivesUpOnlyWhenSpent ==
  outcome = "partial" => /\ verdict = "reject"
                         /\ round >= cap \/ budgetCalls >= BudgetMax

\* Where the ceiling has room, every run reaches its terminal event or fails
\* with an exception: the reject loop is finite (qa/route.py).
Settles == CeilingHasRoom ~> (outcome # "none" \/ node = "failed")

\* Whatever the cap is, invoke returns or raises.
Terminates == <>(node \in Stopped)

\* The run as its reader sees it: it settles once, under a label, with a set of
\* published claims, and "complete" means that the set covers the fields.
Contract == INSTANCE RunContract
              WITH stage <- CASE outcome # "none" -> "settled"
                              [] outcome = "none" /\ node \in {"failed", "overrun"} -> "aborted"
                              [] OTHER -> "working",
                   label <- outcome

\* The loop implements the contract of a run.
ImplementsContract == Contract!Spec
=============================================================================
