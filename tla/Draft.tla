-------------------------------- MODULE Draft --------------------------------
(***************************************************************************)
(* One field of one competitor, from the model's answer to the published   *)
(* claim: llm.py (call_llm and the repair of its reply), agents/analyst.py,*)
(* the analyze node, claim_builder.build_claim and the rules of QaRules,   *)
(* in the loop of the graph.  The language model may reply anything.       *)
(***************************************************************************)
EXTENDS QaRules, Sequences

CONSTANTS Replies,    \* what the model may reply: [thought, closed, body]
          Seeds,      \* pages of the survey lane that the run may start with
          Found,      \* sets of pages that one collect may store
          Cap,        \* MINGJING_REVISE_CAP
          BudgetMax   \* MINGJING_BUDGET_CALLS

ASSUME DraftConstants == Cap \in Nat /\ BudgetMax \in Nat

VARIABLES
  stage,    \* the node that runs, with the calls to the model of their own
  round,    \* revision_round
  budget,   \* budget_calls
  rows,     \* the source rows: [page, round], a fresh id in every round
  payload,  \* what call_llm returned
  claim,    \* the latest version of the claim
  codes     \* the issues of the last QA round

vars == <<stage, round, budget, rows, payload, claim, codes>>

NoClaim   == [kind |-> "none"]
NoPayload == [shape |-> "none"]
Stopped   == {"complete", "partial", "failed"}

Claimed   == claim # NoClaim

Init == /\ stage = "collect" /\ round = 0 /\ budget = 0
        /\ \E seeds \in SUBSET Seeds : rows = {[page |-> p, round |-> 0 - 1] : p \in seeds}
        /\ payload = NoPayload /\ claim = NoClaim /\ codes = {}

----------------------------------------------------------------------------
\* The collect node: every page that it stores is a new row, even one that an
\* earlier round has stored.
Collect == /\ stage = "collect"
           /\ \E found \in Found : rows' = rows \cup {[page |-> p, round |-> round] : p \in found}
           /\ budget' = budget + 1
           /\ stage' = "analyze"
           /\ UNCHANGED <<round, payload, claim, codes>>

\* A task without sources is skipped; any other is charged as one call.
Analyze == /\ stage = "analyze"
           /\ IF rows = {} THEN stage' = "qa" /\ UNCHANGED budget
                           ELSE stage' = "ask" /\ budget' = budget + 1
           /\ UNCHANGED <<round, rows, payload, claim, codes>>

\* parse_json_with_repair: the first JSON span of what is left once closed
\* think blocks are gone; a block that was not closed stays in the text.
Text(reply)  == IF reply.closed THEN reply.body ELSE reply.thought \o reply.body
Parse(reply) == IF Text(reply) = <<>> THEN [shape |-> "broken"] ELSE Head(Text(reply))

\* A list is an answer like an object, with its items for the required fact.
ASSUME ListsAreAnswers ==
  \A reply \in Replies :
     LET p == Parse(reply)
     IN  p.shape = "list" =>
           p = [shape |-> p.shape, kind |-> p.kind, required |-> p.required,
                optional |-> p.optional, refs |-> p.refs, for |-> p.for,
                against |-> p.against, quote |-> p.quote, basedOn |-> p.basedOn]

\* A second reply without JSON starts the call all over.
AnsweredAtLast == /\ stage \in {"ask", "repair"}
                  /\ \E reply \in Replies :
                       IF Parse(reply).shape = "broken"
                       THEN /\ stage' = IF stage = "ask" THEN "repair" ELSE "ask"
                            /\ UNCHANGED payload
                       ELSE stage' = "build" /\ payload' = Parse(reply)
                  /\ UNCHANGED <<round, budget, rows, claim, codes>>

\* The field is skipped, with an event; the claim of an older round stays.
Skip == stage' = "qa"

\* call_llm: a reply that holds no JSON is asked for once more; the second time
\* it raises and the field is skipped.  What llm_calls logs is left out.
Answered == /\ stage \in {"ask", "repair"}
            /\ \E reply \in Replies :
                 IF Parse(reply).shape = "broken"
                 THEN /\ IF stage = "ask" THEN stage' = "repair" ELSE Skip
                      /\ UNCHANGED payload
                 ELSE stage' = "build" /\ payload' = Parse(reply)
            /\ UNCHANGED <<round, budget, rows, claim, codes>>

\* The provider raises, or the finite timeout runs out: the field is skipped.
Unanswered == /\ stage \in {"ask", "repair"}
              /\ Skip
              /\ UNCHANGED <<round, budget, rows, payload, claim, codes>>

\* coerce_payload_shape, citing the sources that it was shown.
CoercedCitingAll(p) ==
  IF p.shape # "list" THEN p
  ELSE [p EXCEPT !.kind = "inference", !.refs = {r.page : r \in rows}, !.optional = {},
                 !.for = {}, !.against = {}, !.basedOn = {}]

\* coerce_payload_shape: a list becomes an inference under the first required
\* sub-field, without evidence; an empty one counts as no answer.
Coerced(p) ==
  IF p.shape # "list" THEN p
  ELSE [p EXCEPT !.kind = "inference", !.refs = {}, !.optional = {},
                 !.for = {}, !.against = {}, !.quote = {}, !.basedOn = {}]

\* filter_evidence_refs: what the model was not shown is no citation.
Refs(p) == p.refs \cap {r.page : r \in rows}

\* snippet_for: the quote that the model proposes for a source, cited or not, left
\* as it is, or else a piece of the text.
Snippet(p, r) == LET quoted == {q.fact : q \in {x \in p.quote : x.page = r.page}}
                 IN  CHOOSE f \in (IF quoted = {} THEN Page[r.page].says ELSE quoted) : TRUE

\* The evidence of build_claim: every row of the task.
Evidence(p) ==
  {[id      |-> r.round,
    page    |-> r.page,
    cited   |-> r.page \in Refs(p),
    stance  |-> IF r.page \in p.for THEN "supports"
                ELSE IF r.page \in p.against THEN "refutes" ELSE "neutral",
    snippet |-> Snippet(p, r)] : r \in rows}

\* build_claim; origin is no part of the row: the form of the payload.
BuildClaim(p) == LET evidence == Evidence(p)
                 IN  [kind     |-> p.kind,
                      required |-> p.required,
                      optional |-> Prune(p.optional, evidence),
                      evidence |-> evidence,
                      basedOn  |-> p.basedOn,
                      tier     |-> Strength(evidence, FALSE),
                      origin   |-> p.shape]

\* What is no object, or an empty one, is skipped.
SkipPayload == /\ stage = "build" /\ payload.shape = "void"
               /\ Skip /\ payload' = NoPayload
               /\ UNCHANGED <<round, budget, rows, claim, codes>>

\* evidence_ref or statement is null: build_claim or the insert raises, outside
\* the try of the node.
BuildRaises == /\ stage = "build" /\ payload.shape = "null_field"
               /\ stage' = "failed" /\ payload' = NoPayload
               /\ UNCHANGED <<round, budget, rows, claim, codes>>

Build == /\ stage = "build" /\ payload.shape \in {"object", "list", "array_value"}
         /\ claim' = BuildClaim(Coerced(payload))
         /\ stage' = "qa" /\ payload' = NoPayload
         /\ UNCHANGED <<round, budget, rows, codes>>

----------------------------------------------------------------------------
\* The rules index the value of a claim as an object.
QaRaises == /\ stage = "qa" /\ Claimed /\ claim.origin = "array_value"
            /\ stage' = "failed"
            /\ UNCHANGED <<round, budget, rows, payload, claim, codes>>

\* claimset_parts and qa_check; a field without any claim is not covered.
Issues == IF Claimed THEN Codes(claim) ELSE {"LOW_COVERAGE"}

Qa == /\ stage = "qa" /\ ~(Claimed /\ claim.origin = "array_value")
      /\ codes' = Issues
      /\ stage' = "route"
      /\ UNCHANGED <<round, budget, rows, payload, claim>>

MayRevise == round < Cap /\ budget < BudgetMax

Revise == /\ stage = "route" /\ codes # {} /\ MayRevise
          /\ round' = round + 1
          /\ stage' = IF Claimed /\ FirstAssignee(claim) = "analyst" THEN "analyze" ELSE "collect"
          /\ UNCHANGED <<budget, rows, payload, claim, codes>>

\* The write node publishes what has no issue in the last round.
Write == /\ stage = "route" /\ (codes = {} \/ ~MayRevise)
         /\ stage' = IF codes = {} THEN "complete" ELSE "partial"
         /\ UNCHANGED <<round, budget, rows, payload, claim, codes>>

Next == \/ Collect \/ Analyze \/ Answered \/ Unanswered \/ SkipPayload \/ BuildRaises
        \/ Build \/ QaRaises \/ Qa \/ Revise \/ Write

Spec == Init /\ [][Next]_vars

\* The thread of the run is scheduled and every call has a finite timeout.
FairSpec == Spec /\ WF_vars(Next)

----------------------------------------------------------------------------
Published == IF stage = "complete" THEN {claim} ELSE {}

TypeOK ==
  /\ stage \in Stopped \cup {"collect", "analyze", "ask", "repair", "build", "qa", "route"}
  /\ round \in 0..Cap /\ budget \in Nat
  /\ rows \subseteq [page : DOMAIN Page, round : (0 - 1)..Cap]
  /\ payload.shape \in {"none", "void", "list", "object", "null_field", "array_value"}
  /\ Claimed => /\ claim.tier \in {"strong", "moderate", "weak"}
                /\ claim.evidence # {}
                /\ {[page |-> e.page, round |-> e.id] : e \in claim.evidence} \subseteq rows
  /\ stage \in {"build"} <=> payload # NoPayload

\* Whatever the model replied, over all repairs and redrafts: a published claim
\* states nothing checkable, required or optional, that none of its sources
\* says, and quotes each source verbatim.
PublishedIsGrounded ==
  \A c \in Published :
     /\ (c.required \cup c.optional) \ Exempt \subseteq UNION {Page[e.page].says : e \in c.evidence}
     /\ \A e \in c.evidence : e.snippet \in Page[e.page].says

\* A published claim that is called strong rests on two sites that were really
\* fetched, one of them authoritative; neither a page that was fetched in two
\* rounds, nor two pages of a vendor, nor simulated answers make it so.
StrongIsEarned ==
  \A c \in Published : c.tier = "strong" =>
     \E a, b \in c.evidence :
        /\ a.cited /\ b.cited /\ Page[a.page].official
        /\ ~Page[a.page].simulated /\ ~Page[b.page].simulated
        /\ Page[a.page].domain # Page[b.page].domain

\* A bare list is kept as a draft but never published: a citation mark like [1]
\* that was taken for the answer does not get through, even when the
\* sources happen to say what is in it.
ListNeverPublished == \A c \in Published : c.origin # "list"

\* agents and providers may fail in any way, but the run comes to an end.
RunEnds == <>(stage \in Stopped)

\* graph_nodes.py: a defective payload is skipped, and the run still advances
\* to write.
DefectiveIsSkipped == stage # "failed"
=============================================================================
