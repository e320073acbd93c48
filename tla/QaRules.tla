------------------------------- MODULE QaRules -------------------------------
(***************************************************************************)
(* qa/rules.py and scoring.py: what the deterministic gate finds in one    *)
(* claim.  Text is abstracted to the facts that it states: a value leaf    *)
(* and a snippet are a fact each, and a leaf or a snippet is a substring   *)
(* of a text if the text states the fact.  No text is blank, because the   *)
(* collect node drops what is shorter than min_source_chars.               *)
(*                                                                         *)
(* A claim is a record with kind (claim_type), the facts under its         *)
(* required and its optional sub-fields, basedOn, and evidence: a set of   *)
(* records [id, page, cited, stance, snippet], one for each source row of  *)
(* the task, cited when its relevance is "supports".                       *)
(***************************************************************************)
EXTENDS Integers, FiniteSets

CONSTANTS Page,    \* [page -> [domain, official, simulated, says]]
          Exempt   \* facts that no rule looks for: short, or derived like depth

Authoritative(p) == Page[p].official
Real(evidence)   == {e \in evidence : ~Page[e.page].simulated}
DomainsOf(evidence) == {Page[e.page].domain : e \in evidence}

----------------------------------------------------------------------------
\* scoring.py, without the collapse of the pages of a domain into one voice.
StrengthByRow(evidence, contradiction) ==
  LET cited == {e \in Real(evidence) : e.cited}
  IN  IF cited = {} THEN "weak"
      ELSE IF \/ Cardinality(cited) < 2
              \/ \A e \in cited : ~Authoritative(e.page)
              \/ contradiction
           THEN "moderate" ELSE "strong"

\* scoring.py: strength, over the distinct domains that support the claim.
Strength(evidence, contradiction) ==
  LET cited == {e \in Real(evidence) : e.cited}
  IN  IF cited = {} THEN "weak"
      ELSE IF \/ Cardinality(DomainsOf(cited)) < 2
              \/ \A e \in cited : ~Authoritative(e.page)
              \/ contradiction
           THEN "moderate" ELSE "strong"

\* One site supports and another one refutes the claim, whether cited or not.
Contradicted(evidence) ==
  \E s, r \in Real(evidence) : /\ s.stance = "supports" /\ r.stance = "refutes"
                               /\ Page[s.page].domain # Page[r.page].domain

\* The raw texts of all sources of the claim, cited or not.
Haystack(evidence) == UNION {Page[e.page].says : e \in evidence}

\* A leaf that no rule looks for, or that occurs in a text: a string by itself,
\* a number as a whole token.
Grounded(f, evidence) == f \in Exempt \/ f \in Haystack(evidence)

\* prune_unsupported_optional_leaves, left out.
PruneNothing(facts, evidence) == facts

\* prune_unsupported_optional_leaves: what no source says is withheld.
Prune(facts, evidence) == {f \in facts : Grounded(f, evidence)}

----------------------------------------------------------------------------
SchemaGap(claim)    == claim.required = {}
WeakEvidence(claim) == Strength(claim.evidence, Contradicted(claim.evidence)) = "weak"
InventedSnippet(claim) == \E e \in claim.evidence : e.snippet \notin Page[e.page].says

\* A leaf is supported by some source of the claim, not by the one it is cited from.
ValueUnsupported(claim) == \E f \in claim.required : ~Grounded(f, claim.evidence)

\* based_on is looked at in inferences only; the id of a claim is nothing the
\* analyst was shown, so what it names does not exist.
LineageGap(claim) == claim.kind = "inference" /\ claim.basedOn # {}

\* qa_check on the one claim of a task; two claims on one task there are not.
Codes(claim) ==
     (IF SchemaGap(claim) \/ LineageGap(claim) THEN {"SCHEMA_GAP"} ELSE {})
  \cup (IF WeakEvidence(claim) THEN {"WEAK_EVIDENCE"} ELSE {})
  \cup (IF InventedSnippet(claim) THEN {"HALLUCINATED_SNIPPET"} ELSE {})
  \cup (IF ValueUnsupported(claim) THEN {"VALUE_UNSUPPORTED"} ELSE {})
  \cup (IF Contradicted(claim.evidence) THEN {"CONTRADICTION"} ELSE {})

\* The assignee of the first issue: lineage is looked at after the snippets.
FirstAssignee(claim) ==
  IF InventedSnippet(claim) /\ ~SchemaGap(claim) /\ ~WeakEvidence(claim)
  THEN "analyst" ELSE "collector"
=============================================================================
