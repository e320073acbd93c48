------------------------------ MODULE DraftProofs ------------------------------
(***************************************************************************)
(* Theorems about Draft for any pages, replies of the model, seeds, finds, *)
(* cap and budget: what the gate of QA says of a published claim was found *)
(* of that claim, and not of another version of it.                        *)
(***************************************************************************)
EXTENDS Draft, FiniteSetTheorems, TLAPS

IsAnswer(p) ==
  p = [shape |-> p.shape, kind |-> p.kind, required |-> p.required,
       optional |-> p.optional, refs |-> p.refs, for |-> p.for,
       against |-> p.against, quote |-> p.quote, basedOn |-> p.basedOn]

\* What build_claim guarantees of any claim, whatever the payload was.
WellBuilt(c) ==
  /\ c.optional \subseteq Exempt \cup Haystack(c.evidence)
  /\ c.tier = Strength(c.evidence, FALSE)
  /\ c.origin = "list" => \A e \in c.evidence : ~ e.cited

\* The claim is well built at any time, and the issues are those of the claim as
\* it is from QA until the next draft.
DraftInv ==
  /\ payload.shape = "list" => IsAnswer(payload)
  /\ Claimed => WellBuilt(claim)
  /\ stage \in {"route", "complete"} => codes = Issues
  /\ stage = "complete" => codes = {}

----------------------------------------------------------------------------
\* What is left of the optional leaves is in some source.
LEMMA PruneGrounds ==
  ASSUME NEW facts, NEW evidence
  PROVE  Prune(facts, evidence) \subseteq Exempt \cup Haystack(evidence)
BY DEF Prune, Grounded

\* A coerced list cites nothing; nothing else is called a list.
LEMMA CoercedList ==
  ASSUME NEW p, p.shape = "list" => IsAnswer(p), Coerced(p).shape = "list"
  PROVE  Coerced(p).refs = {}
<1>1. p.shape = "list"
  BY DEF Coerced
<1>2. p = [shape |-> p.shape, kind |-> p.kind, required |-> p.required,
           optional |-> p.optional, refs |-> p.refs, for |-> p.for,
           against |-> p.against, quote |-> p.quote, basedOn |-> p.basedOn]
  BY <1>1 DEF IsAnswer
<1>3. Coerced(p) = [p EXCEPT !.kind = "inference", !.refs = {}, !.optional = {},
                             !.for = {}, !.against = {}, !.quote = {}, !.basedOn = {}]
  BY <1>1 DEF Coerced
<1> QED BY <1>2, <1>3

\* build_claim.
LEMMA BuiltWell ==
  ASSUME NEW p, p.shape = "list" => p.refs = {}
  PROVE  WellBuilt(BuildClaim(p)) /\ BuildClaim(p) # NoClaim
<1> DEFINE c == BuildClaim(p)
<1>1. /\ c.optional = Prune(p.optional, Evidence(p))
      /\ c.evidence = Evidence(p)
      /\ c.tier = Strength(Evidence(p), FALSE)
      /\ c.origin = p.shape
  BY DEF BuildClaim
<1>2. c.optional \subseteq Exempt \cup Haystack(c.evidence)
  BY <1>1, PruneGrounds
<1>3. ASSUME p.shape = "list", NEW e \in Evidence(p)
      PROVE  ~ e.cited
  <2>1. PICK r \in rows : e.cited = (r.page \in Refs(p))
    BY <1>3 DEF Evidence
  <2>2. Refs(p) = {}
    BY <1>3 DEF Refs
  <2> QED BY <2>1, <2>2
<1>4. c # NoClaim
  <2>1. DOMAIN c # DOMAIN NoClaim
    <3>1. "tier" \in DOMAIN c
      BY DEF BuildClaim
    <3>2. "tier" \notin DOMAIN NoClaim
      BY DEF NoClaim
    <3> QED BY <3>1, <3>2
  <2> QED BY <2>1
<1>5. WellBuilt(c)
  BY <1>1, <1>2, <1>3 DEF WellBuilt
<1> QED BY <1>4, <1>5

LEMMA DraftInvInitially == Init => DraftInv
BY DEF Init, DraftInv, NoPayload, Claimed

\* A reply to the model's call, the first or the repaired one.
LEMMA AnsweredKeepsDraftInv == DraftInv /\ Answered => DraftInv'
<1> SUFFICES ASSUME DraftInv, Answered PROVE DraftInv'
  OBVIOUS
<1>1. PICK reply \in Replies :
        \/ stage' \in {"repair", "qa"} /\ payload' = payload
        \/ stage' = "build" /\ payload' = Parse(reply)
  BY DEF Answered, Skip
<1>2. payload'.shape = "list" => IsAnswer(payload')
  <2>1. Parse(reply).shape = "list" => IsAnswer(Parse(reply))
    BY ListsAreAnswers DEF IsAnswer
  <2> QED BY <1>1, <2>1 DEF DraftInv
<1>3. claim' = claim
  BY DEF Answered
<1> QED BY <1>1, <1>2, <1>3 DEF DraftInv, Claimed, IsAnswer

LEMMA BuildKeepsDraftInv == DraftInv /\ Build => DraftInv'
<1> SUFFICES ASSUME DraftInv, Build PROVE DraftInv'
  OBVIOUS
<1> DEFINE p == Coerced(payload)
<1>1. p.shape = "list" => p.refs = {}
  BY CoercedList DEF DraftInv
<1>2. WellBuilt(BuildClaim(p))
  BY <1>1, BuiltWell
<1>3. claim' = BuildClaim(p) /\ stage' = "qa" /\ payload' = NoPayload
  BY DEF Build
<1>4. WellBuilt(claim')
  BY <1>2, <1>3
<1> QED BY <1>3, <1>4 DEF DraftInv, NoPayload, Claimed

\* The other actions of the node analyze leave the claim alone and are followed
\* by another node than route.
LEMMA AnalystKeepsDraftInv ==
  DraftInv /\ (Collect \/ Analyze \/ Unanswered \/ SkipPayload \/ BuildRaises) => DraftInv'
<1> SUFFICES ASSUME DraftInv, Collect \/ Analyze \/ Unanswered \/ SkipPayload \/ BuildRaises
             PROVE  DraftInv'
  OBVIOUS
<1>1. /\ claim' = claim
      /\ payload' = payload \/ payload' = NoPayload
      /\ stage' \notin {"route", "complete"}
  BY DEF Collect, Analyze, Unanswered, SkipPayload, BuildRaises, Skip
<1> QED BY <1>1 DEF DraftInv, NoPayload, Claimed, IsAnswer

LEMMA GateKeepsDraftInv == DraftInv /\ (QaRaises \/ Qa \/ Revise \/ Write) => DraftInv'
<1> SUFFICES ASSUME DraftInv, QaRaises \/ Qa \/ Revise \/ Write PROVE DraftInv'
  OBVIOUS
<1>1. claim' = claim /\ payload' = payload
  BY DEF QaRaises, Qa, Revise, Write
<1>2. Issues' = Issues
  BY <1>1 DEF Issues, Claimed, Codes, SchemaGap, LineageGap, WeakEvidence, InventedSnippet,
              ValueUnsupported
<1>3. CASE QaRaises \/ Revise
  BY <1>1, <1>3 DEF QaRaises, Revise, DraftInv, Claimed, IsAnswer
<1>4. CASE Qa
  BY <1>1, <1>2, <1>4 DEF Qa, DraftInv, Claimed, IsAnswer
<1>5. CASE Write
  BY <1>1, <1>2, <1>5 DEF Write, DraftInv, Claimed, IsAnswer
<1> QED BY <1>3, <1>4, <1>5

LEMMA DraftInvAlways == Spec => []DraftInv
<1>1. DraftInv /\ [Next]_vars => DraftInv'
  <2> SUFFICES ASSUME DraftInv, [Next]_vars PROVE DraftInv'
    OBVIOUS
  <2>1. CASE UNCHANGED vars
    <3>1. Issues' = Issues
      BY <2>1 DEF vars, Issues, Claimed, Codes, SchemaGap, LineageGap, WeakEvidence,
                  InventedSnippet, ValueUnsupported
    <3> QED BY <2>1, <3>1 DEF vars, DraftInv, Claimed, IsAnswer
  <2> QED BY <2>1, AnsweredKeepsDraftInv, BuildKeepsDraftInv, AnalystKeepsDraftInv,
             GateKeepsDraftInv DEF Next
<1> QED BY <1>1, DraftInvInitially, PTL DEF Spec

----------------------------------------------------------------------------
\* Who is published has passed every check of qa_check.
LEMMA PublishedPassed ==
  ASSUME DraftInv, NEW c \in Published
  PROVE  /\ WellBuilt(c) /\ stage = "complete"
         /\ ~ WeakEvidence(c) /\ ~ InventedSnippet(c) /\ ~ ValueUnsupported(c)
<1>1. stage = "complete" /\ c = claim
  BY DEF Published
<1>2. codes = {} /\ codes = Issues
  BY <1>1 DEF DraftInv
<1>3. Claimed /\ Codes(claim) = {}
  BY <1>2 DEF Issues
<1>4. WellBuilt(claim)
  BY <1>3 DEF DraftInv
<1>5. ~ WeakEvidence(claim) /\ ~ InventedSnippet(claim) /\ ~ ValueUnsupported(claim)
  BY <1>3 DEF Codes
<1> QED BY <1>1, <1>4, <1>5

\* PublishedIsGrounded, for any pages and replies: no redraft, repair or coercion
\* (llm.py, agents/analyst.py) gets an ungrounded leaf or quotation published.
THEOREM ReportIsGrounded == Spec => []PublishedIsGrounded
<1>1. DraftInv => PublishedIsGrounded
  <2> SUFFICES ASSUME DraftInv, NEW c \in Published
               PROVE  /\ (c.required \cup c.optional) \ Exempt \subseteq Haystack(c.evidence)
                      /\ \A e \in c.evidence : e.snippet \in Page[e.page].says
    BY DEF PublishedIsGrounded, Haystack
  <2>1. /\ \A f \in c.required : f \in Exempt \/ f \in Haystack(c.evidence)
        /\ \A e \in c.evidence : e.snippet \in Page[e.page].says
    BY PublishedPassed DEF ValueUnsupported, InventedSnippet, Grounded
  <2>2. c.optional \subseteq Exempt \cup Haystack(c.evidence)
    BY PublishedPassed DEF WellBuilt
  <2> QED BY <2>1, <2>2
<1> QED BY <1>1, DraftInvAlways, PTL

\* ListNeverPublished: a coerced list has no citation and is weak for ever
\* (coerce_payload_shape, _check_weak_evidence).
THEOREM ListsStayDrafts == Spec => []ListNeverPublished
<1>1. DraftInv => ListNeverPublished
  <2> SUFFICES ASSUME DraftInv, NEW c \in Published, c.origin = "list" PROVE FALSE
    BY DEF ListNeverPublished
  <2>1. \A e \in c.evidence : ~ e.cited
    BY PublishedPassed DEF WellBuilt
  <2>2. {e \in Real(c.evidence) : e.cited} = {}
    BY <2>1 DEF Real
  <2>3. Strength(c.evidence, Contradicted(c.evidence)) = "weak"
    BY <2>2 DEF Strength
  <2> QED BY <2>3, PublishedPassed DEF WeakEvidence
<1> QED BY <1>1, DraftInvAlways, PTL

----------------------------------------------------------------------------
\* What it takes to be strong.
LEMMA StrongNeeds ==
  ASSUME NEW evidence, Strength(evidence, FALSE) = "strong"
  PROVE  LET cited == {e \in Real(evidence) : e.cited}
         IN  /\ ~ (Cardinality(DomainsOf(cited)) < 2)
             /\ \E e \in cited : Authoritative(e.page)
BY DEF Strength

\* StrongIsEarned: rows of one domain are one voice and simulated ones none
\* (scoring.py, collector/independence.py), for any number of pages and rounds.
THEOREM StrengthIsEarned == Spec => []StrongIsEarned
<1>1. DraftInv => StrongIsEarned
  <2> SUFFICES ASSUME DraftInv, NEW c \in Published, c.tier = "strong"
               PROVE  \E a, b \in c.evidence :
                        /\ a.cited /\ b.cited /\ Page[a.page].official
                        /\ ~Page[a.page].simulated /\ ~Page[b.page].simulated
                        /\ Page[a.page].domain # Page[b.page].domain
    BY DEF StrongIsEarned
  <2> DEFINE cited == {e \in Real(c.evidence) : e.cited}
  <2>1. Strength(c.evidence, FALSE) = "strong"
    BY PublishedPassed DEF WellBuilt
  <2>2. ~ (Cardinality(DomainsOf(cited)) < 2)
    BY <2>1, StrongNeeds
  <2>3. PICK a \in cited : Authoritative(a.page)
    BY <2>1, StrongNeeds
  <2>4. PICK b \in cited : Page[b.page].domain # Page[a.page].domain
    <3> SUFFICES ASSUME \A b \in cited : Page[b.page].domain = Page[a.page].domain
                 PROVE  FALSE
      OBVIOUS
    <3>1. DomainsOf(cited) = {Page[a.page].domain}
      BY DEF DomainsOf
    <3>2. Cardinality({Page[a.page].domain}) = 1
      BY FS_Singleton
    <3>3. Cardinality(DomainsOf(cited)) = 1
      BY <3>1, <3>2
    <3>4. 1 < 2
      OBVIOUS
    <3> HIDE DEF cited
    <3> QED BY <2>2, <3>3, <3>4
  <2>5. /\ a \in c.evidence /\ b \in c.evidence /\ a.cited /\ b.cited
        /\ ~ Page[a.page].simulated /\ ~ Page[b.page].simulated
    BY DEF Real
  <2>6. Page[a.page].official
    BY <2>3 DEF Authoritative
  <2> QED BY <2>4, <2>5, <2>6
<1> QED BY <1>1, DraftInvAlways, PTL

----------------------------------------------------------------------------
(***************************************************************************)
(* Why a run ends.  RunEnds is liveness and stays with TLC, but that no    *)
(* run can go on for ever is safety: every step uses up some of Left,      *)
(* which the first state has 8 * Cap + 7 of.                               *)
(***************************************************************************)
ToGo == [s \in {"collect", "analyze", "ask", "repair", "build", "qa", "route"} \cup Stopped |->
           CASE s = "collect" -> 7 [] s = "analyze" -> 6 [] s = "ask"   -> 5
             [] s = "repair"  -> 4 [] s = "build"   -> 3 [] s = "qa"    -> 2
             [] s = "route"   -> 1 [] OTHER -> 0]

Left == 8 * (Cap - round) + ToGo[stage]

RoundInv == stage \in DOMAIN ToGo /\ round \in Nat /\ round <= Cap

LEMMA ToGoOf ==
  /\ DOMAIN ToGo = {"collect", "analyze", "ask", "repair", "build", "qa", "route"} \cup Stopped
  /\ \A s \in DOMAIN ToGo : ToGo[s] \in 0 .. 7
  /\ ToGo["collect"] = 7 /\ ToGo["analyze"] = 6 /\ ToGo["ask"] = 5 /\ ToGo["repair"] = 4
  /\ ToGo["build"] = 3 /\ ToGo["qa"] = 2 /\ ToGo["route"] = 1
  /\ \A s \in Stopped : ToGo[s] = 0
BY DEF ToGo, Stopped

LEMMA RoundInvInitially == Init => RoundInv
BY ToGoOf, DraftConstants DEF Init, RoundInv

\* Within a round each step comes nearer to the router, the repaired call too; the
\* router goes back only by taking a round.
LEMMA StepUsesUp == RoundInv /\ Next => RoundInv' /\ Left' < Left
<1> SUFFICES ASSUME RoundInv, Next PROVE RoundInv' /\ Left' < Left
  OBVIOUS
<1>1. /\ Cap \in Nat /\ round \in Nat /\ round <= Cap
      /\ ToGo[stage] \in 0 .. 7
  BY ToGoOf, DraftConstants DEF RoundInv
<1>2. ASSUME round' = round, stage' \in DOMAIN ToGo, ToGo[stage'] < ToGo[stage]
      PROVE  RoundInv' /\ Left' < Left
  <2>1. ToGo[stage'] \in 0 .. 7
    BY <1>2, ToGoOf
  <2> QED BY <1>1, <1>2, <2>1 DEF RoundInv, Left
<1>3. CASE Collect
  BY <1>2, <1>3, ToGoOf DEF Collect
<1>4. CASE Analyze
  BY <1>2, <1>4, ToGoOf DEF Analyze
<1>5. CASE Answered \/ Unanswered
  <2>1. /\ stage \in {"ask", "repair"} /\ round' = round
        /\ stage' \in {"build", "qa"} \/ (stage = "ask" /\ stage' = "repair")
    BY <1>5 DEF Answered, Unanswered, Skip
  <2> QED BY <1>2, <2>1, ToGoOf
<1>6. CASE SkipPayload \/ BuildRaises \/ Build
  <2>1. stage = "build" /\ round' = round /\ stage' \in {"qa", "failed"}
    BY <1>6 DEF SkipPayload, BuildRaises, Build, Skip
  <2>2. "failed" \in Stopped
    BY DEF Stopped
  <2> QED BY <1>2, <2>1, <2>2, ToGoOf
<1>7. CASE QaRaises \/ Qa
  <2>1. stage = "qa" /\ round' = round /\ stage' \in {"route", "failed"}
    BY <1>7 DEF QaRaises, Qa
  <2>2. "failed" \in Stopped
    BY DEF Stopped
  <2> QED BY <1>2, <2>1, <2>2, ToGoOf
<1>8. CASE Revise
  <2>1. /\ stage = "route" /\ round < Cap /\ round' = round + 1
        /\ stage' \in {"analyze", "collect"}
    BY <1>8 DEF Revise, MayRevise
  <2> QED BY <1>1, <2>1, ToGoOf DEF RoundInv, Left
<1>9. CASE Write
  <2>1. stage = "route" /\ round' = round /\ stage' \in {"complete", "partial"}
    BY <1>9 DEF Write
  <2>2. {"complete", "partial"} \subseteq Stopped
    BY DEF Stopped
  <2> QED BY <1>2, <2>1, <2>2, ToGoOf
<1> QED BY <1>3, <1>4, <1>5, <1>6, <1>7, <1>8, <1>9 DEF Next

\* For any replies and checks, no run goes on for ever: QA may reject for ever, and
\* the model may need its repair in every round, but every step uses up some of a
\* natural number (qa/route.py:40, llm.py:464).
THEOREM StepsRunOut == Spec => [](Left \in Nat) /\ [][Left' < Left]_vars
<1>1. RoundInv => Left \in Nat
  BY ToGoOf, DraftConstants DEF RoundInv, Left
<1>2. RoundInv /\ [Next]_vars => RoundInv' /\ [Left' < Left]_vars
  BY StepUsesUp DEF vars, RoundInv
<1> QED BY <1>1, <1>2, RoundInvInitially, PTL DEF Spec
=============================================================================
