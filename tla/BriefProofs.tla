------------------------------ MODULE BriefProofs ------------------------------
(***************************************************************************)
(* Theorems about Brief for any number of tasks, rounds and corrections:   *)
(* what a stored brief says was true when the synthesis began, and what    *)
(* has happened to it since is a reviewer's doing.                         *)
(***************************************************************************)
EXTENDS Brief, ClaimLedgerProofs

PassedByReview(id) ==
  \E i \in RowsOf(id) : rows[i].writer = "reviewer" /\ rows[i].status = "pass"

\* The claim is passed, or a reviewer has changed that since the synthesis began.
OutOnlyByReview(id) ==
  StatusOf(id) # "pass" => /\ Latest(id) > snapshot
                           /\ rows[Latest(id)].writer = "reviewer"

\* The pipeline has passed the claim: it does so in its last stage, and never
\* what QA flagged.
MayBePassed(id) == pc \in {"promote", "done", "failed"} /\ id \notin flagged

\* So whatever row says that a flagged claim is passed, a reviewer wrote.
FlaggedInv ==
  /\ flagged \subseteq Ids
  /\ \A i \in DOMAIN rows : rows[i].status = "pass" =>
        rows[i].writer = "reviewer" \/ MayBePassed(rows[i].id)
  /\ pc = "promote" => \A k \in DOMAIN promote : rows[promote[k]].id \notin flagged

\* The brief cites passed claims only, at every step that may store it.
CitesPassed ==
  /\ step = "waiting" => payload = NoPayload /\ brief = NoBrief /\ passed = {}
  /\ step # "waiting" => pc = "done"
  /\ snapshot \in Nat /\ snapshot <= Len(rows)
  /\ \A id \in passed : id \in Ids /\ OutOnlyByReview(id)
  /\ step \in {"disclose", "store"} =>
       \A s \in payload.analysis \cup payload.framing : s \subseteq passed
  /\ Cited \subseteq passed

Disclosed(w) == Unknown \notin w => \A id \in flagged \ w : PassedByReview(id)

Discloses == /\ step = "store" => Disclosed(withheld)
             /\ brief.stored => Disclosed(brief.withheld)

BriefInv == LedgerInv /\ FlaggedInv /\ CitesPassed /\ Discloses

----------------------------------------------------------------------------
\* What QA flagged, and who has passed it.

LEMMA ReviewedStays ==
  ASSUME IsTable(rows), NEW r, Grows(r)
  PROVE  \A id : PassedByReview(id) => PassedByReview(id)'
<1>1. /\ DOMAIN rows \subseteq DOMAIN rows'
      /\ \A i \in DOMAIN rows : rows'[i] = rows[i]
  BY OneRowMore
<1> QED BY <1>1 DEF PassedByReview, RowsOf

\* What leaves the table as it is.
LEMMA NothingInserted ==
  ASSUME rows' = rows
  PROVE  /\ Ids' = Ids
         /\ \A id : /\ Latest(id)' = Latest(id) /\ StatusOf(id)' = StatusOf(id)
                    /\ PassedByReview(id)' = PassedByReview(id)
BY DEF PassedByReview, RowsOf, Ids, Latest, Highest, StatusOf

\* Another claim is shown as before.
LEMMA OthersAsBefore ==
  ASSUME IsTable(rows), NEW r, Grows(r), NEW id \in Ids, id # r.id
  PROVE  /\ Latest(id)' = Latest(id) /\ rows'[Latest(id)'] = rows[Latest(id)]
         /\ StatusOf(id)' = StatusOf(id)
<1>1. Latest(id)' = Latest(id) /\ Latest(id) \in DOMAIN rows
  BY OthersStay, LatestIsTop
<1>2. rows'[Latest(id)'] = rows[Latest(id)]
  BY <1>1, OneRowMore
<1> QED BY <1>1, <1>2 DEF StatusOf

\* A row is inserted that says "pass" only as a reviewer's, or of what QA let go.
LEMMA FlaggedGrows ==
  ASSUME LedgerInv, FlaggedInv, NEW r, Grows(r), UNCHANGED <<promote, flagged>>,
         pc' = pc \/ (pc' = "analyze" /\ pc = "append"),
         r.status = "pass" => r.writer = "reviewer" \/ MayBePassed(r.id)
  PROVE  FlaggedInv'
<1>1. /\ DOMAIN rows = 1 .. Len(rows) /\ DOMAIN rows' = 1 .. (Len(rows) + 1)
      /\ Len(rows) \in Nat /\ rows'[Len(rows) + 1] = r
      /\ \A i \in DOMAIN rows : rows'[i] = rows[i]
  BY OneRowMore DEF LedgerInv, TableInv
<1>2. flagged' \subseteq Ids'
  BY SetsGrow DEF FlaggedInv, LedgerInv, TableInv
<1>3. \A id : MayBePassed(id) => MayBePassed(id)'
  BY DEF MayBePassed
<1>4. ASSUME NEW i \in DOMAIN rows', rows'[i].status = "pass", NEW id, id = rows'[i].id
      PROVE  rows'[i].writer = "reviewer" \/ MayBePassed(id)'
  <2>1. CASE i \in DOMAIN rows
    BY <1>1, <1>3, <1>4, <2>1 DEF FlaggedInv
  <2>2. CASE i = Len(rows) + 1
    BY <1>1, <1>3, <1>4, <2>2
  <2> QED BY <1>1, <2>1, <2>2
<1>5. pc' = "promote" => \A k \in DOMAIN promote' : rows'[promote'[k]].id \notin flagged'
  BY <1>1 DEF FlaggedInv, LedgerInv, HeldPromotions
<1> QED BY <1>2, <1>4, <1>5 DEF FlaggedInv, MayBePassed

\* The list of promotions has no flagged claim.
LEMMA StartWritePassesOver ==
  ASSUME LedgerInv, FlaggedInv, StartWrite
  PROVE  FlaggedInv'
<1>1. PICK order \in InRowOrder(Passed) :
        promote' = [k \in DOMAIN order |-> Latest(order[k])]
  BY DEF StartWrite
<1>2. rows' = rows /\ pc' = "promote" /\ pc = "route" /\ flagged' = flagged
  BY DEF StartWrite
<1>3. Passed \subseteq Ids /\ Passed \cap flagged = {}
  BY <1>2 DEF Passed, LedgerInv, Judged
<1>4. order \in [1 .. Cardinality(Passed) -> Passed]
  BY DEF InRowOrder
<1>5. \A k \in DOMAIN promote' : rows[promote'[k]].id \notin flagged
  <2> SUFFICES ASSUME NEW k \in DOMAIN order PROVE rows[Latest(order[k])].id \notin flagged
    BY <1>1
  <2>1. order[k] \in Passed
    BY <1>4
  <2>2. rows[Latest(order[k])].id = order[k]
    BY <1>3, <2>1, LatestIsNotOutbid DEF LedgerInv, TableInv
  <2> QED BY <1>3, <2>1, <2>2
<1> QED BY <1>2, <1>5, NothingInserted DEF FlaggedInv, MayBePassed

LEMMA FlaggedKeeps ==
  ASSUME LedgerInv, FlaggedInv, [Next]_vars
  PROVE  FlaggedInv'
<1>1. CASE AppendDraft
  <2>1. PICK r : Inserts(r) /\ r.status = "draft"
    BY <1>1, AppendDraftInserts
  <2> QED BY <1>1, <2>1, FlaggedGrows DEF AppendDraft, Inserts
<1>2. CASE Promote
  <2>1. PICK r : Inserts(r) /\ r.id = rows[promote[at]].id
    BY <1>2, PromoteInserts
  <2>2. MayBePassed(r.id)
    BY <1>2, <2>1, PromoteInserts DEF Promote, FlaggedInv, MayBePassed
  <2> QED BY <1>2, <2>1, <2>2, FlaggedGrows DEF Promote, Inserts
<1>3. CASE \E id \in Ids : Correct(id)
  <2>1. PICK id \in Ids : Correct(id)
    BY <1>3
  <2>2. PICK r : Inserts(r) /\ r.writer = "reviewer"
    BY <2>1, CorrectInserts
  <2> QED BY <2>1, <2>2, FlaggedGrows DEF Correct, Inserts
<1>4. CASE StartWrite
  BY <1>4, StartWritePassesOver
<1>5. CASE Qa
  <2>1. rows' = rows /\ pc' = "route" /\ pc = "analyze" /\ flagged' \subseteq Ids
    BY <1>5 DEF Qa
  <2> QED BY <2>1, NothingInserted DEF FlaggedInv, MayBePassed
<1>6. CASE SkipTask \/ ReadTarget \/ Revise \/ FinishWrite \/ Abort \/ UNCHANGED vars
  <2>1. /\ UNCHANGED <<rows, promote, flagged>>
        /\ \/ pc' = pc
           \/ pc' \in {"analyze", "append"} /\ pc \in {"analyze", "route"}
           \/ pc' \in {"done", "failed"}
    BY <1>6 DEF SkipTask, ReadTarget, Revise, FinishWrite, Abort, vars
  <2> QED BY <2>1, NothingInserted DEF FlaggedInv, MayBePassed
<1> QED BY <1>1, <1>2, <1>3, <1>4, <1>5, <1>6 DEF Next

\* A flagged claim that is shown as passed: the row that shows it is a reviewer's.
LEMMA PassesAreReviews ==
  ASSUME LedgerInv, FlaggedInv, NEW id \in flagged, StatusOf(id) = "pass"
  PROVE  PassedByReview(id)
<1>1. Latest(id) \in DOMAIN rows /\ rows[Latest(id)].id = id
  BY LatestIsNotOutbid DEF FlaggedInv, LedgerInv, TableInv
<1> QED BY <1>1 DEF FlaggedInv, MayBePassed, StatusOf, PassedByReview, RowsOf

----------------------------------------------------------------------------
\* The synthesis, and the corrections meanwhile.

LEMMA BriefInitHolds == BriefInit => BriefInv
<1> SUFFICES ASSUME BriefInit PROVE BriefInv
  OBVIOUS
<1>1. Init /\ rows = <<>> /\ pc = "analyze"
  BY DEF BriefInit, Init
<1>2. FlaggedInv
  BY <1>1 DEF Init, FlaggedInv
<1>3. CitesPassed /\ Discloses
  BY <1>1 DEF BriefInit, CitesPassed, Discloses, Cited, NoBrief
<1> QED BY <1>1, <1>2, <1>3, InitHolds DEF BriefInv

LEMMA OutStaysOut ==
  ASSUME LedgerInv, snapshot \in Nat, snapshot <= Len(rows), snapshot' = snapshot,
         NEW c \in Ids, Correct(c), NEW id \in Ids, OutOnlyByReview(id)
  PROVE  id \in Ids' /\ OutOnlyByReview(id)'
<1>1. PICK r : /\ Inserts(r) /\ r.id = c /\ r.writer = "reviewer"
               /\ r.ver = rows[Latest(c)].ver + 1
  BY CorrectInserts
<1>2. Grows(r) /\ IsTable(rows)
  BY <1>1 DEF Inserts, LedgerInv, TableInv
<1>3. CASE id = c
  <2>1. Latest(id)' = Len(rows') /\ rows'[Len(rows')] = r /\ Len(rows') > Len(rows)
        /\ Len(rows) \in Nat /\ Len(rows') \in Nat
    BY <1>1, <1>2, <1>3, InsertedIsShown, OneRowMore
  <2> QED BY <1>1, <1>2, <2>1, SetsGrow DEF OutOnlyByReview
<1>4. CASE id # c
  BY <1>1, <1>2, <1>4, OthersAsBefore, SetsGrow DEF OutOnlyByReview
<1> QED BY <1>3, <1>4

LEMMA LedgerKeeps ==
  ASSUME BriefInv, Next, UNCHANGED briefVars
  PROVE  CitesPassed' /\ Discloses'
<1>1. /\ UNCHANGED <<step, passed, snapshot, payload, withheld, brief>> /\ Cited' = Cited
      /\ LedgerInv /\ CitesPassed /\ IsTable(rows)
  BY DEF briefVars, BriefInv, Cited, LedgerInv, TableInv
<1>2. CASE step = "waiting"
  <2>1. rows' = rows \/ \E r : Grows(r)
    BY <1>1, AppendDraftInserts, PromoteInserts, CorrectInserts
    DEF Inserts, Next, SkipTask, ReadTarget, Qa, Revise, StartWrite, FinishWrite, Abort
  <2>2. snapshot <= Len(rows')
    <3>1. CASE rows' = rows
      BY <1>1, <3>1 DEF CitesPassed
    <3>2. CASE \E r : Grows(r)
      <4>1. Len(rows) \in Nat /\ Len(rows') = Len(rows) + 1
        BY <1>1, <3>2, OneRowMore
      <4> QED BY <1>1, <4>1 DEF CitesPassed
    <3> QED BY <2>1, <3>1, <3>2
  <2>3. CitesPassed'
    BY <1>1, <1>2, <2>2 DEF CitesPassed
  <2>4. Discloses'
    BY <1>1, <1>2 DEF CitesPassed, Discloses, NoBrief
  <2> QED BY <2>3, <2>4
<1>3. CASE step # "waiting"
  <2>1. pc = "done"
    BY <1>1, <1>3 DEF CitesPassed
  <2>2. PICK c \in Ids : Correct(c)
    BY <2>1 DEF Next, SkipTask, ReadTarget, AppendDraft, Qa, Revise, StartWrite, Promote,
                FinishWrite, Abort
  <2>3. PICK r : Grows(r) /\ pc' = pc /\ flagged' = flagged
    BY <1>1, <2>2, CorrectInserts DEF Correct, Inserts
  <2>4. Len(rows) \in Nat /\ Len(rows') = Len(rows) + 1
    BY <1>1, <2>3, OneRowMore
  <2>5. snapshot \in Nat /\ snapshot <= Len(rows) /\ snapshot <= Len(rows')
    BY <1>1, <2>4 DEF CitesPassed
  <2>6. \A id \in passed : id \in Ids' /\ OutOnlyByReview(id)'
    BY <1>1, <2>2, <2>5, OutStaysOut DEF CitesPassed
  <2>7. CitesPassed'
    BY <1>1, <1>3, <2>1, <2>3, <2>5, <2>6 DEF CitesPassed
  <2>8. \A id : PassedByReview(id) => PassedByReview(id)'
    BY <1>1, <2>3, ReviewedStays
  <2>9. Discloses'
    BY <1>1, <2>3, <2>8 DEF BriefInv, Discloses, Disclosed
  <2> QED BY <2>7, <2>9
<1> QED BY <1>2, <1>3

LEMMA StartKeeps ==
  ASSUME BriefInv, Start, UNCHANGED vars
  PROVE  CitesPassed' /\ Discloses'
<1>1. /\ step = "waiting" /\ step' \in {"disclose", "call"} /\ pc = "done" /\ pc' = pc
      /\ passed' = {id \in Ids : StatusOf(id) = "pass"} /\ snapshot' = Len(rows)
      /\ rows' = rows /\ UNCHANGED <<payload, brief, withheld>>
  BY DEF Start, vars
<1>2. payload = NoPayload /\ brief = NoBrief /\ Len(rows) \in Nat
  BY <1>1, TableHasRows DEF BriefInv, CitesPassed, LedgerInv, TableInv
<1>3. \A id \in passed' : id \in Ids' /\ OutOnlyByReview(id)'
  BY <1>1, NothingInserted DEF OutOnlyByReview
<1>4. Cited' = {}
  BY <1>1, <1>2 DEF Cited, NoBrief
<1>5. CitesPassed'
  BY <1>1, <1>2, <1>3, <1>4 DEF CitesPassed, NoPayload
<1>6. Discloses'
  BY <1>1, <1>2 DEF Discloses, NoBrief
<1> QED BY <1>5, <1>6

\* The table and what QA flagged stay as they are.
LEMMA LedgerStands ==
  ASSUME BriefInv, UNCHANGED <<vars, passed, snapshot>>
  PROVE  /\ \A id \in passed' : id \in Ids' /\ OutOnlyByReview(id)'
         /\ \A w : Disclosed(w)' = Disclosed(w)
         /\ snapshot' \in Nat /\ snapshot' <= Len(rows')
<1>1. rows' = rows /\ flagged' = flagged /\ passed' = passed /\ snapshot' = snapshot
  BY DEF vars
<1>2. \A id \in passed' : id \in Ids' /\ OutOnlyByReview(id)'
  BY <1>1, NothingInserted DEF BriefInv, CitesPassed, OutOnlyByReview
<1>3. \A w : Disclosed(w)' = Disclosed(w)
  BY <1>1, NothingInserted DEF Disclosed
<1> QED BY <1>1, <1>2, <1>3 DEF BriefInv, CitesPassed

LEMMA SynthesisKeeps ==
  ASSUME BriefInv, Call \/ Fail \/ Project \/ Disclose \/ DiscloseFails \/ Store \/ Announce,
         UNCHANGED vars
  PROVE  CitesPassed' /\ Discloses'
<1>1. UNCHANGED <<vars, passed, snapshot>> /\ step # "waiting" /\ step' # "waiting"
      /\ CitesPassed /\ Discloses
  BY DEF BriefInv, Call, Fail, Project, Disclose, DiscloseFails, Store, Announce
<1>2. /\ \A id \in passed' : id \in Ids' /\ OutOnlyByReview(id)'
      /\ \A w : Disclosed(w)' = Disclosed(w)
      /\ snapshot' \in Nat /\ snapshot' <= Len(rows') /\ pc' = "done"
      /\ passed' = passed
  BY <1>1, LedgerStands DEF CitesPassed, vars
<1>3. CASE Call \/ Fail \/ Announce
  <2>1. step' \notin {"disclose", "store"} /\ brief' = brief /\ Cited' = Cited
    BY <1>3 DEF Call, Fail, Announce, Cited
  <2> QED BY <1>1, <1>2, <2>1 DEF CitesPassed, Discloses
<1>4. CASE Project
  <2>1. /\ step' = "disclose" /\ brief' = brief /\ Cited' = Cited
        /\ \A s \in payload'.analysis \cup payload'.framing : s \subseteq passed
    BY <1>4 DEF Project, Cited, Keep
  <2> QED BY <1>1, <1>2, <2>1 DEF CitesPassed, Discloses
<1>5. CASE Disclose
  <2>1. /\ step = "disclose" /\ step' = "store" /\ brief' = brief /\ payload' = payload
        /\ Cited' = Cited /\ withheld' = WithheldNow
    BY <1>5 DEF Disclose, Cited
  <2>2. \A id \in flagged : StatusOf(id) = "pass" => PassedByReview(id)
    BY PassesAreReviews DEF BriefInv
  <2>3. Disclosed(withheld')
    BY <2>1, <2>2 DEF Disclosed, WithheldNow
  <2> QED BY <1>1, <1>2, <2>1, <2>3 DEF CitesPassed, Discloses
<1>6. CASE DiscloseFails
  <2>1. /\ step = "disclose" /\ step' = "store" /\ brief' = brief /\ payload' = payload
        /\ Cited' = Cited /\ withheld' = {Unknown}
    BY <1>6 DEF DiscloseFails, Cited
  <2>2. Disclosed(withheld')
    BY <2>1 DEF Disclosed
  <2> QED BY <1>1, <1>2, <2>1, <2>2 DEF CitesPassed, Discloses
<1>7. CASE Store
  <2>1. /\ step = "store" /\ step' = "announce"
        /\ \/ brief' = brief
           \/ brief' = [analysis |-> payload.analysis, framing |-> payload.framing,
                        withheld |-> withheld, stored |-> TRUE]
    BY <1>7 DEF Store
  <2>2. Cited' \subseteq passed
    BY <1>1, <2>1 DEF Cited, CitesPassed
  <2>3. brief'.stored => Disclosed(brief'.withheld)
    BY <1>1, <2>1 DEF Discloses
  <2> QED BY <1>1, <1>2, <2>1, <2>2, <2>3 DEF CitesPassed, Discloses
<1> QED BY <1>3, <1>4, <1>5, <1>6, <1>7

LEMMA BriefInvAlways == BriefSpec => []BriefInv
<1>1. BriefInv /\ [BriefNext]_allVars => BriefInv'
  <2> SUFFICES ASSUME BriefInv, [BriefNext]_allVars PROVE BriefInv'
    OBVIOUS
  <2>1. [Next]_vars
    BY DEF BriefNext, Ledger, allVars
  <2>2. LedgerInv' /\ FlaggedInv'
    BY <2>1, LedgerStep, FlaggedKeeps DEF BriefInv
  <2>3. CASE Ledger
    BY <2>2, <2>3, LedgerKeeps DEF Ledger, BriefInv
  <2>4. CASE Synthesis /\ UNCHANGED vars
    BY <2>2, <2>4, StartKeeps, SynthesisKeeps DEF Synthesis, BriefInv
  <2>5. CASE UNCHANGED allVars
    <3>1. UNCHANGED <<vars, passed, snapshot>> /\ pc' = pc
          /\ UNCHANGED <<step, payload, brief, withheld>> /\ Cited' = Cited
      BY <2>5 DEF allVars, briefVars, vars, Cited
    <3>2. CitesPassed' /\ Discloses'
      BY <3>1, LedgerStands DEF BriefInv, CitesPassed, Discloses
    <3> QED BY <2>2, <3>2 DEF BriefInv
  <2> QED BY <2>3, <2>4, <2>5 DEF BriefNext
<1> QED BY <1>1, BriefInitHolds, PTL DEF BriefSpec

\* Whatever the model answers and whenever a reviewer corrects: a claim that the
\* stored brief cites exists and was passed when the synthesis began, and only a
\* correction since then can have taken it out of the report.
THEOREM BriefCitesTheReport == BriefSpec => []StaleOnlyByReview
<1>1. BriefInv => StaleOnlyByReview
  BY DEF BriefInv, CitesPassed, OutOnlyByReview, StaleOnlyByReview
<1> QED BY <1>1, BriefInvAlways, PTL

\* A stored row of the synthesis discloses all that the last QA round flagged, but
\* for what a reviewer has passed, unless the disclosure itself has failed.
THEOREM PartialRunIsDisclosed == BriefSpec => []NotSilent
<1>1. BriefInv => NotSilent
  BY DEF BriefInv, Discloses, Disclosed, PassedByReview, NotSilent
<1> QED BY <1>1, BriefInvAlways, PTL
=============================================================================
