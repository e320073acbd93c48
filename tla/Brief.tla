-------------------------------- MODULE Brief --------------------------------
(***************************************************************************)
(* synthesis.py after the write node of ClaimLedger: the brief is drawn    *)
(* from the passed claims read at its start, by three calls to the model,  *)
(* while reviewers may go on correcting claims.  It is stored once and     *)
(* served verbatim.  Nothing that happens here may stop the run.           *)
(***************************************************************************)
EXTENDS ClaimLedger

CONSTANTS Unknown   \* an id that the model makes up

ASSUME UnknownIsNoClaim == Unknown \notin Nat

VARIABLES
  step,      \* where run_synthesis is
  calls,     \* of its three calls, those that have returned
  passed,    \* ids of the passed claims it read
  snapshot,  \* history: how many rows there were then
  payload,   \* cited ids of its analysis and its framing sentences
  withheld,  \* what build_withheld_disclosure returned
  brief,     \* the row of syntheses, or NoBrief
  event      \* synthesis_done, synthesis_empty or none yet

briefVars == <<step, calls, passed, snapshot, payload, withheld, brief, event>>
allVars   == <<vars, briefVars>>

NoPayload == [analysis |-> {}, framing |-> {}]
NoBrief   == [analysis |-> {}, framing |-> {}, withheld |-> {}, stored |-> FALSE]

BriefInit == /\ Init
             /\ step = "waiting" /\ calls = 0 /\ passed = {} /\ snapshot = 0
             /\ payload = NoPayload /\ withheld = {}
             /\ brief = NoBrief /\ event = "none"

StatusOf(id) == rows[Latest(id)].status

----------------------------------------------------------------------------
\* Withheld, taken for the status that a reviewer's rejection leaves.
WithheldRejected == {id \in flagged : StatusOf(id) = "rejected"}

\* Of the claims that are not passed, those with issues in the last QA round.
WithheldNow == {id \in flagged : StatusOf(id) # "pass"}

\* The write node has returned.  Without passed claims no call is made.
Start == /\ pc = "done" /\ step = "waiting"
         /\ passed' = {id \in Ids : StatusOf(id) = "pass"}
         /\ snapshot' = Len(rows)
         /\ step' = IF passed' = {} THEN "disclose" ELSE "call"
         /\ UNCHANGED <<calls, payload, withheld, brief, event>>

\* A call returns an object, which overwrites what an earlier one said under the
\* same keys; what is no object adds nothing.  One sentence of each kind stands
\* for all of them.
Call == /\ step = "call" /\ calls < 3
        /\ calls' = calls + 1
        /\ \/ \E cites \in SUBSET (Ids \cup {Unknown}) :
                \/ payload' = [payload EXCEPT !.analysis = {cites}]
                \/ payload' = [payload EXCEPT !.framing = {cites}]
           \/ UNCHANGED payload
        /\ UNCHANGED <<step, passed, snapshot, withheld, brief, event>>

\* A call, or the projection of what it returned, raises: nothing is stored.
Fail == /\ step = "call"
        /\ step' = "announce"
        /\ UNCHANGED <<calls, passed, snapshot, payload, withheld, brief, event>>

\* A sentence that has some passed claim to its name is kept.
KeepAny(cites, scaffold) == \/ scaffold /\ cites = {}
                            \/ cites \cap passed # {}

\* _keep: every claim it cites is passed; only framing may cite nothing.
Keep(cites, scaffold) == \/ scaffold /\ cites = {}
                         \/ cites # {} /\ cites \subseteq passed

Project == /\ step = "call" /\ calls = 3
           /\ payload' = [analysis |-> {s \in payload.analysis : Keep(s, FALSE)},
                          framing  |-> {s \in payload.framing : Keep(s, TRUE)}]
           /\ step' = "disclose"
           /\ UNCHANGED <<calls, passed, snapshot, withheld, brief, event>>

\* build_withheld_disclosure reads the tables again.
Disclose == /\ step = "disclose"
            /\ withheld' = WithheldNow
            /\ step' = "store"
            /\ UNCHANGED <<calls, passed, snapshot, payload, brief, event>>

\* The disclosure itself fails: it is left out, and the brief kept.
DiscloseFails == /\ step = "disclose"
                 /\ withheld' = {Unknown}
                 /\ step' = "store"
                 /\ UNCHANGED <<calls, passed, snapshot, payload, brief, event>>

\* append_synthesis; with nothing passed and nothing withheld there is no row.
Store == /\ step = "store"
         /\ brief' = IF passed = {} /\ withheld \ {Unknown} = {} THEN brief
                     ELSE [analysis |-> payload.analysis, framing |-> payload.framing,
                           withheld |-> withheld, stored |-> TRUE]
         /\ step' = "announce"
         /\ UNCHANGED <<calls, passed, snapshot, payload, withheld, event>>

\* The node reads back what was stored; framing alone is no brief.
Announce == /\ step = "announce"
            /\ event' = IF brief.analysis # {} THEN "done" ELSE "empty"
            /\ step' = "over"
            /\ UNCHANGED <<calls, passed, snapshot, payload, withheld, brief>>

Synthesis == Start \/ Call \/ Fail \/ Project \/ Disclose \/ DiscloseFails \/ Store \/ Announce

Ledger == Next /\ UNCHANGED briefVars

BriefNext == \/ Ledger
             \/ Synthesis /\ UNCHANGED vars

BriefSpec == BriefInit /\ [][BriefNext]_allVars

----------------------------------------------------------------------------
Cited == UNION (brief.analysis \cup brief.framing)

BriefTypeOK ==
  /\ step \in {"waiting", "call", "disclose", "store", "announce", "over"}
  /\ calls \in 0..3 /\ passed \subseteq Ids /\ snapshot \in 0..Len(rows)
  /\ \A s \in payload.analysis \cup payload.framing : s \subseteq Ids \cup {Unknown}
  /\ withheld \subseteq Ids \cup {Unknown}
  /\ brief.stored \in BOOLEAN
  /\ event \in {"none", "done", "empty"} /\ (event # "none" <=> step = "over")

\* Every claim that the stored brief cites is in the report, unless a reviewer
\* has taken it out since the synthesis began: it never cites a made-up id, a
\* draft, or what a reviewer had rejected before.
StaleOnlyByReview ==
  \A id \in Cited :
     /\ id \in Ids
     /\ StatusOf(id) # "pass" => /\ Latest(id) > snapshot
                                 /\ rows[Latest(id)].writer = "reviewer"

\* A partial run is not silent: where a row of the synthesis exists, whatever
\* the last QA round flagged is in its disclosure, or was passed by a reviewer, or
\* the disclosure has failed.
NotSilent ==
  brief.stored /\ Unknown \notin brief.withheld =>
     \A id \in flagged \ brief.withheld :
        \E i \in RowsOf(id) : rows[i].writer = "reviewer" /\ rows[i].status = "pass"
=============================================================================
