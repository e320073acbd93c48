---------------------------- MODULE ClaimLedger ----------------------------
(***************************************************************************)
(* The append-only claims table of one run and its two writers: the        *)
(* pipeline thread (analyze, write of graph_nodes.py) and the reviewer     *)
(* endpoint of api.py, which may be called at any moment of a run.         *)
(*                                                                         *)
(* One action is one window of _WRITE_LOCK.  A draft and a promotion take  *)
(* two: the row to supersede is read in one and the new row is inserted in *)
(* another.  A correction takes one.  Reading and inserting are therefore  *)
(* separate actions of the pipeline, and a correction can fall in between. *)
(***************************************************************************)
EXTENDS Integers, Sequences, FiniteSets

CONSTANTS NumTasks,        \* the run's tasks are 1..NumTasks, in this order
          Cap,             \* MINGJING_REVISE_CAP
          MaxCorrections   \* bound of the model: corrections by reviewers

ASSUME SmallLedger == /\ NumTasks \in Nat \ {0}
                      /\ Cap \in Nat /\ MaxCorrections \in Nat

Tasks == 1..NumTasks

VARIABLES
  rows,      \* the claims table in insertion order (rowid_pk)
  pc,        \* what the pipeline thread does next
  at,        \* position in the task list, or in the list of promotions
  draft,     \* id and version that build_claim took from supersede_target
  promote,   \* row numbers of the passed claims that write read
  round,     \* RunState.revision_round
  verdict,   \* verdict of the last QA round
  flagged    \* ids whose qc_report of the last QA round has issues

vars == <<rows, pc, at, draft, promote, round, verdict, flagged>>

\* A row of the table.  flawed: a QA rule finds an issue in it.  writer and base
\* are no columns: which of the two writers inserted the row, and the row that
\* it had read to supersede (0: none).
Row(task, id, ver, status, by, flawed, writer, base) ==
  [task |-> task, id |-> id, ver |-> ver, status |-> status, by |-> by,
   flawed |-> flawed, writer |-> writer, base |-> base]

NoDraft == [id |-> 0, ver |-> 0, base |-> 0]
Human   == "human:correction"

----------------------------------------------------------------------------
Ids          == {rows[i].id : i \in DOMAIN rows}
RowsOf(id)   == {i \in DOMAIN rows : rows[i].id = id}
RowsAbout(t) == {i \in DOMAIN rows : rows[i].task = t}

\* The tie-break, mutated: of equal versions the last inserted wins.
LastHighest(S) == CHOOSE i \in S : \A j \in S :
                    rows[i].ver > rows[j].ver \/ (rows[i].ver = rows[j].ver /\ i >= j)

\* The highest version; of equal ones the row inserted first.  This is what
\* the strict > of latest_claims_for_run, the max of supersede_target and
\* SQLite's ORDER BY version DESC LIMIT 1 all return.
Highest(S) == CHOOSE i \in S : \A j \in S :
                rows[i].ver > rows[j].ver \/ (rows[i].ver = rows[j].ver /\ i <= j)

Latest(id) == Highest(RowsOf(id))

\* append_superseding_claim, mutated: ORDER BY version without DESC.
OldestRow(id) == CHOOSE i \in RowsOf(id) : \A j \in RowsOf(id) :
                   rows[i].ver < rows[j].ver \/ (rows[i].ver = rows[j].ver /\ i <= j)

\* The row that append_superseding_claim reads.
FreshLatest(id) == Latest(id)

\* supersede_target, mutated: of the latest rows only the analyst's are searched.
SupersedeTargetOfMachine(t) ==
  LET S == {i \in RowsAbout(t) : i = Latest(rows[i].id) /\ rows[i].by # Human}
  IN IF S = {} THEN [id |-> Cardinality(Ids) + 1, ver |-> 1, base |-> 0]
     ELSE LET i == Highest(S)
          IN [id |-> rows[i].id, ver |-> rows[i].ver + 1, base |-> i]

\* supersede_target, mutated: the version is the one that is there.
SupersedeTargetSameVersion(t) ==
  IF RowsAbout(t) = {} THEN [id |-> Cardinality(Ids) + 1, ver |-> 1, base |-> 0]
  ELSE LET i == Highest(RowsAbout(t))
       IN [id |-> rows[i].id, ver |-> rows[i].ver, base |-> i]

\* supersede_target: the id to reuse and the next version; else a fresh id.
SupersedeTarget(t) ==
  IF RowsAbout(t) = {} THEN [id |-> Cardinality(Ids) + 1, ver |-> 1, base |-> 0]
  ELSE LET i == Highest(RowsAbout(t))
       IN [id |-> rows[i].id, ver |-> rows[i].ver + 1, base |-> i]

\* Ids in the order of their first row, as latest_claims_for_run lists them.
FirstRow(id) == CHOOSE i \in RowsOf(id) : \A j \in RowsOf(id) : i <= j
Before(a, b) == FirstRow(a) < FirstRow(b)
InRowOrder(S) ==
  {order \in [1..Cardinality(S) -> S] :
     \A k, l \in DOMAIN order : k < l => Before(order[k], order[l])}

----------------------------------------------------------------------------
Init == /\ rows = <<>>
        /\ pc = "analyze" /\ at = 1
        /\ draft = NoDraft /\ promote = <<>>
        /\ round = 0 /\ verdict = "pass" /\ flagged = {}

\* No sources, the analyst raised, or its payload was unusable.
SkipTask == /\ pc = "analyze" /\ at <= NumTasks
            /\ at' = at + 1
            /\ UNCHANGED <<rows, pc, draft, promote, round, verdict, flagged>>

\* build_claim reads the table last, after the analyst has answered.
ReadTarget == /\ pc = "analyze" /\ at <= NumTasks
              /\ draft' = SupersedeTarget(at)
              /\ pc' = "append"
              /\ UNCHANGED <<rows, at, promote, round, verdict, flagged>>

AppendDraft == /\ pc = "append"
               /\ \E flawed \in BOOLEAN :
                    rows' = Append(rows, Row(at, draft.id, draft.ver, "draft",
                                             "analyst", flawed, "pipeline",
                                             draft.base))
               /\ draft' = NoDraft
               /\ at' = at + 1
               /\ pc' = "analyze"
               /\ UNCHANGED <<promote, round, verdict, flagged>>

\* qa reads the latest rows once.  Low coverage may reject a clean set.
Qa == /\ pc = "analyze" /\ at > NumTasks
      /\ flagged' = {id \in Ids : rows[Latest(id)].flawed}
      /\ verdict' \in IF flagged' = {} THEN {"pass", "reject"} ELSE {"reject"}
      /\ pc' = "route"
      /\ UNCHANGED <<rows, at, draft, promote, round>>

Revise == /\ pc = "route" /\ verdict = "reject" /\ round < Cap
          /\ round' = round + 1
          /\ at' = 1
          /\ pc' = "analyze"
          /\ UNCHANGED <<rows, draft, promote, verdict, flagged>>

\* The partial path, mutated: what QA flagged is passed too.
PassedAll == Ids

Passed == IF verdict = "pass" THEN Ids ELSE Ids \ flagged

\* write reads the latest rows; a reject gets here at the cap, or when the
\* budget is spent.
StartWrite == /\ pc = "route"
              /\ \E order \in InRowOrder(Passed) :
                   promote' = [k \in DOMAIN order |-> Latest(order[k])]
              /\ at' = 1
              /\ pc' = "promote"
              /\ UNCHANGED <<rows, draft, round, verdict, flagged>>

\* A copy of the row that was read, one version up, status pass.
Promote == /\ pc = "promote" /\ at <= Len(promote)
           /\ LET r == rows[promote[at]]
              IN rows' = Append(rows, [r EXCEPT !.ver = @ + 1, !.status = "pass",
                                       !.writer = "pipeline", !.base = promote[at]])
           /\ at' = at + 1
           /\ UNCHANGED <<pc, draft, promote, round, verdict, flagged>>

FinishWrite == /\ pc = "promote" /\ at > Len(promote)
               /\ pc' = "done"
               /\ UNCHANGED <<rows, at, draft, promote, round, verdict, flagged>>

\* An exception escapes a node, or the process stops.
Abort == /\ pc \notin {"done", "failed"}
         /\ pc' = "failed"
         /\ UNCHANGED <<rows, at, draft, promote, round, verdict, flagged>>

Corrections == Cardinality({i \in DOMAIN rows : rows[i].writer = "reviewer"})

\* POST .../correct: read the latest row, overlay the delta and insert, in one
\* lock window.  Accept and reject keep the content; an edit may mend or mar it.
Correct(id) ==
  LET i == FreshLatest(id)
      Insert(status, flawed) ==
        rows' = Append(rows, [rows[i] EXCEPT !.ver = @ + 1, !.status = status,
                                !.by = Human, !.flawed = flawed,
                                !.writer = "reviewer", !.base = i])
  IN /\ Corrections < MaxCorrections
     /\ \/ Insert("pass", rows[i].flawed)
        \/ Insert("rejected", rows[i].flawed)
        \/ Insert("pass", ~rows[i].flawed)
     /\ UNCHANGED <<pc, at, draft, promote, round, verdict, flagged>>

Next == \/ SkipTask \/ ReadTarget \/ AppendDraft \/ Qa \/ Revise \/ StartWrite
        \/ Promote \/ FinishWrite \/ Abort
        \/ \E id \in Ids : Correct(id)

Spec == Init /\ [][Next]_vars

----------------------------------------------------------------------------
MaxRows == NumTasks * (Cap + 2) + MaxCorrections

\* Every variable holds a value of its type (claims table, db/_base.py).
TypeOK ==
  /\ Len(rows) <= MaxRows
  /\ \A i \in DOMAIN rows :
       rows[i] \in [task : Tasks, id : 1..NumTasks, ver : 1..MaxRows,
                   status : {"draft", "pass", "rejected"}, by : {"analyst", Human},
                   flawed : BOOLEAN, writer : {"pipeline", "reviewer"},
                   base : 0..(i - 1)]
  /\ pc \in {"analyze", "append", "route", "promote", "done", "failed"}
  /\ at \in 1..(NumTasks + 1)
  /\ draft \in [id : 0..NumTasks, ver : 0..MaxRows, base : 0..MaxRows]
  /\ \A k \in DOMAIN promote : promote[k] \in DOMAIN rows
  /\ round \in 0..Cap
  /\ verdict \in {"pass", "reject"}
  /\ flagged \subseteq Ids

\* A task is one claim for the whole run, whoever wrote to it in between: the
\* id that build_claim reuses is the id of every row about the task.
OneIdPerTask ==
  \A i, j \in DOMAIN rows : rows[i].task = rows[j].task <=> rows[i].id = rows[j].id

\* Two rows can end up with one version, because the pipeline reads and inserts
\* in two windows, but then the first is a correction and the second is the
\* pipeline's: no two corrections and no two pipeline rows ever collide.
CollisionsAreStaleWrites ==
  \A i, j \in DOMAIN rows :
    i < j /\ rows[i].id = rows[j].id /\ rows[i].ver = rows[j].ver
      => rows[i].writer = "reviewer" /\ rows[j].writer = "pipeline"

\* What the report shows as the analyst's own and passed, QA found clean in the
\* round that released it (write node, graph_nodes.py:449-462).
PublishedClean ==
  \A id \in Ids : rows[Latest(id)].status = "pass" /\ rows[Latest(id)].by = "analyst"
                   => ~rows[Latest(id)].flawed

\* A correction is what the readers see as soon as it returns, even where the
\* version numbers before it collide (append_superseding_claim).
CorrectionShows ==
  [][\A id \in Ids : Corrections' > Corrections /\ RowsOf(id)' # RowsOf(id)
       => Latest(id)' = Len(rows')]_vars

\* The row of the last correction of a claim, if there was one.
LastCorrection(id) == {i \in RowsOf(id) : /\ rows[i].writer = "reviewer"
                                          /\ \A j \in RowsOf(id) :
                                               rows[j].writer = "reviewer" => j <= i}

\* "The human is always the final arbiter" (docs/DEFENSE-NARRATIVE.md:127): what
\* a reviewer rejected is not in the report unless a reviewer lets it in again.
RejectionStands ==
  \A id \in Ids : \A i \in LastCorrection(id) :
    rows[i].status = "rejected" => rows[Latest(id)].status # "pass"

\* Readers see a register in which a write based on a version that is no longer
\* shown never shows, although the table has no compare-and-set.
Register == INSTANCE ClaimRegister
              WITH Versions <- 1..MaxRows, Nothing <- 0,
                   visible <- [t \in Tasks |-> IF RowsAbout(t) = {} THEN 0
                                               ELSE Highest(RowsAbout(t))],
                   basis <- [i \in DOMAIN rows |-> rows[i].base]
ImplementsRegister == Register!Spec
=============================================================================
