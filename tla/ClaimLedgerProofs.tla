--------------------------- MODULE ClaimLedgerProofs ---------------------------
(***************************************************************************)
(* Theorems about ClaimLedger for any number of tasks, rounds and          *)
(* corrections.  The two lock windows of the pipeline are the matter: what *)
(* it holds between them may be stale, but only by corrections.            *)
(***************************************************************************)
EXTENDS ClaimLedger, FiniteSetTheorems, WellFoundedInduction, TLAPS

RowType ==
  [task : Tasks, id : Nat, ver : Nat, status : {"draft", "pass", "rejected"},
   by : {"analyst", Human}, flawed : BOOLEAN, writer : {"pipeline", "reviewer"},
   base : Nat]


\* A table that appends have built: a version is never ahead of the row count.
IsTable(f) == f \in Seq(RowType) /\ \A i \in DOMAIN f : f[i].ver <= Len(f)

\* i is what Highest returns of S in the table f.
IsTop(f, i, S) ==
  i \in S /\ \A j \in S : f[i].ver > f[j].ver \/ (f[i].ver = f[j].ver /\ i <= j)

TopOf(f, S) == CHOOSE i \in S : \A j \in S :
                 f[i].ver > f[j].ver \/ (f[i].ver = f[j].ver /\ i <= j)

\* Rows that outbid row i of a claim are corrections.
OutbidByReview(i) ==
  \A j \in DOMAIN rows :
     rows[j].id = rows[i].id /\ rows[j].ver > rows[i].ver => rows[j].writer = "reviewer"

Unflawed(i) == rows[i].by = "analyst" => ~ rows[i].flawed

\* The tables and what the pipeline holds of them.
TableInv ==
  /\ IsTable(rows)
  /\ \E n \in Nat : Ids = 1..n
  /\ OneIdPerTask
  /\ CollisionsAreStaleWrites

\* Between the two windows of a draft: a fresh id while the task has no row, or
\* the successor of a row that only corrections have outbid since.
HeldDraft ==
  pc = "append" =>
    /\ at \in Tasks
    /\ IF RowsAbout(at) = {}
       THEN draft = [id |-> Cardinality(Ids) + 1, ver |-> 1, base |-> 0]
       ELSE /\ draft.base \in RowsAbout(at)
            /\ draft.id = rows[draft.base].id
            /\ draft.ver = rows[draft.base].ver + 1
            /\ OutbidByReview(draft.base)

\* Between the windows of the promotions: one row of each passed claim.
HeldPromotions ==
  /\ promote \in Seq(Nat)
  /\ \A k \in DOMAIN promote : promote[k] \in DOMAIN rows
  /\ pc = "promote" =>
       /\ \A k, l \in DOMAIN promote :
            k # l => rows[promote[k]].id # rows[promote[l]].id
       /\ \A k \in DOMAIN promote :
            Unflawed(promote[k]) /\ (k >= at => OutbidByReview(promote[k]))

\* What QA has not flagged is clean, or a reviewer's.
Judged ==
  pc = "route" =>
    /\ verdict = "pass" => flagged = {}
    /\ \A id \in Ids \ flagged : Unflawed(Latest(id))

CleanWhenPassed == \A i \in DOMAIN rows : rows[i].status = "pass" => Unflawed(i)

LedgerInv == /\ TableInv /\ HeldDraft /\ HeldPromotions /\ Judged /\ CleanWhenPassed
             /\ at \in Nat \ {0}

----------------------------------------------------------------------------
\* The highest version, and of equal ones the row inserted first.

LEMMA Least ==
  ASSUME NEW T, T \subseteq Nat, T # {}
  PROVE  \E x \in T : \A y \in T : x <= y
<1>1. PICK x \in T : \A y \in T : ~ (<<y, x>> \in OpToRel(<, Nat))
  BY NatLessThanWellFounded, WFMin
<1>2. \A y \in T : ~ (y < x)
  BY <1>1 DEF OpToRel
<1> QED BY <1>2

LEMMA TableHasRows ==
  ASSUME NEW f, IsTable(f)
  PROVE  /\ Len(f) \in Nat /\ DOMAIN f = 1 .. Len(f)
         /\ \A i \in DOMAIN f : f[i] \in RowType /\ f[i].ver \in Nat
<1>1. Len(f) \in Nat /\ DOMAIN f = 1 .. Len(f) /\ \A i \in DOMAIN f : f[i] \in RowType
  BY DEF IsTable
<1>2. \A r \in RowType : r.ver \in Nat
  BY DEF RowType
<1> QED BY <1>1, <1>2

\* One row of any claim is shown.
LEMMA TopIsThere ==
  ASSUME NEW f, IsTable(f), NEW S, S \subseteq DOMAIN f, S # {}
  PROVE  IsTop(f, TopOf(f, S), S)
<1> DEFINE n == Len(f)
           room(i) == n - f[i].ver
<1>1. n \in Nat /\ DOMAIN f = 1 .. n
  BY TableHasRows
<1>2. \A i \in S : i \in Nat /\ f[i].ver \in Nat /\ room(i) \in Nat
  BY <1>1, TableHasRows DEF IsTable
<1>3. PICK r \in {room(i) : i \in S} : \A q \in {room(i) : i \in S} : r <= q
  <2>1. {room(i) : i \in S} \subseteq Nat /\ {room(i) : i \in S} # {}
    BY <1>2
  <2> QED BY <2>1, Least
<1> DEFINE best == {i \in S : room(i) = r}
<1>4. PICK h \in best : \A j \in best : h <= j
  <2>1. best \subseteq Nat /\ best # {}
    BY <1>2, <1>3
  <2> QED BY <2>1, Least
<1>5. \A j \in S : f[h].ver > f[j].ver \/ (f[h].ver = f[j].ver /\ h <= j)
  <2> SUFFICES ASSUME NEW j \in S
               PROVE  f[h].ver > f[j].ver \/ (f[h].ver = f[j].ver /\ h <= j)
    OBVIOUS
  <2>1. room(h) = r /\ h \in S /\ r <= room(j)
    BY <1>3, <1>4
  <2>2. CASE room(j) = r
    BY <1>1, <1>2, <1>4, <2>1, <2>2
  <2>3. CASE room(j) # r
    BY <1>1, <1>2, <2>1, <2>3
  <2> QED BY <2>2, <2>3
<1>6. h \in S
  BY <1>4
<1> QED BY <1>5, <1>6 DEF TopOf, IsTop

LEMMA TopIsOne ==
  ASSUME NEW f, IsTable(f), NEW S, S \subseteq DOMAIN f, NEW i, NEW j,
         IsTop(f, i, S), IsTop(f, j, S)
  PROVE  i = j
<1>1. i \in Nat /\ j \in Nat /\ f[i].ver \in Nat /\ f[j].ver \in Nat
  BY TableHasRows DEF IsTop
<1>2. f[i].ver > f[j].ver \/ (f[i].ver = f[j].ver /\ i <= j)
  BY DEF IsTop
<1>3. f[j].ver > f[i].ver \/ (f[j].ver = f[i].ver /\ j <= i)
  BY DEF IsTop
<1> QED BY <1>1, <1>2, <1>3

LEMMA HighestIsTop ==
  ASSUME IsTable(rows), NEW S, S \subseteq DOMAIN rows, S # {}
  PROVE  IsTop(rows, Highest(S), S)
<1>1. Highest(S) = TopOf(rows, S)
  BY DEF Highest, TopOf
<1> QED BY <1>1, TopIsThere

LEMMA LatestIsTop ==
  ASSUME IsTable(rows), NEW id \in Ids
  PROVE  IsTop(rows, Latest(id), RowsOf(id)) /\ Latest(id) \in DOMAIN rows
<1>1. RowsOf(id) \subseteq DOMAIN rows /\ RowsOf(id) # {}
  BY DEF RowsOf, Ids
<1>2. IsTop(rows, Latest(id), RowsOf(id))
  BY <1>1, HighestIsTop DEF Latest
<1> QED BY <1>1, <1>2 DEF IsTop

\* The same after a step.
LEMMA LatestIsTopNext ==
  ASSUME IsTable(rows'), NEW id \in Ids'
  PROVE  IsTop(rows', Latest(id)', RowsOf(id)')
<1>1. RowsOf(id)' \subseteq DOMAIN rows' /\ RowsOf(id)' # {}
  BY DEF RowsOf, Ids
<1>2. Latest(id)' = TopOf(rows', RowsOf(id)')
  BY DEF Latest, Highest, TopOf
<1> QED BY <1>1, <1>2, TopIsThere

----------------------------------------------------------------------------
\* One row more.

Grows(r) == rows' = Append(rows, r) /\ r \in RowType /\ r.ver <= Len(rows) + 1

LEMMA OneRowMore ==
  ASSUME IsTable(rows), NEW r, Grows(r)
  PROVE  /\ IsTable(rows')
         /\ Len(rows) \in Nat /\ Len(rows') = Len(rows) + 1
         /\ DOMAIN rows = 1 .. Len(rows) /\ DOMAIN rows' = 1 .. (Len(rows) + 1)
         /\ rows'[Len(rows) + 1] = r
         /\ \A i \in DOMAIN rows : rows'[i] = rows[i] /\ rows[i] \in RowType
<1> DEFINE n == Len(rows)
<1>1. n \in Nat /\ DOMAIN rows = 1 .. n /\ \A i \in DOMAIN rows : rows[i] \in RowType
  BY TableHasRows
<1>2. rows \in Seq(RowType) /\ r \in RowType /\ rows' = Append(rows, r)
  BY DEF IsTable, Grows
<1>3. /\ rows' \in Seq(RowType) /\ Len(rows') = n + 1 /\ DOMAIN rows' = 1 .. (n + 1)
      /\ rows'[n + 1] = r /\ \A i \in 1 .. n : rows'[i] = rows[i]
  BY <1>2
<1>4. \A i \in DOMAIN rows' : rows'[i].ver <= n + 1
  <2> SUFFICES ASSUME NEW i \in 1 .. (n + 1) PROVE rows'[i].ver <= n + 1
    BY <1>3
  <2>1. CASE i = n + 1
    BY <1>3, <2>1 DEF Grows
  <2>2. CASE i \in 1 .. n
    <3>1. rows[i].ver \in Nat /\ rows[i].ver <= n
      BY <1>1, <2>2, TableHasRows DEF IsTable
    <3> QED BY <1>1, <1>3, <2>2, <3>1
  <2> QED BY <1>1, <2>1, <2>2
<1> QED BY <1>1, <1>3, <1>4 DEF IsTable

LEMMA SetsGrow ==
  ASSUME IsTable(rows), NEW r, Grows(r)
  PROVE  /\ Ids' = Ids \cup {r.id}
         /\ \A id : id # r.id => RowsOf(id)' = RowsOf(id)
         /\ RowsOf(r.id)' = RowsOf(r.id) \cup {Len(rows) + 1}
         /\ \A t : t # r.task => RowsAbout(t)' = RowsAbout(t)
         /\ RowsAbout(r.task)' = RowsAbout(r.task) \cup {Len(rows) + 1}
<1> DEFINE n == Len(rows)
<1>1. /\ n \in Nat /\ DOMAIN rows = 1 .. n /\ DOMAIN rows' = 1 .. (n + 1)
      /\ rows'[n + 1] = r /\ \A i \in 1 .. n : rows'[i] = rows[i]
  BY OneRowMore
<1>2. 1 .. (n + 1) = (1 .. n) \cup {n + 1} /\ n + 1 \notin 1 .. n
  BY <1>1
<1> HIDE DEF n
<1>3. Ids' = Ids \cup {r.id}
  BY <1>1, <1>2 DEF Ids
<1>4. \A id : id # r.id => RowsOf(id)' = RowsOf(id)
  BY <1>1, <1>2 DEF RowsOf
<1>5. RowsOf(r.id)' = RowsOf(r.id) \cup {n + 1}
  BY <1>1, <1>2 DEF RowsOf
<1>6. \A t : t # r.task => RowsAbout(t)' = RowsAbout(t)
  BY <1>1, <1>2 DEF RowsAbout
<1>7. RowsAbout(r.task)' = RowsAbout(r.task) \cup {n + 1}
  BY <1>1, <1>2 DEF RowsAbout
<1> QED BY <1>3, <1>4, <1>5, <1>6, <1>7 DEF n

\* The other claims are shown as before.
LEMMA OthersStay ==
  ASSUME IsTable(rows), NEW r, Grows(r), NEW id \in Ids, id # r.id
  PROVE  Latest(id)' = Latest(id)
<1> DEFINE S == RowsOf(id)
<1>1. S' = S /\ id \in Ids' /\ S \subseteq DOMAIN rows /\ S \subseteq DOMAIN rows'
  <2>1. DOMAIN rows \subseteq DOMAIN rows'
    BY OneRowMore
  <2> QED BY <2>1, SetsGrow DEF RowsOf
<1>2. IsTable(rows') /\ \A i \in S : rows'[i] = rows[i]
  BY <1>1, OneRowMore
<1>3. IsTop(rows, Latest(id), S)
  BY LatestIsTop
<1>4. IsTop(rows', Latest(id)', S)
  BY <1>1, <1>2, LatestIsTopNext
<1> HIDE DEF S
<1>5. IsTop(rows', Latest(id), S)
  BY <1>2, <1>3 DEF IsTop
<1> QED BY <1>1, <1>2, <1>4, <1>5, TopIsOne

----------------------------------------------------------------------------
\* One id per task, and the versions, whichever writer inserts.

\* A row about a task that has rows bears their id; else its id is new.
Fits(r) ==
  \/ \E i \in DOMAIN rows : rows[i].id = r.id /\ rows[i].task = r.task
  \/ RowsAbout(r.task) = {} /\ r.id = Cardinality(Ids) + 1

\* A row of the version of r is a correction, and r is not.
CollidesAsStale(r) ==
  \A i \in DOMAIN rows : rows[i].id = r.id /\ rows[i].ver = r.ver =>
     rows[i].writer = "reviewer" /\ r.writer = "pipeline"

LEMMA TableGrows ==
  ASSUME TableInv, NEW r, Grows(r), Fits(r), CollidesAsStale(r)
  PROVE  TableInv'
<1> DEFINE n == Len(rows)
<1>1. /\ n \in Nat /\ DOMAIN rows = 1 .. n /\ DOMAIN rows' = 1 .. (n + 1)
      /\ rows'[n + 1] = r /\ \A i \in 1 .. n : rows'[i] = rows[i]
      /\ IsTable(rows')
  BY OneRowMore DEF TableInv
<1>2. PICK m \in Nat : Ids = 1 .. m
  BY DEF TableInv
<1>3. Cardinality(Ids) = m
  BY <1>2, FS_Interval
<1>4. Ids' = Ids \cup {r.id}
  BY SetsGrow DEF TableInv
<1>5. \E k \in Nat : Ids' = 1 .. k
  <2>1. CASE r.id \in Ids
    BY <2>1, <1>2, <1>4
  <2>2. CASE r.id \notin Ids
    <3>1. r.id = m + 1
      BY <2>2, <1>3 DEF Fits, Ids
    <3>2. Ids' = 1 .. (m + 1)
      BY <3>1, <1>2, <1>4
    <3> QED BY <3>2
  <2> QED BY <2>1, <2>2
<1>6. \A i \in 1 .. n : rows[i].task = r.task <=> rows[i].id = r.id
  <2> SUFFICES ASSUME NEW i \in 1 .. n
               PROVE  rows[i].task = r.task <=> rows[i].id = r.id
    OBVIOUS
  <2>1. CASE \E k \in DOMAIN rows : rows[k].id = r.id /\ rows[k].task = r.task
    <3>1. PICK k \in DOMAIN rows : rows[k].id = r.id /\ rows[k].task = r.task
      BY <2>1
    <3> QED BY <3>1, <1>1 DEF TableInv, OneIdPerTask
  <2>2. CASE RowsAbout(r.task) = {} /\ r.id = Cardinality(Ids) + 1
    <3>1. rows[i].task # r.task
      BY <2>2, <1>1 DEF RowsAbout
    <3>2. rows[i].id \in 1 .. m
      BY <1>1, <1>2 DEF Ids
    <3> QED BY <3>1, <3>2, <2>2, <1>3
  <2> QED BY <2>1, <2>2 DEF Fits
<1> HIDE DEF n
<1>7. OneIdPerTask'
  <2> SUFFICES ASSUME NEW i \in 1 .. (n + 1), NEW j \in 1 .. (n + 1)
               PROVE  rows'[i].task = rows'[j].task <=> rows'[i].id = rows'[j].id
    BY <1>1 DEF OneIdPerTask
  <2>1. CASE i \in 1 .. n /\ j \in 1 .. n
    BY <1>1, <2>1 DEF TableInv, OneIdPerTask
  <2>2. CASE i \in 1 .. n /\ j = n + 1
    BY <1>1, <1>6, <2>2
  <2>3. CASE i = n + 1 /\ j \in 1 .. n
    BY <1>1, <1>6, <2>3
  <2>4. CASE i = n + 1 /\ j = n + 1
    BY <2>4
  <2> QED BY <1>1, <2>1, <2>2, <2>3, <2>4
<1>8. CollisionsAreStaleWrites'
  <2> SUFFICES ASSUME NEW i \in 1 .. (n + 1), NEW j \in 1 .. (n + 1), i < j,
                      rows'[i].id = rows'[j].id, rows'[i].ver = rows'[j].ver
               PROVE  rows'[i].writer = "reviewer" /\ rows'[j].writer = "pipeline"
    BY <1>1 DEF CollisionsAreStaleWrites
  <2>1. i \in 1 .. n
    BY <1>1
  <2>2. CASE j \in 1 .. n
    BY <1>1, <2>1, <2>2 DEF TableInv, CollisionsAreStaleWrites
  <2>3. CASE j = n + 1
    BY <1>1, <2>1, <2>3 DEF CollidesAsStale
  <2> QED BY <1>1, <2>2, <2>3
<1> QED BY <1>1, <1>5, <1>7, <1>8 DEF TableInv

----------------------------------------------------------------------------
\* The actions that do not insert.

\* The row that is shown has not been outbid.
LEMMA LatestIsNotOutbid ==
  ASSUME IsTable(rows), NEW id \in Ids
  PROVE  /\ Latest(id) \in DOMAIN rows /\ rows[Latest(id)].id = id
         /\ \A j \in DOMAIN rows : rows[j].id = id => rows[j].ver <= rows[Latest(id)].ver
         /\ OutbidByReview(Latest(id))
<1>1. IsTop(rows, Latest(id), RowsOf(id)) /\ Latest(id) \in DOMAIN rows
  BY LatestIsTop
<1>2. rows[Latest(id)].id = id
  BY <1>1 DEF IsTop, RowsOf
<1>3. \A j \in DOMAIN rows : rows[j].id = id => rows[j].ver <= rows[Latest(id)].ver
  BY <1>1, TableHasRows DEF IsTop, RowsOf
<1>4. OutbidByReview(Latest(id))
  BY <1>1, <1>2, <1>3, TableHasRows DEF OutbidByReview
<1> QED BY <1>1, <1>2, <1>3, <1>4

LEMMA InitHolds == Init => LedgerInv
<1> SUFFICES ASSUME Init PROVE LedgerInv
  OBVIOUS
<1>1. rows = <<>> /\ pc = "analyze" /\ at = 1 /\ promote = <<>>
  BY DEF Init
<1>2. Ids = {} /\ {} = 1 .. 0
  BY <1>1 DEF Ids
<1>3. TableInv
  BY <1>1, <1>2 DEF TableInv, IsTable, OneIdPerTask, CollisionsAreStaleWrites
<1> QED BY <1>1, <1>3 DEF LedgerInv, HeldDraft, HeldPromotions, Judged, CleanWhenPassed

LEMMA TableStays ==
  ASSUME TableInv, CleanWhenPassed, rows' = rows
  PROVE  TableInv' /\ CleanWhenPassed' /\ Ids' = Ids
BY DEF TableInv, CleanWhenPassed, Ids, IsTable, OneIdPerTask, CollisionsAreStaleWrites,
       Unflawed

\* Actions that read nothing of the table.
LEMMA OthersKeep ==
  LedgerInv /\ (SkipTask \/ Revise \/ FinishWrite \/ Abort \/ UNCHANGED vars) => LedgerInv'
<1> SUFFICES ASSUME LedgerInv,
                    SkipTask \/ Revise \/ FinishWrite \/ Abort \/ UNCHANGED vars
             PROVE  LedgerInv'
  OBVIOUS
<1>1. /\ rows' = rows /\ promote' = promote
      /\ pc' \in {"analyze", "done", "failed"} /\ at' \in Nat \ {0}
      \/ UNCHANGED vars
  BY DEF LedgerInv, SkipTask, Revise, FinishWrite, Abort
<1>2. TableInv' /\ CleanWhenPassed' /\ Ids' = Ids /\ rows' = rows
  BY <1>1, TableStays DEF LedgerInv, vars
<1>3. CASE /\ rows' = rows /\ promote' = promote
           /\ pc' \in {"analyze", "done", "failed"} /\ at' \in Nat \ {0}
  BY <1>2, <1>3 DEF LedgerInv, HeldDraft, HeldPromotions, Judged
<1>4. CASE UNCHANGED vars
  BY <1>2, <1>4 DEF vars, LedgerInv, HeldDraft, HeldPromotions, Judged, RowsAbout,
                    OutbidByReview, Unflawed, Latest, RowsOf, Highest
<1> QED BY <1>1, <1>3, <1>4

LEMMA ReadTargetKeeps == LedgerInv /\ ReadTarget => LedgerInv'
<1> SUFFICES ASSUME LedgerInv, ReadTarget PROVE LedgerInv'
  OBVIOUS
<1>1. /\ rows' = rows /\ at' = at /\ promote' = promote /\ pc' = "append"
      /\ draft' = SupersedeTarget(at)
  BY DEF ReadTarget
<1>2. at \in Tasks
  BY SmallLedger DEF ReadTarget, LedgerInv, Tasks
<1>3. TableInv' /\ CleanWhenPassed'
  BY <1>1, TableStays DEF LedgerInv
<1>4. HeldDraft'
  <2>1. CASE RowsAbout(at) = {}
    BY <1>1, <1>2, <2>1 DEF HeldDraft, SupersedeTarget, RowsAbout, Ids
  <2>2. CASE RowsAbout(at) # {}
    <3> DEFINE i == Highest(RowsAbout(at))
    <3>1. IsTop(rows, i, RowsAbout(at))
      BY <2>2, HighestIsTop DEF RowsAbout, LedgerInv, TableInv
    <3>2. i \in DOMAIN rows /\ rows[i].task = at
      BY <3>1 DEF IsTop, RowsAbout
    <3>3. draft' = [id |-> rows[i].id, ver |-> rows[i].ver + 1, base |-> i]
      BY <1>1, <2>2 DEF SupersedeTarget
    <3> HIDE DEF i
    <3>4. \A j \in DOMAIN rows : rows[j].id = rows[i].id => ~ (rows[j].ver > rows[i].ver)
      <4> SUFFICES ASSUME NEW j \in DOMAIN rows, rows[j].id = rows[i].id
                   PROVE  ~ (rows[j].ver > rows[i].ver)
        OBVIOUS
      <4>1. rows[j].task = at
        BY <3>2 DEF LedgerInv, TableInv, OneIdPerTask
      <4>2. rows[i].ver > rows[j].ver \/ rows[i].ver = rows[j].ver
        BY <4>1, <3>1 DEF IsTop, RowsAbout
      <4>3. rows[i].ver \in Nat /\ rows[j].ver \in Nat
        BY <3>2, TableHasRows DEF LedgerInv, TableInv
      <4> QED BY <4>2, <4>3
    <3>5. RowsAbout(at)' = RowsAbout(at) /\ draft'.base = i
          /\ draft'.id = rows[i].id /\ draft'.ver = rows[i].ver + 1
      BY <1>1, <3>3 DEF RowsAbout
    <3>6. i \in RowsAbout(at)
      BY <3>1 DEF IsTop
    <3>7. OutbidByReview(draft.base)'
      BY <1>1, <3>4, <3>5 DEF OutbidByReview
    <3> QED BY <1>1, <1>2, <2>2, <3>5, <3>6, <3>7 DEF HeldDraft
  <2> QED BY <2>1, <2>2
<1>5. HeldPromotions' /\ Judged' /\ at' \in Nat \ {0}
  BY <1>1 DEF LedgerInv, HeldPromotions, Judged
<1> QED BY <1>3, <1>4, <1>5 DEF LedgerInv

LEMMA QaKeeps == LedgerInv /\ Qa => LedgerInv'
<1> SUFFICES ASSUME LedgerInv, Qa PROVE LedgerInv'
  OBVIOUS
<1>1. /\ rows' = rows /\ at' = at /\ promote' = promote /\ pc' = "route"
      /\ flagged' = {id \in Ids : rows[Latest(id)].flawed}
      /\ verdict' \in IF flagged' = {} THEN {"pass", "reject"} ELSE {"reject"}
  BY DEF Qa
<1>2. TableInv' /\ CleanWhenPassed' /\ Ids' = Ids
  BY <1>1, TableStays DEF LedgerInv
<1>3. verdict' = "pass" => flagged' = {}
  BY <1>1
<1>4. \A id \in Ids' \ flagged' : Unflawed(Latest(id))'
  <2> SUFFICES ASSUME NEW id \in Ids \ flagged' PROVE Unflawed(Latest(id))'
    BY <1>2
  <2>1. ~ rows[Latest(id)].flawed
    BY <1>1
  <2>2. Latest(id)' = Latest(id)
    BY <1>1 DEF Latest, Highest, RowsOf
  <2> QED BY <1>1, <2>1, <2>2 DEF Unflawed
<1>5. Judged'
  BY <1>3, <1>4 DEF Judged
<1>6. HeldDraft' /\ HeldPromotions' /\ at' \in Nat \ {0}
  BY <1>1 DEF LedgerInv, HeldDraft, HeldPromotions
<1> QED BY <1>2, <1>5, <1>6 DEF LedgerInv

\* write reads one row of each passed claim: no two of one claim.
LEMMA StartWriteKeeps == LedgerInv /\ StartWrite => LedgerInv'
<1> SUFFICES ASSUME LedgerInv, StartWrite PROVE LedgerInv'
  OBVIOUS
<1>1. PICK order \in InRowOrder(Passed) :
        promote' = [k \in DOMAIN order |-> Latest(order[k])]
  BY DEF StartWrite
<1>2. rows' = rows /\ at' = 1 /\ pc' = "promote" /\ pc = "route"
  BY DEF StartWrite
<1>3. TableInv' /\ CleanWhenPassed' /\ IsTable(rows)
  BY <1>2, TableStays DEF LedgerInv, TableInv
<1>4. Passed \subseteq Ids /\ \A id \in Passed : Unflawed(Latest(id))
  BY <1>2 DEF Passed, LedgerInv, Judged
<1> DEFINE c == Cardinality(Passed)
<1>5. c \in Nat
  <2>1. IsFiniteSet(Ids)
    BY FS_Interval DEF LedgerInv, TableInv
  <2> QED BY <1>4, <2>1, FS_Subset, FS_CardinalityType
<1>6. order \in [1 .. c -> Passed]
  BY DEF InRowOrder
<1>7. \A k, l \in 1 .. c : k < l => Before(order[k], order[l])
  BY <1>6 DEF InRowOrder
<1> HIDE DEF c
<1>8. \A id \in Ids : FirstRow(id) \in Nat
  <2> SUFFICES ASSUME NEW id \in Ids PROVE FirstRow(id) \in Nat
    OBVIOUS
  <2>1. RowsOf(id) \subseteq Nat /\ RowsOf(id) # {}
    BY <1>3, TableHasRows DEF RowsOf, Ids
  <2>2. \E i \in RowsOf(id) : \A j \in RowsOf(id) : i <= j
    BY <2>1, Least
  <2> QED BY <2>1, <2>2 DEF FirstRow
<1>9. \A k, l \in 1 .. c : k # l => order[k] # order[l]
  <2> SUFFICES ASSUME NEW k \in 1 .. c, NEW l \in 1 .. c, k # l, order[k] = order[l]
               PROVE  FALSE
    OBVIOUS
  <2>1. Before(order[k], order[k])
    BY <1>5, <1>7
  <2>2. FirstRow(order[k]) \in Nat
    BY <1>4, <1>6, <1>8
  <2> QED BY <2>1, <2>2 DEF Before
<1>10. \A k \in 1 .. c :
         /\ promote'[k] = Latest(order[k]) /\ promote'[k] \in DOMAIN rows
         /\ rows[promote'[k]].id = order[k]
         /\ OutbidByReview(promote'[k]) /\ Unflawed(promote'[k])
  <2> SUFFICES ASSUME NEW k \in 1 .. c
               PROVE  /\ promote'[k] = Latest(order[k]) /\ promote'[k] \in DOMAIN rows
                      /\ rows[promote'[k]].id = order[k]
                      /\ OutbidByReview(promote'[k]) /\ Unflawed(promote'[k])
    OBVIOUS
  <2>1. promote'[k] = Latest(order[k]) /\ order[k] \in Passed /\ order[k] \in Ids
    BY <1>1, <1>4, <1>6
  <2> QED BY <1>3, <1>4, <2>1, LatestIsNotOutbid
<1>11. DOMAIN promote' = 1 .. c /\ promote' \in [1 .. c -> Nat]
  <2>1. promote' = [k \in 1 .. c |-> Latest(order[k])]
    BY <1>1, <1>6
  <2>2. \A k \in 1 .. c : Latest(order[k]) \in Nat
    BY <1>3, <1>10, TableHasRows
  <2> QED BY <2>1, <2>2
<1>12. promote' \in Seq(Nat)
  BY <1>5, <1>11
<1>13. \A i : (OutbidByReview(i)' <=> OutbidByReview(i)) /\ (Unflawed(i)' <=> Unflawed(i))
  BY <1>2 DEF OutbidByReview, Unflawed
<1>14. HeldPromotions'
  <2>1. \A k \in DOMAIN promote' : promote'[k] \in DOMAIN rows'
    BY <1>2, <1>10, <1>11
  <2>2. \A k, l \in DOMAIN promote' : k # l => rows'[promote'[k]].id # rows'[promote'[l]].id
    BY <1>2, <1>9, <1>10, <1>11
  <2>3. \A k \in DOMAIN promote' : OutbidByReview(promote[k])' /\ Unflawed(promote[k])'
    BY <1>2, <1>10, <1>11 DEF OutbidByReview, Unflawed
  <2> QED BY <1>12, <2>1, <2>2, <2>3 DEF HeldPromotions
<1>15. HeldDraft' /\ Judged' /\ at' \in Nat \ {0}
  BY <1>2 DEF HeldDraft, Judged
<1> QED BY <1>3, <1>14, <1>15 DEF LedgerInv

----------------------------------------------------------------------------
\* The actions that insert.

\* A copy of a row, one version up, and its fields.
NextVersion(q, status, by, flawed, writer, base) ==
  Row(q.task, q.id, q.ver + 1, status, by, flawed, writer, base)

Columns == {"task", "id", "ver", "status", "by", "flawed", "writer", "base"}

\* The copies that Promote and Correct make of row q.
Promoted(q, base) ==
  [q EXCEPT !.ver = @ + 1, !.status = "pass", !.writer = "pipeline", !.base = base]
Corrected(q, status, flawed, base) ==
  [q EXCEPT !.ver = @ + 1, !.status = status, !.by = Human, !.flawed = flawed,
            !.writer = "reviewer", !.base = base]

LEMMA NextVersionIsRow ==
  ASSUME NEW q \in RowType, NEW base \in Nat, NEW status \in {"draft", "pass", "rejected"},
         NEW writer \in {"pipeline", "reviewer"}, NEW by \in {"analyst", Human},
         NEW flawed \in BOOLEAN
  PROVE  NextVersion(q, status, by, flawed, writer, base) \in RowType
<1>1. q.task \in Tasks /\ q.id \in Nat /\ q.ver \in Nat
  BY DEF RowType
<1> QED BY <1>1 DEF RowType, NextVersion, Row

LEMMA CopyIsNextVersion ==
  ASSUME NEW q \in RowType, NEW base, NEW status, NEW flawed
  PROVE  /\ Promoted(q, base) = NextVersion(q, "pass", q.by, q.flawed, "pipeline", base)
         /\ Corrected(q, status, flawed, base)
              = NextVersion(q, status, Human, flawed, "reviewer", base)
<1>1. DOMAIN q = Columns
  BY DEF RowType, Columns
<1>2. Promoted(q, base) = NextVersion(q, "pass", q.by, q.flawed, "pipeline", base)
  <2> DEFINE e == Promoted(q, base)
             v == NextVersion(q, "pass", q.by, q.flawed, "pipeline", base)
  <2>1. e = [f \in DOMAIN q |-> e[f]]
    BY DEF Promoted
  <2>2. v = [f \in Columns |-> v[f]]
    BY DEF NextVersion, Row, Columns
  <2>3. /\ e.task = v.task /\ e.id = v.id /\ e.ver = v.ver /\ e.status = v.status
        /\ e.by = v.by /\ e.flawed = v.flawed /\ e.writer = v.writer /\ e.base = v.base
    BY <1>1 DEF Promoted, NextVersion, Row, Columns
  <2> HIDE DEF e, v
  <2>4. e = v
    BY <1>1, <2>1, <2>2, <2>3 DEF Columns
  <2> QED BY <2>4 DEF e, v
<1>3. Corrected(q, status, flawed, base) = NextVersion(q, status, Human, flawed, "reviewer", base)
  <2> DEFINE e == Corrected(q, status, flawed, base)
             v == NextVersion(q, status, Human, flawed, "reviewer", base)
  <2>1. e = [f \in DOMAIN q |-> e[f]]
    BY DEF Corrected
  <2>2. v = [f \in Columns |-> v[f]]
    BY DEF NextVersion, Row, Columns
  <2>3. /\ e.task = v.task /\ e.id = v.id /\ e.ver = v.ver /\ e.status = v.status
        /\ e.by = v.by /\ e.flawed = v.flawed /\ e.writer = v.writer /\ e.base = v.base
    BY <1>1 DEF Corrected, NextVersion, Row, Columns
  <2> HIDE DEF e, v
  <2>4. e = v
    BY <1>1, <2>1, <2>2, <2>3 DEF Columns
  <2> QED BY <2>4 DEF e, v
<1> QED BY <1>2, <1>3

LEMMA OriginOfRow ==
  ASSUME NEW q \in RowType
  PROVE  q.by \in {"analyst", Human} /\ q.flawed \in BOOLEAN
BY DEF RowType

\* A row that is inserted keeps what is held of other rows.
LEMMA HeldRowsKeep ==
  ASSUME IsTable(rows), NEW r, Grows(r), NEW i \in DOMAIN rows
  PROVE  /\ i \in DOMAIN rows' /\ rows'[i] = rows[i]
         /\ Unflawed(i) => (rows'[i].by = "analyst" => ~ rows'[i].flawed)
         /\ (r.writer = "reviewer" \/ r.id # rows[i].id) /\ OutbidByReview(i) =>
              \A j \in DOMAIN rows' :
                rows'[j].id = rows'[i].id /\ rows'[j].ver > rows'[i].ver
                  => rows'[j].writer = "reviewer"
<1> DEFINE n == Len(rows)
<1>1. /\ n \in Nat /\ DOMAIN rows = 1 .. n /\ DOMAIN rows' = 1 .. (n + 1)
      /\ rows'[n + 1] = r /\ \A k \in 1 .. n : rows'[k] = rows[k]
  BY OneRowMore
<1> HIDE DEF n
<1>2. i \in DOMAIN rows' /\ rows'[i] = rows[i]
  BY <1>1
<1>3. Unflawed(i) => (rows'[i].by = "analyst" => ~ rows'[i].flawed)
  BY <1>2 DEF Unflawed
<1>4. ASSUME r.writer = "reviewer" \/ r.id # rows[i].id, OutbidByReview(i),
             NEW j \in 1 .. (n + 1), rows'[j].id = rows'[i].id, rows'[j].ver > rows'[i].ver
      PROVE  rows'[j].writer = "reviewer"
  <2>1. CASE j = n + 1
    BY <1>1, <1>2, <1>4, <2>1
  <2>2. CASE j \in 1 .. n
    BY <1>1, <1>2, <1>4, <2>2 DEF OutbidByReview
  <2> QED BY <1>1, <2>1, <2>2
<1> QED BY <1>1, <1>2, <1>3, <1>4

LEMMA CleanGrows ==
  ASSUME IsTable(rows), CleanWhenPassed, NEW r, Grows(r),
         r.status = "pass" /\ r.by = "analyst" => ~ r.flawed
  PROVE  CleanWhenPassed'
<1> DEFINE n == Len(rows)
<1>1. /\ n \in Nat /\ DOMAIN rows = 1 .. n /\ DOMAIN rows' = 1 .. (n + 1)
      /\ rows'[n + 1] = r /\ \A k \in 1 .. n : rows'[k] = rows[k]
  BY OneRowMore
<1> HIDE DEF n
<1>2. \A i \in 1 .. (n + 1) : rows'[i].status = "pass" /\ rows'[i].by = "analyst"
                                => ~ rows'[i].flawed
  <2> SUFFICES ASSUME NEW i \in 1 .. (n + 1), rows'[i].status = "pass",
                      rows'[i].by = "analyst"
               PROVE  ~ rows'[i].flawed
    OBVIOUS
  <2>1. CASE i = n + 1
    BY <1>1, <2>1
  <2>2. CASE i \in 1 .. n
    BY <1>1, <2>2 DEF CleanWhenPassed, Unflawed
  <2> QED BY <1>1, <2>1, <2>2
<1> QED BY <1>1, <1>2 DEF CleanWhenPassed, Unflawed

\* What the pipeline and the reviewers insert: one row, which fits.
Inserts(r) == Grows(r) /\ Fits(r) /\ CollidesAsStale(r)

LEMMA AppendDraftInserts ==
  ASSUME LedgerInv, AppendDraft
  PROVE  \E r : /\ Inserts(r) /\ r.task = at /\ r.id = draft.id /\ r.ver = draft.ver
                /\ r.status = "draft" /\ r.by = "analyst" /\ r.writer = "pipeline"
                /\ r.base = draft.base
<1>1. PICK flawed \in BOOLEAN :
        rows' = Append(rows, Row(at, draft.id, draft.ver, "draft", "analyst", flawed,
                                 "pipeline", draft.base))
  BY DEF AppendDraft
<1> DEFINE r == Row(at, draft.id, draft.ver, "draft", "analyst", flawed, "pipeline",
                    draft.base)
<1>2. /\ r.task = at /\ r.id = draft.id /\ r.ver = draft.ver /\ r.status = "draft"
      /\ r.by = "analyst" /\ r.writer = "pipeline" /\ r.base = draft.base
  BY DEF Row
<1>3. PICK m \in Nat : Ids = 1 .. m
  BY DEF LedgerInv, TableInv
<1>4. Cardinality(Ids) = m
  BY <1>3, FS_Interval
<1>5. IsTable(rows) /\ at \in Tasks
  BY DEF LedgerInv, TableInv, HeldDraft, AppendDraft
<1>6. \/ /\ RowsAbout(at) = {}
         /\ draft.id = m + 1 /\ draft.ver = 1 /\ draft.base = 0
      \/ /\ draft.base \in DOMAIN rows /\ rows[draft.base].task = at
         /\ draft.id = rows[draft.base].id /\ draft.ver = rows[draft.base].ver + 1
         /\ OutbidByReview(draft.base)
  <2>1. CASE RowsAbout(at) = {}
    BY <1>4, <2>1 DEF LedgerInv, HeldDraft, AppendDraft
  <2>2. CASE RowsAbout(at) # {}
    BY <2>2 DEF LedgerInv, HeldDraft, RowsAbout, AppendDraft
  <2> QED BY <2>1, <2>2
<1>7. Len(rows) \in Nat /\ DOMAIN rows = 1 .. Len(rows)
      /\ \A i \in DOMAIN rows : rows[i].ver \in Nat /\ rows[i].ver <= Len(rows)
                                /\ rows[i].id \in Nat
  BY <1>5, TableHasRows DEF IsTable, RowType
<1>8. draft.id \in Nat /\ draft.ver \in Nat /\ draft.base \in Nat
      /\ draft.ver <= Len(rows) + 1
  BY <1>6, <1>7
<1>9. Grows(r)
  BY <1>1, <1>5, <1>8 DEF Grows, RowType, Row
<1>10. Fits(r)
  BY <1>2, <1>4, <1>6 DEF Fits
<1>11. CollidesAsStale(r)
  <2> SUFFICES ASSUME NEW i \in DOMAIN rows, rows[i].id = draft.id,
                      rows[i].ver = draft.ver
               PROVE  rows[i].writer = "reviewer"
    BY <1>2 DEF CollidesAsStale
  <2>1. rows[i].id \in 1 .. m
    BY <1>3 DEF Ids
  <2>2. draft.id # m + 1
    BY <2>1
  <2> QED BY <1>6, <1>7, <2>2 DEF OutbidByReview
<1> HIDE DEF r
<1> QED BY <1>2, <1>9, <1>10, <1>11 DEF Inserts

LEMMA PromoteInserts ==
  ASSUME LedgerInv, Promote
  PROVE  /\ at \in DOMAIN promote /\ promote[at] \in DOMAIN rows
         /\ Unflawed(promote[at])
         /\ \E r : /\ Inserts(r) /\ r.task = rows[promote[at]].task
                   /\ r.id = rows[promote[at]].id /\ r.ver = rows[promote[at]].ver + 1
                   /\ r.by = rows[promote[at]].by /\ r.flawed = rows[promote[at]].flawed
                   /\ r.writer = "pipeline" /\ r.base = promote[at]
<1> DEFINE b == promote[at]
           r == [rows[b] EXCEPT !.ver = @ + 1, !.status = "pass", !.writer = "pipeline",
                                !.base = b]
<1>1. rows' = Append(rows, r) /\ pc = "promote" /\ at \in DOMAIN promote
  BY DEF Promote, LedgerInv, HeldPromotions
<1>2. b \in DOMAIN rows /\ OutbidByReview(b) /\ Unflawed(b)
  <2>1. at >= at
    BY DEF LedgerInv
  <2> QED BY <1>1, <2>1 DEF LedgerInv, HeldPromotions
<1>3. IsTable(rows)
  BY DEF LedgerInv, TableInv
<1>4. /\ rows[b] \in RowType /\ rows[b].ver \in Nat /\ rows[b].ver <= Len(rows)
      /\ Len(rows) \in Nat /\ b \in Nat
  BY <1>2, <1>3, TableHasRows DEF IsTable
<1>5. /\ r \in RowType /\ r.ver = rows[b].ver + 1 /\ r.id = rows[b].id
      /\ r.task = rows[b].task /\ r.by = rows[b].by /\ r.flawed = rows[b].flawed
      /\ r.writer = "pipeline" /\ r.base = b
  <2> HIDE DEF b
  <2>1. rows[b].by \in {"analyst", Human} /\ rows[b].flawed \in BOOLEAN
    BY <1>4, OriginOfRow
  <2>2. r = NextVersion(rows[b], "pass", rows[b].by, rows[b].flawed, "pipeline", b)
    <3>1. r = Promoted(rows[b], b)
      BY DEF Promoted
    <3> HIDE DEF r
    <3> QED BY <1>4, <3>1, CopyIsNextVersion
  <2>3. NextVersion(rows[b], "pass", rows[b].by, rows[b].flawed, "pipeline", b) \in RowType
    BY <1>4, <2>1, NextVersionIsRow
  <2> QED BY <2>2, <2>3 DEF NextVersion, Row
<1> HIDE DEF r
<1>6. Grows(r)
  BY <1>1, <1>4, <1>5 DEF Grows
<1>7. Fits(r)
  BY <1>2, <1>5 DEF Fits
<1>8. CollidesAsStale(r)
  BY <1>2, <1>4, <1>5 DEF CollidesAsStale, OutbidByReview
<1> QED BY <1>1, <1>2, <1>5, <1>6, <1>7, <1>8 DEF Inserts

\* A correction copies the row that is shown.
LEMMA CorrectInserts ==
  ASSUME LedgerInv, NEW id \in Ids, Correct(id)
  PROVE  \E r : /\ Inserts(r) /\ r.id = id /\ r.writer = "reviewer" /\ r.by = Human
                /\ r.ver = rows[Latest(id)].ver + 1
                /\ r.task = rows[Latest(id)].task /\ r.base = Latest(id)
<1> DEFINE i == Latest(id)
           r(status, flawed) == [rows[i] EXCEPT !.ver = @ + 1, !.status = status,
                                   !.by = Human, !.flawed = flawed,
                                   !.writer = "reviewer", !.base = i]
<1>1. PICK status \in {"pass", "rejected"}, flawed \in {rows[i].flawed, ~ rows[i].flawed} :
        rows' = Append(rows, r(status, flawed))
  BY DEF Correct, FreshLatest
<1>2. /\ IsTable(rows) /\ i \in DOMAIN rows /\ rows[i].id = id
      /\ \A j \in DOMAIN rows : rows[j].id = id => rows[j].ver <= rows[i].ver
  BY LatestIsNotOutbid DEF LedgerInv, TableInv
<1>3. /\ rows[i] \in RowType /\ rows[i].ver \in Nat /\ rows[i].ver <= Len(rows)
      /\ Len(rows) \in Nat /\ i \in Nat
      /\ \A j \in DOMAIN rows : rows[j].ver \in Nat
  BY <1>2, TableHasRows DEF IsTable
<1> HIDE DEF i
<1>4. flawed \in BOOLEAN
  BY <1>3, OriginOfRow
<1>5. r(status, flawed) = NextVersion(rows[i], status, Human, flawed, "reviewer", i)
  <2>1. r(status, flawed) = Corrected(rows[i], status, flawed, i)
    BY DEF Corrected
  <2> HIDE DEF r
  <2> QED BY <1>3, <2>1, CopyIsNextVersion
<1> DEFINE q == r(status, flawed)
<1>6. /\ q.id = rows[i].id /\ q.ver = rows[i].ver + 1 /\ q.task = rows[i].task
      /\ q.writer = "reviewer" /\ q.by = Human /\ q.base = i
  BY <1>5 DEF NextVersion, Row
<1>7. q \in RowType
  <2>1. NextVersion(rows[i], status, Human, flawed, "reviewer", i) \in RowType
    BY <1>3, <1>4, NextVersionIsRow
  <2> QED BY <1>5, <2>1
<1>8. rows' = Append(rows, q)
  BY <1>1
<1> HIDE DEF q, r
<1>9. Grows(q)
  BY <1>3, <1>6, <1>7, <1>8 DEF Grows
<1>10. Fits(q)
  BY <1>2, <1>6 DEF Fits
<1>11. CollidesAsStale(q)
  <2> SUFFICES ASSUME NEW j \in DOMAIN rows, rows[j].id = id, rows[j].ver = q.ver PROVE FALSE
    BY <1>2, <1>6 DEF CollidesAsStale
  <2> QED BY <1>2, <1>3, <1>6
<1> QED BY <1>2, <1>6, <1>9, <1>10, <1>11 DEF Inserts, i

LEMMA AppendDraftKeeps == LedgerInv /\ AppendDraft => LedgerInv'
<1> SUFFICES ASSUME LedgerInv, AppendDraft PROVE LedgerInv'
  OBVIOUS
<1>1. PICK r : Inserts(r) /\ r.status = "draft"
  BY AppendDraftInserts
<1>2. /\ pc = "append" /\ pc' = "analyze" /\ at' = at + 1 /\ promote' = promote
      /\ Grows(r) /\ Fits(r) /\ CollidesAsStale(r) /\ IsTable(rows)
  BY <1>1 DEF AppendDraft, LedgerInv, TableInv, Inserts
<1>3. TableInv'
  BY <1>2, TableGrows DEF LedgerInv
<1>4. CleanWhenPassed'
  BY <1>1, <1>2, CleanGrows DEF LedgerInv
<1>5. HeldPromotions'
  BY <1>2, HeldRowsKeep DEF LedgerInv, HeldPromotions
<1>6. HeldDraft' /\ Judged' /\ at' \in Nat \ {0}
  BY <1>2 DEF LedgerInv, HeldDraft, Judged
<1> QED BY <1>3, <1>4, <1>5, <1>6 DEF LedgerInv

LEMMA PromoteKeeps == LedgerInv /\ Promote => LedgerInv'
<1> SUFFICES ASSUME LedgerInv, Promote PROVE LedgerInv'
  OBVIOUS
<1> DEFINE b == promote[at]
<1>1. PICK r : Inserts(r) /\ r.id = rows[b].id /\ r.by = rows[b].by
               /\ r.flawed = rows[b].flawed
  BY PromoteInserts
<1>2. at \in DOMAIN promote /\ b \in DOMAIN rows /\ Unflawed(b)
  BY PromoteInserts
<1>3. /\ pc = "promote" /\ pc' = "promote" /\ at' = at + 1 /\ promote' = promote
      /\ Grows(r) /\ Fits(r) /\ CollidesAsStale(r) /\ IsTable(rows)
  BY <1>1 DEF Promote, LedgerInv, TableInv, Inserts
<1>4. TableInv'
  BY <1>3, TableGrows DEF LedgerInv
<1>5. CleanWhenPassed'
  BY <1>1, <1>2, <1>3, CleanGrows DEF LedgerInv, Unflawed
<1>6. HeldPromotions'
  <2>1. \A k \in DOMAIN promote : promote[k] \in DOMAIN rows
    BY DEF LedgerInv, HeldPromotions
  <2>2. \A k \in DOMAIN promote' : promote'[k] \in DOMAIN rows'
    BY <1>3, <2>1, HeldRowsKeep
  <2>3. \A k, l \in DOMAIN promote' : k # l => rows'[promote'[k]].id # rows'[promote'[l]].id
    BY <1>3, <2>1, HeldRowsKeep DEF LedgerInv, HeldPromotions
  <2>4. \A k \in DOMAIN promote' : Unflawed(promote[k])'
    BY <1>3, <2>1, HeldRowsKeep DEF LedgerInv, HeldPromotions, Unflawed
  <2>5. ASSUME NEW k \in DOMAIN promote', k >= at'
        PROVE  OutbidByReview(promote[k])'
    <3>1. k \in Nat /\ at \in Nat /\ k # at /\ k >= at /\ k \in DOMAIN promote
      BY <1>3, <2>5 DEF LedgerInv, HeldPromotions
    <3>2. OutbidByReview(promote[k]) /\ r.id # rows[promote[k]].id
      BY <1>1, <1>2, <1>3, <3>1 DEF LedgerInv, HeldPromotions
    <3>3. promote[k] \in DOMAIN rows
      BY <2>1, <3>1
    <3> QED BY <1>3, <3>2, <3>3, HeldRowsKeep DEF OutbidByReview
  <2> QED BY <1>3, <2>2, <2>3, <2>4, <2>5 DEF LedgerInv, HeldPromotions
<1>7. HeldDraft' /\ Judged' /\ at' \in Nat \ {0}
  BY <1>3 DEF LedgerInv, HeldDraft, Judged
<1> QED BY <1>4, <1>5, <1>6, <1>7 DEF LedgerInv

\* A correction is shown as soon as it is there.
LEMMA InsertedIsShown ==
  ASSUME IsTable(rows), NEW r, Grows(r), r.id \in Ids,
         r.ver = rows[Latest(r.id)].ver + 1
  PROVE  Latest(r.id)' = Len(rows')
<1> DEFINE n == Len(rows)
           S == RowsOf(r.id)
<1>1. /\ n \in Nat /\ DOMAIN rows = 1 .. n /\ Len(rows') = n + 1 /\ IsTable(rows')
      /\ DOMAIN rows' = 1 .. (n + 1)
      /\ rows'[n + 1] = r /\ \A k \in 1 .. n : rows'[k] = rows[k]
  BY OneRowMore
<1>2. S' = S \cup {n + 1} /\ r.id \in Ids' /\ S \subseteq 1 .. n
  BY <1>1, SetsGrow DEF RowsOf
<1>3. \A j \in S : rows[j].ver <= rows[Latest(r.id)].ver /\ rows[j].ver \in Nat
  BY LatestIsNotOutbid, TableHasRows DEF RowsOf
<1>4. rows[Latest(r.id)].ver \in Nat
  BY LatestIsNotOutbid, TableHasRows
<1>5. IsTop(rows', Latest(r.id)', S')
  BY <1>1, <1>2, LatestIsTopNext
<1> HIDE DEF n, S
<1>6. \A j \in S \cup {n + 1} : r.ver > rows'[j].ver \/ (r.ver = rows'[j].ver /\ n + 1 <= j)
  <2> SUFFICES ASSUME NEW j \in S \cup {n + 1}
               PROVE  r.ver > rows'[j].ver \/ (r.ver = rows'[j].ver /\ n + 1 <= j)
    OBVIOUS
  <2>1. CASE j = n + 1
    BY <1>1, <2>1
  <2>2. CASE j \in S
    <3>1. rows'[j] = rows[j] /\ rows[j].ver <= rows[Latest(r.id)].ver /\ rows[j].ver \in Nat
      BY <1>1, <1>2, <1>3, <2>2
    <3> QED BY <1>4, <3>1
  <2> QED BY <2>1, <2>2
<1>7. IsTop(rows', n + 1, S')
  BY <1>1, <1>2, <1>6 DEF IsTop
<1>8. S' \subseteq DOMAIN rows'
  BY <1>1, <1>2
<1>9. Latest(r.id)' = n + 1
  BY <1>1, <1>5, <1>7, <1>8, TopIsOne
<1> QED BY <1>1, <1>9

LEMMA CorrectKeeps == LedgerInv /\ (\E id \in Ids : Correct(id)) => LedgerInv'
<1> SUFFICES ASSUME LedgerInv, NEW id \in Ids, Correct(id) PROVE LedgerInv'
  OBVIOUS
<1>1. UNCHANGED <<pc, at, draft, promote, verdict, flagged>>
  BY DEF Correct
<1>2. PICK r : /\ Inserts(r) /\ r.id = id /\ r.writer = "reviewer" /\ r.by = Human
               /\ r.ver = rows[Latest(id)].ver + 1
               /\ r.task = rows[Latest(id)].task
  BY CorrectInserts
<1>3. /\ IsTable(rows) /\ Grows(r)
      /\ Latest(id) \in DOMAIN rows /\ rows[Latest(id)].id = id
  BY <1>2, LatestIsNotOutbid DEF LedgerInv, TableInv, Inserts
<1>4. TableInv'
  BY <1>2, TableGrows DEF LedgerInv, Inserts
<1>5. CleanWhenPassed'
  BY <1>2, <1>3, CleanGrows DEF LedgerInv, Human
<1>6. Ids' = Ids
  <2>1. Ids' = Ids \cup {id}
    BY <1>2, <1>3, SetsGrow
  <2> QED BY <2>1
<1>7. HeldDraft'
  <2> SUFFICES ASSUME pc = "append" PROVE HeldDraft'
    BY <1>1 DEF HeldDraft
  <2>1. at \in Tasks
    BY DEF LedgerInv, HeldDraft
  <2>2. CASE RowsAbout(at) = {}
    <3>1. r.task # at
      BY <1>2, <1>3, <2>2 DEF RowsAbout
    <3>2. RowsAbout(at)' = {}
      BY <1>1, <1>2, <1>3, <2>2, <3>1, SetsGrow
    <3>3. draft = [id |-> Cardinality(Ids) + 1, ver |-> 1, base |-> 0]
      BY <2>2 DEF LedgerInv, HeldDraft
    <3> QED BY <1>1, <1>6, <2>1, <3>2, <3>3 DEF HeldDraft
  <2>3. CASE RowsAbout(at) # {}
    <3>1. /\ draft.base \in DOMAIN rows /\ rows[draft.base].task = at
          /\ draft.id = rows[draft.base].id /\ draft.ver = rows[draft.base].ver + 1
          /\ OutbidByReview(draft.base)
      BY <2>3 DEF LedgerInv, HeldDraft, RowsAbout
    <3>2. draft.base \in DOMAIN rows' /\ rows'[draft.base] = rows[draft.base]
      BY <1>2, <1>3, <3>1, HeldRowsKeep
    <3>3. OutbidByReview(draft.base)'
      BY <1>1, <1>2, <1>3, <3>1, HeldRowsKeep DEF OutbidByReview
    <3>4. draft.base \in RowsAbout(at)'
      BY <1>1, <3>1, <3>2 DEF RowsAbout
    <3> QED BY <1>1, <2>1, <3>1, <3>2, <3>3, <3>4 DEF HeldDraft
  <2> QED BY <2>2, <2>3
<1>8. HeldPromotions'
  <2>1. \A k \in DOMAIN promote : promote[k] \in DOMAIN rows
    BY DEF LedgerInv, HeldPromotions
  <2>2. \A k \in DOMAIN promote' : promote'[k] \in DOMAIN rows'
    BY <1>1, <1>2, <1>3, <2>1, HeldRowsKeep
  <2> SUFFICES ASSUME pc = "promote" PROVE HeldPromotions'
    BY <1>1, <2>2 DEF LedgerInv, HeldPromotions
  <2>3. \A k, l \in DOMAIN promote' : k # l => rows'[promote'[k]].id # rows'[promote'[l]].id
    BY <1>1, <1>2, <1>3, <2>1, HeldRowsKeep DEF LedgerInv, HeldPromotions
  <2>4. \A k \in DOMAIN promote' : Unflawed(promote[k])'
    BY <1>1, <1>2, <1>3, <2>1, HeldRowsKeep DEF LedgerInv, HeldPromotions, Unflawed
  <2>5. ASSUME NEW k \in DOMAIN promote', k >= at'
        PROVE  OutbidByReview(promote[k])'
    <3>1. OutbidByReview(promote[k]) /\ promote[k] \in DOMAIN rows
      BY <1>1, <2>1, <2>5 DEF LedgerInv, HeldPromotions
    <3> QED BY <1>1, <1>2, <1>3, <3>1, HeldRowsKeep DEF OutbidByReview
  <2> QED BY <1>1, <2>2, <2>3, <2>4, <2>5 DEF LedgerInv, HeldPromotions
<1>9. Judged'
  <2> SUFFICES ASSUME pc = "route" PROVE Judged'
    BY <1>1 DEF Judged
  <2>1. \A other \in Ids' \ flagged' : Unflawed(Latest(other))'
    <3> SUFFICES ASSUME NEW other \in Ids \ flagged PROVE Unflawed(Latest(other))'
      BY <1>1, <1>6
    <3>1. CASE other = id
      <4>1. Latest(other)' = Len(rows')
        BY <1>2, <1>3, <3>1, InsertedIsShown
      <4>2. rows'[Len(rows')] = r
        BY <1>2, <1>3, OneRowMore
      <4> QED BY <1>2, <4>1, <4>2 DEF Unflawed, Human
    <3>2. CASE other # id
      <4>1. Latest(other)' = Latest(other)
        BY <1>2, <1>3, <3>2, OthersStay
      <4>2. Latest(other) \in DOMAIN rows /\ Unflawed(Latest(other))
        BY <1>3, LatestIsTop DEF LedgerInv, Judged
      <4>3. rows'[Latest(other)] = rows[Latest(other)]
        BY <1>2, <1>3, <4>2, HeldRowsKeep
      <4> QED BY <4>1, <4>2, <4>3 DEF Unflawed
    <3> QED BY <3>1, <3>2
  <2> QED BY <1>1, <2>1 DEF LedgerInv, Judged
<1> QED BY <1>1, <1>4, <1>5, <1>7, <1>8, <1>9 DEF LedgerInv

----------------------------------------------------------------------------
\* Rows that are no corrections.
FromPipeline == Len(rows) - Corrections

LEMMA CorrectionsCount ==
  ASSUME IsTable(rows)
  PROVE  /\ Corrections \in Nat
         /\ IsFiniteSet({i \in DOMAIN rows : rows[i].writer = "reviewer"})
<1>1. DOMAIN rows = 1 .. Len(rows) /\ Len(rows) \in Nat
  BY TableHasRows
<1>2. IsFiniteSet(1 .. Len(rows))
  BY <1>1, FS_Interval
<1>3. {i \in DOMAIN rows : rows[i].writer = "reviewer"} \subseteq 1 .. Len(rows)
  BY <1>1
<1>4. IsFiniteSet({i \in DOMAIN rows : rows[i].writer = "reviewer"})
  BY <1>2, <1>3, FS_Subset
<1> QED BY <1>4, FS_CardinalityType DEF Corrections

LEMMA CorrectionsGrow ==
  ASSUME IsTable(rows), NEW r, Grows(r)
  PROVE  /\ Corrections \in Nat /\ FromPipeline \in Int
         /\ r.writer = "reviewer" =>
              Corrections' = Corrections + 1 /\ FromPipeline' = FromPipeline
         /\ r.writer # "reviewer" =>
              Corrections' = Corrections /\ FromPipeline' = FromPipeline + 1
<1> DEFINE n == Len(rows)
           S == {i \in DOMAIN rows : rows[i].writer = "reviewer"}
<1>1. /\ n \in Nat /\ DOMAIN rows = 1 .. n /\ DOMAIN rows' = 1 .. (n + 1)
      /\ Len(rows') = n + 1 /\ rows'[n + 1] = r /\ \A k \in 1 .. n : rows'[k] = rows[k]
  BY OneRowMore
<1>2. Corrections \in Nat /\ IsFiniteSet(S)
  BY CorrectionsCount
<1>3. n + 1 \notin S /\ Corrections = Cardinality(S) /\ Corrections' = Cardinality(S')
  BY <1>1 DEF Corrections
<1>4. FromPipeline = n - Corrections /\ FromPipeline' = Len(rows') - Corrections'
  BY DEF FromPipeline
<1>5. CASE r.writer = "reviewer"
  <2>1. S' = S \cup {n + 1}
    <3> HIDE DEF n
    <3> QED BY <1>1, <1>5
  <2> HIDE DEF S, n
  <2>2. Corrections' = Corrections + 1
    BY <1>2, <1>3, <2>1, FS_AddElement
  <2> QED BY <1>1, <1>2, <1>4, <1>5, <2>2
<1>6. CASE r.writer # "reviewer"
  <2>1. S' = S
    <3> HIDE DEF n
    <3> QED BY <1>1, <1>6
  <2> HIDE DEF S, n
  <2>2. Corrections' = Corrections
    BY <1>3, <2>1
  <2> QED BY <1>1, <1>2, <1>4, <1>6, <2>2
<1> QED BY <1>5, <1>6

LEMMA LedgerStep == LedgerInv /\ [Next]_vars => LedgerInv'
BY OthersKeep, ReadTargetKeeps, QaKeeps, StartWriteKeeps, AppendDraftKeeps, PromoteKeeps,
   CorrectKeeps DEF Next

LEMMA LedgerInvAlways == Spec => []LedgerInv
BY LedgerStep, InitHolds, PTL DEF Spec

\* However reviewers and pipeline interleave, all rows about a task bear one id, and
\* no id is of two tasks.
THEOREM TaskIsOneClaim == Spec => []OneIdPerTask
<1>1. LedgerInv => OneIdPerTask
  BY DEF LedgerInv, TableInv
<1> QED BY <1>1, LedgerInvAlways, PTL

\* Two rows of one version are a correction and, after it, a row of the pipeline that
\* was based on an older row.
THEOREM OnlyStaleWritesCollide == Spec => []CollisionsAreStaleWrites
<1>1. LedgerInv => CollisionsAreStaleWrites
  BY DEF LedgerInv, TableInv
<1> QED BY <1>1, LedgerInvAlways, PTL

\* What readers see as passed and the analyst's own, QA found clean.
THEOREM PassedIsClean == Spec => []PublishedClean
<1>1. LedgerInv => PublishedClean
  BY LatestIsTop DEF LedgerInv, TableInv, CleanWhenPassed, Unflawed, PublishedClean
<1> QED BY <1>1, LedgerInvAlways, PTL

\* A correction is what readers see as soon as it returns, collisions or not.
THEOREM CorrectionIsShown == Spec => CorrectionShows
<1> DEFINE Shows == \A id \in Ids : Corrections' > Corrections /\ RowsOf(id)' # RowsOf(id)
                                       => Latest(id)' = Len(rows')
<1>1. LedgerInv /\ [Next]_vars => Shows
  <2> SUFFICES ASSUME LedgerInv, [Next]_vars, NEW id \in Ids, Corrections' > Corrections,
                      RowsOf(id)' # RowsOf(id)
               PROVE  Latest(id)' = Len(rows')
    OBVIOUS
  <2>1. rows' # rows
    BY DEF RowsOf
  <2>2. ~ (AppendDraft \/ Promote)
    <3> SUFFICES ASSUME AppendDraft \/ Promote PROVE FALSE
      OBVIOUS
    <3>1. PICK r : Grows(r) /\ r.writer = "pipeline"
      BY AppendDraftInserts, PromoteInserts DEF Inserts
    <3>2. Corrections \in Nat /\ Corrections' = Corrections
      BY <3>1, CorrectionsGrow DEF LedgerInv, TableInv
    <3> QED BY <3>2
  <2>3. PICK other \in Ids : Correct(other)
    BY <2>1, <2>2 DEF Next, vars, SkipTask, ReadTarget, Qa, Revise, StartWrite,
                      FinishWrite, Abort
  <2>4. PICK r : /\ Grows(r) /\ r.id = other
                 /\ r.ver = rows[Latest(other)].ver + 1
    BY <2>3, CorrectInserts DEF Inserts
  <2>5. id = other
    BY <2>4, SetsGrow DEF LedgerInv, TableInv
  <2> QED BY <2>4, <2>5, InsertedIsShown DEF LedgerInv, TableInv
<1> QED BY <1>1, LedgerInvAlways, PTL DEF Spec, CorrectionShows

----------------------------------------------------------------------------
\* The register that readers see.  A write shows if and only if the row it was based
\* on is still shown: a stale one has at most the version of what is shown, and of
\* equal versions the earlier row wins.

\* No earlier row of the claim has the version of row b.
FirstOfVersion(b) ==
  \A j \in DOMAIN rows : rows[j].id = rows[b].id /\ rows[j].ver = rows[b].ver => b <= j

HeldAreFirst ==
  /\ pc = "append" /\ draft.base # 0 => FirstOfVersion(draft.base)
  /\ pc = "promote" => \A k \in DOMAIN promote : FirstOfVersion(promote[k])

Drafts == round * NumTasks

\* A round drafts each task at most once, and the write promotes it once more.
Counted ==
  /\ round \in 0 .. Cap /\ Corrections <= MaxCorrections
  /\ pc \in {"analyze", "append"} =>
       at <= NumTasks + 1 /\ FromPipeline <= Drafts + (at - 1)
  /\ pc = "route" => FromPipeline <= Drafts + NumTasks
  /\ pc = "promote" => /\ Len(promote) <= NumTasks /\ at <= Len(promote) + 1
                       /\ FromPipeline <= Drafts + NumTasks + (at - 1)
  /\ FromPipeline <= Drafts + 2 * NumTasks

RegisterInv == LedgerInv /\ HeldAreFirst /\ Counted

LEMMA TopIsFirst ==
  ASSUME IsTable(rows), NEW id \in Ids
  PROVE  FirstOfVersion(Latest(id))
<1>1. IsTop(rows, Latest(id), RowsOf(id)) /\ rows[Latest(id)].id = id
  BY LatestIsTop, LatestIsNotOutbid
<1>2. \A j \in DOMAIN rows : rows[j].ver \in Nat /\ rows[Latest(id)].ver \in Nat
  BY LatestIsTop, TableHasRows
<1> QED BY <1>1, <1>2 DEF FirstOfVersion, IsTop, RowsOf

LEMMA FirstStays ==
  ASSUME IsTable(rows), NEW r, Grows(r), NEW b \in DOMAIN rows, FirstOfVersion(b)
  PROVE  FirstOfVersion(b)'
<1>1. /\ Len(rows) \in Nat /\ DOMAIN rows = 1 .. Len(rows)
      /\ DOMAIN rows' = 1 .. (Len(rows) + 1)
      /\ \A i \in DOMAIN rows : rows'[i] = rows[i]
  BY OneRowMore
<1> SUFFICES ASSUME NEW j \in DOMAIN rows', rows'[j].id = rows'[b].id,
                    rows'[j].ver = rows'[b].ver
             PROVE  b <= j
  BY DEF FirstOfVersion
<1>2. CASE j \in DOMAIN rows
  BY <1>1, <1>2 DEF FirstOfVersion
<1>3. CASE j = Len(rows) + 1
  BY <1>1, <1>3
<1> QED BY <1>1, <1>2, <1>3

\* What the pipeline holds has been read as the highest of a claim.
LEMMA StartWriteReads ==
  ASSUME LedgerInv, StartWrite
  PROVE  /\ Len(promote') = Cardinality(Passed) /\ Passed \subseteq Ids
         /\ \A k \in DOMAIN promote' : \E id \in Passed : promote'[k] = Latest(id)
<1>1. PICK order \in InRowOrder(Passed) :
        promote' = [k \in DOMAIN order |-> Latest(order[k])]
  BY DEF StartWrite
<1>2. order \in [1 .. Cardinality(Passed) -> Passed]
  BY DEF InRowOrder
<1>3. Passed \subseteq Ids
  BY DEF Passed
<1>4. Cardinality(Passed) \in Nat
  <2>1. IsFiniteSet(Ids)
    BY FS_Interval DEF LedgerInv, TableInv
  <2> QED BY <1>3, <2>1, FS_Subset, FS_CardinalityType
<1>5. \A k \in DOMAIN promote' : order[k] \in Passed /\ promote'[k] = Latest(order[k])
  BY <1>1, <1>2
<1>6. DOMAIN promote' = 1 .. Cardinality(Passed)
  BY <1>1, <1>2
<1>7. promote' \in Seq(Nat)
  BY StartWriteKeeps DEF LedgerInv, HeldPromotions
<1>8. Len(promote') = Cardinality(Passed)
  BY <1>4, <1>6, <1>7
<1> QED BY <1>3, <1>5, <1>8

LEMMA HeldAreFirstKeeps ==
  ASSUME LedgerInv, HeldAreFirst, [Next]_vars
  PROVE  HeldAreFirst'
<1>1. IsTable(rows) /\ \A k \in DOMAIN promote : promote[k] \in DOMAIN rows
  BY DEF LedgerInv, TableInv, HeldPromotions
<1>2. ASSUME rows' = rows PROVE \A b : FirstOfVersion(b)' = FirstOfVersion(b)
  BY <1>2 DEF FirstOfVersion
<1>3. CASE SkipTask \/ AppendDraft \/ Qa \/ Revise \/ FinishWrite \/ Abort
  <2>1. pc' \notin {"append", "promote"}
    BY <1>3 DEF SkipTask, AppendDraft, Qa, Revise, FinishWrite, Abort
  <2> QED BY <2>1 DEF HeldAreFirst
<1>4. CASE ReadTarget
  <2>1. rows' = rows /\ pc' = "append" /\ draft' = SupersedeTarget(at)
    BY <1>4 DEF ReadTarget
  <2>2. CASE RowsAbout(at) = {}
    BY <2>1, <2>2 DEF SupersedeTarget, HeldAreFirst
  <2>3. CASE RowsAbout(at) # {}
    <3> DEFINE i == Highest(RowsAbout(at))
    <3>1. IsTop(rows, i, RowsAbout(at)) /\ draft'.base = i
      BY <1>1, <2>1, <2>3, HighestIsTop DEF SupersedeTarget, RowsAbout
    <3> HIDE DEF i
    <3>2. i \in DOMAIN rows /\ rows[i].task = at
      BY <3>1 DEF IsTop, RowsAbout
    <3>3. ASSUME NEW j \in DOMAIN rows, rows[j].id = rows[i].id, rows[j].ver = rows[i].ver
          PROVE  i <= j
      <4>1. j \in RowsAbout(at)
        BY <3>2, <3>3 DEF RowsAbout, LedgerInv, TableInv, OneIdPerTask
      <4>2. rows[j].ver \in Nat
        BY <1>1, TableHasRows
      <4> QED BY <3>1, <3>3, <4>1, <4>2 DEF IsTop
    <3>4. FirstOfVersion(i)
      BY <3>3 DEF FirstOfVersion
    <3>5. FirstOfVersion(draft.base)'
      BY <2>1, <3>1, <3>4 DEF FirstOfVersion
    <3> QED BY <2>1, <3>5 DEF HeldAreFirst
  <2> QED BY <2>2, <2>3
<1>5. CASE StartWrite
  <2>1. rows' = rows /\ pc' = "promote"
    BY <1>5 DEF StartWrite
  <2>2. \A k \in DOMAIN promote' : FirstOfVersion(promote[k])'
    <3> SUFFICES ASSUME NEW k \in DOMAIN promote' PROVE FirstOfVersion(promote[k])'
      OBVIOUS
    <3>1. PICK id \in Ids : promote'[k] = Latest(id)
      BY <1>5, StartWriteReads
    <3>2. FirstOfVersion(Latest(id))
      BY <1>1, TopIsFirst
    <3> QED BY <2>1, <3>1, <3>2 DEF FirstOfVersion
  <2> QED BY <2>1, <2>2 DEF HeldAreFirst
<1>6. CASE Promote
  <2>1. PICK r : Grows(r)
    BY <1>6, PromoteInserts DEF Inserts
  <2>2. pc = "promote" /\ pc' = "promote" /\ promote' = promote
    BY <1>6 DEF Promote
  <2>3. \A k \in DOMAIN promote : FirstOfVersion(promote[k])'
    BY <1>1, <2>1, <2>2, FirstStays DEF HeldAreFirst
  <2> QED BY <2>2, <2>3 DEF HeldAreFirst
<1>7. CASE \E id \in Ids : Correct(id)
  <2>1. PICK r : Grows(r)
    BY <1>7, CorrectInserts DEF Inserts
  <2>2. pc' = pc /\ promote' = promote /\ draft' = draft
    BY <1>7 DEF Correct
  <2>3. pc = "promote" => \A k \in DOMAIN promote : FirstOfVersion(promote[k])'
    BY <1>1, <2>1, <2>2, FirstStays DEF HeldAreFirst
  <2>4. pc = "append" /\ draft.base # 0 => FirstOfVersion(draft.base)'
    <3> SUFFICES ASSUME pc = "append", draft.base # 0 PROVE FirstOfVersion(draft.base)'
      OBVIOUS
    <3>1. draft.base \in DOMAIN rows
      BY DEF LedgerInv, HeldDraft, RowsAbout
    <3> QED BY <1>1, <2>1, <2>2, <3>1, FirstStays DEF HeldAreFirst
  <2> QED BY <2>2, <2>3, <2>4 DEF HeldAreFirst
<1>8. CASE UNCHANGED vars
  BY <1>8 DEF vars, HeldAreFirst, FirstOfVersion
<1> QED BY <1>3, <1>4, <1>5, <1>6, <1>7, <1>8 DEF Next

----------------------------------------------------------------------------
\* How many rows there can be.

\* There are no more claims than tasks that have rows.
LEMMA IdsAreFew ==
  ASSUME TableInv, NEW S, S \subseteq Tasks, \A i \in DOMAIN rows : rows[i].task \in S
  PROVE  Cardinality(Ids) \in Nat /\ Cardinality(S) \in Nat
         /\ Cardinality(Ids) <= Cardinality(S)
<1> DEFINE about == [id \in Ids |-> rows[Latest(id)].task]
<1>1. IsFiniteSet(Ids) /\ Cardinality(Ids) \in Nat
  BY FS_Interval, FS_CardinalityType DEF TableInv
<1>2. IsFiniteSet(S) /\ Cardinality(S) \in Nat
  <2>1. IsFiniteSet(Tasks)
    BY SmallLedger, FS_Interval DEF Tasks
  <2> QED BY <2>1, FS_Subset, FS_CardinalityType
<1>3. \A id \in Ids : Latest(id) \in DOMAIN rows /\ rows[Latest(id)].id = id
  BY LatestIsNotOutbid DEF TableInv
<1>4. about \in [Ids -> S]
  BY <1>3
<1>5. \A x, y \in Ids : about[x] = about[y] => x = y
  BY <1>3 DEF TableInv, OneIdPerTask
<1> HIDE DEF about
<1>6. ~ (Cardinality(S) < Cardinality(Ids))
  BY <1>1, <1>2, <1>4, <1>5, FS_PigeonHole
<1> QED BY <1>1, <1>2, <1>6

LEMMA ClaimsAreFew ==
  ASSUME TableInv
  PROVE  Cardinality(Ids) \in Nat /\ Cardinality(Ids) <= NumTasks
<1>1. \A i \in DOMAIN rows : rows[i].task \in Tasks
  <2>1. \A q \in RowType : q.task \in Tasks
    BY DEF RowType
  <2> QED BY <2>1, TableHasRows DEF TableInv
<1>2. Cardinality(Tasks) = NumTasks
  BY SmallLedger, FS_Interval DEF Tasks
<1> QED BY <1>1, <1>2, IdsAreFew

LEMMA CountedKeeps ==
  ASSUME LedgerInv, Counted, [Next]_vars
  PROVE  Counted'
<1>1. /\ NumTasks \in Nat \ {0} /\ Cap \in Nat /\ MaxCorrections \in Nat
      /\ IsTable(rows) /\ at \in Nat \ {0} /\ round \in Nat
  BY SmallLedger DEF LedgerInv, TableInv, Counted
<1>2. Drafts \in Nat
  BY <1>1 DEF Drafts
<1>3. Corrections \in Nat /\ FromPipeline \in Int
  BY <1>1, CorrectionsCount, TableHasRows DEF FromPipeline
<1>4. round' = round => Drafts' = Drafts
  BY DEF Drafts
<1>5. rows' = rows => Corrections' = Corrections /\ FromPipeline' = FromPipeline
  BY DEF Corrections, FromPipeline
<1>6. CASE SkipTask
  <2>1. /\ rows' = rows /\ round' = round /\ pc = "analyze" /\ pc' = pc
        /\ at' = at + 1 /\ at <= NumTasks
    BY <1>6 DEF SkipTask
  <2> QED BY <1>1, <1>2, <1>3, <1>4, <1>5, <2>1 DEF Counted
<1>7. CASE ReadTarget
  <2>1. /\ rows' = rows /\ round' = round /\ pc = "analyze" /\ pc' = "append"
        /\ at' = at
    BY <1>7 DEF ReadTarget
  <2> QED BY <1>1, <1>2, <1>3, <1>4, <1>5, <2>1 DEF Counted
<1>8. CASE AppendDraft
  <2>1. PICK r : Grows(r) /\ r.writer = "pipeline"
    BY <1>8, AppendDraftInserts DEF Inserts
  <2>2. Corrections' = Corrections /\ FromPipeline' = FromPipeline + 1
    BY <1>1, <2>1, CorrectionsGrow
  <2>3. /\ round' = round /\ pc = "append" /\ pc' = "analyze" /\ at' = at + 1
        /\ at <= NumTasks
    BY <1>1, <1>8 DEF AppendDraft, LedgerInv, HeldDraft, Tasks
  <2> QED BY <1>1, <1>2, <1>3, <1>4, <2>2, <2>3 DEF Counted
<1>9. CASE Qa
  <2>1. /\ rows' = rows /\ round' = round /\ pc = "analyze" /\ pc' = "route" /\ at' = at
    BY <1>9 DEF Qa
  <2> QED BY <1>1, <1>2, <1>3, <1>4, <1>5, <2>1 DEF Counted
<1>10. CASE Revise
  <2>1. /\ rows' = rows /\ round' = round + 1 /\ round < Cap
        /\ pc = "route" /\ pc' = "analyze" /\ at' = 1
    BY <1>10 DEF Revise
  <2>2. Drafts' = Drafts + NumTasks
    BY <1>1, <2>1 DEF Drafts
  <2> QED BY <1>1, <1>2, <1>3, <1>5, <2>1, <2>2 DEF Counted
<1>11. CASE StartWrite
  <2>1. /\ rows' = rows /\ round' = round /\ pc = "route" /\ pc' = "promote" /\ at' = 1
    BY <1>11 DEF StartWrite
  <2>2. Len(promote') \in Nat /\ Len(promote') <= NumTasks
    <3>1. Cardinality(Ids) \in Nat /\ Cardinality(Ids) <= NumTasks
      BY ClaimsAreFew DEF LedgerInv
    <3>2. IsFiniteSet(Ids)
      BY FS_Interval DEF LedgerInv, TableInv
    <3>3. Len(promote') = Cardinality(Passed) /\ Passed \subseteq Ids
      BY <1>11, StartWriteReads
    <3>4. Cardinality(Passed) \in Nat /\ Cardinality(Passed) <= Cardinality(Ids)
      BY <3>2, <3>3, FS_Subset, FS_CardinalityType
    <3> QED BY <1>1, <3>1, <3>3, <3>4
  <2> QED BY <1>1, <1>2, <1>3, <1>4, <1>5, <2>1, <2>2 DEF Counted
<1>12. CASE Promote
  <2>1. PICK r : Grows(r) /\ r.writer = "pipeline"
    BY <1>12, PromoteInserts DEF Inserts
  <2>2. Corrections' = Corrections /\ FromPipeline' = FromPipeline + 1
    BY <1>1, <2>1, CorrectionsGrow
  <2>3. /\ round' = round /\ pc = "promote" /\ pc' = "promote" /\ at' = at + 1
        /\ at <= Len(promote) /\ promote' = promote
    BY <1>12 DEF Promote
  <2>4. Len(promote) \in Nat
    BY DEF LedgerInv, HeldPromotions
  <2> QED BY <1>1, <1>2, <1>3, <1>4, <2>2, <2>3, <2>4 DEF Counted
<1>13. CASE FinishWrite \/ Abort
  <2>1. rows' = rows /\ round' = round /\ pc' \in {"done", "failed"}
    BY <1>13 DEF FinishWrite, Abort
  <2> QED BY <1>4, <1>5, <2>1 DEF Counted
<1>14. CASE \E id \in Ids : Correct(id)
  <2>1. PICK r : Grows(r) /\ r.writer = "reviewer"
    BY <1>14, CorrectInserts DEF Inserts
  <2>2. Corrections' = Corrections + 1 /\ FromPipeline' = FromPipeline
    BY <1>1, <2>1, CorrectionsGrow
  <2>3. UNCHANGED <<pc, at, promote, round>> /\ Corrections < MaxCorrections
    BY <1>14 DEF Correct
  <2> QED BY <1>1, <1>3, <1>4, <2>2, <2>3 DEF Counted
<1>15. CASE UNCHANGED vars
  BY <1>4, <1>5, <1>15 DEF vars, Counted
<1> QED BY <1>6, <1>7, <1>8, <1>9, <1>10, <1>11, <1>12, <1>13, <1>14, <1>15 DEF Next

LEMMA RegisterInvAlways == Spec => []RegisterInv
<1>1. Init => RegisterInv
  <2> SUFFICES ASSUME Init PROVE RegisterInv
    OBVIOUS
  <2>1. rows = <<>> /\ pc = "analyze" /\ at = 1 /\ round = 0
    BY DEF Init
  <2>2. {i \in DOMAIN rows : rows[i].writer = "reviewer"} = {} /\ Len(rows) = 0
    BY <2>1
  <2>3. Corrections = 0 /\ FromPipeline = 0
    BY <2>2, FS_EmptySet DEF Corrections, FromPipeline
  <2>4. Drafts = 0
    BY <2>1, SmallLedger DEF Drafts
  <2>5. Counted
    BY <2>1, <2>3, <2>4, SmallLedger DEF Counted
  <2> QED BY <2>1, <2>5, InitHolds DEF RegisterInv, HeldAreFirst
<1>2. RegisterInv /\ [Next]_vars => RegisterInv'
  BY LedgerStep, HeldAreFirstKeeps, CountedKeeps DEF RegisterInv
<1> QED BY <1>1, <1>2, PTL DEF Spec

LEMMA RowsAreFew ==
  ASSUME NEW n \in Nat, NEW c \in Nat, NEW k \in 0 .. Cap, c <= MaxCorrections,
         n - c <= k * NumTasks + 2 * NumTasks
  PROVE  n <= MaxRows /\ MaxRows \in Nat
<1>1. NumTasks \in Nat /\ Cap \in Nat /\ MaxCorrections \in Nat /\ k \in Nat /\ k <= Cap
  BY SmallLedger
<1>2. k * NumTasks \in Nat /\ NumTasks * Cap \in Nat /\ k * NumTasks <= NumTasks * Cap
  BY <1>1
<1>3. MaxRows = NumTasks * Cap + 2 * NumTasks + MaxCorrections
  BY <1>1 DEF MaxRows
<1> QED BY <1>1, <1>2, <1>3

----------------------------------------------------------------------------
\* Each insertion is a step of the register.

Shown(t) == IF RowsAbout(t) = {} THEN 0 ELSE Highest(RowsAbout(t))

\* r was prepared against what its writer had read of the task.
Prepared(r) ==
  IF RowsAbout(r.task) = {} THEN r.base = 0 /\ r.ver = 1
  ELSE /\ r.base \in RowsAbout(r.task)
       /\ r.ver = rows[r.base].ver + 1
       /\ FirstOfVersion(r.base)

LEMMA NextInserts ==
  ASSUME RegisterInv, [Next]_vars
  PROVE  \/ rows' = rows
         \/ \E r : Inserts(r) /\ Prepared(r)
<1>1. CASE AppendDraft
  <2>1. PICK r : /\ Inserts(r) /\ r.task = at /\ r.ver = draft.ver /\ r.base = draft.base
    BY <1>1, AppendDraftInserts DEF RegisterInv
  <2>2. pc = "append"
    BY <1>1 DEF AppendDraft
  <2>3. CASE RowsAbout(at) = {}
    BY <2>1, <2>2, <2>3 DEF Prepared, RegisterInv, LedgerInv, HeldDraft
  <2>4. CASE RowsAbout(at) # {}
    <3>1. draft.base \in RowsAbout(at) /\ draft.ver = rows[draft.base].ver + 1
      BY <2>2, <2>4 DEF RegisterInv, LedgerInv, HeldDraft
    <3>2. draft.base # 0
      BY <3>1, TableHasRows DEF RegisterInv, LedgerInv, TableInv, RowsAbout
    <3>3. FirstOfVersion(draft.base)
      BY <2>2, <3>2 DEF RegisterInv, HeldAreFirst
    <3> QED BY <2>1, <2>4, <3>1, <3>3 DEF Prepared
  <2> QED BY <2>3, <2>4
<1>2. CASE Promote
  <2> DEFINE b == promote[at]
  <2>1. PICK r : Inserts(r) /\ r.task = rows[b].task /\ r.ver = rows[b].ver + 1 /\ r.base = b
    BY <1>2, PromoteInserts DEF RegisterInv
  <2>2. b \in DOMAIN rows /\ FirstOfVersion(b)
    BY <1>2, PromoteInserts DEF RegisterInv, HeldAreFirst, Promote
  <2> HIDE DEF b
  <2>3. b \in RowsAbout(r.task)
    BY <2>1, <2>2 DEF RowsAbout
  <2> QED BY <2>1, <2>2, <2>3 DEF Prepared
<1>3. CASE \E id \in Ids : Correct(id)
  <2>1. PICK id \in Ids : Correct(id)
    BY <1>3
  <2> DEFINE b == Latest(id)
  <2>2. PICK r : Inserts(r) /\ r.task = rows[b].task /\ r.ver = rows[b].ver + 1 /\ r.base = b
    BY <2>1, CorrectInserts DEF RegisterInv
  <2>3. b \in DOMAIN rows /\ FirstOfVersion(b)
    BY LatestIsTop, TopIsFirst DEF RegisterInv, LedgerInv, TableInv
  <2> HIDE DEF b
  <2>4. b \in RowsAbout(r.task)
    BY <2>2, <2>3 DEF RowsAbout
  <2> QED BY <2>2, <2>3, <2>4 DEF Prepared
<1>4. CASE SkipTask \/ ReadTarget \/ Qa \/ Revise \/ StartWrite \/ FinishWrite \/ Abort
           \/ UNCHANGED vars
  BY <1>4 DEF SkipTask, ReadTarget, Qa, Revise, StartWrite, FinishWrite, Abort, vars
<1> QED BY <1>1, <1>2, <1>3, <1>4 DEF Next

LEMMA HighestIsTopNext ==
  ASSUME IsTable(rows'), NEW t, RowsAbout(t)' # {}
  PROVE  IsTop(rows', Highest(RowsAbout(t))', RowsAbout(t)')
<1>1. RowsAbout(t)' \subseteq DOMAIN rows'
  BY DEF RowsAbout
<1>2. Highest(RowsAbout(t))' = TopOf(rows', RowsAbout(t)')
  BY DEF Highest, TopOf
<1> QED BY <1>1, <1>2, TopIsThere

\* The other tasks show what they showed.
LEMMA OtherTasksStay ==
  ASSUME IsTable(rows), NEW r, Grows(r), NEW t, t # r.task
  PROVE  Shown(t)' = Shown(t)
<1> DEFINE S == RowsAbout(t)
<1>1. S' = S /\ S \subseteq DOMAIN rows /\ S \subseteq DOMAIN rows'
  <2>1. DOMAIN rows \subseteq DOMAIN rows'
    BY OneRowMore
  <2> QED BY <2>1, SetsGrow DEF RowsAbout
<1>2. IsTable(rows') /\ \A i \in S : rows'[i] = rows[i]
  BY <1>1, OneRowMore
<1>3. CASE S = {}
  BY <1>1, <1>3 DEF Shown
<1>4. CASE S # {}
  <2>1. IsTop(rows, Highest(S), S)
    BY <1>1, <1>4, HighestIsTop
  <2>2. IsTop(rows', Highest(RowsAbout(t))', S)
    BY <1>1, <1>2, <1>4, HighestIsTopNext
  <2>3. IsTop(rows', Highest(S), S)
    <3> HIDE DEF S
    <3> QED BY <1>2, <2>1 DEF IsTop
  <2>4. Highest(RowsAbout(t))' = Highest(S)
    BY <1>1, <1>2, <2>2, <2>3, TopIsOne
  <2> QED BY <1>1, <1>4, <2>4 DEF Shown
<1> QED BY <1>3, <1>4

\* r shows if and only if what it was based on was still shown.
LEMMA ShowsIfCurrent ==
  ASSUME TableInv, NEW r, Inserts(r), Prepared(r)
  PROVE  Shown(r.task)' = IF r.base = Shown(r.task) THEN Len(rows) + 1 ELSE Shown(r.task)
<1> DEFINE n == Len(rows)
           S == RowsAbout(r.task)
           h == Highest(S)
<1>1. /\ IsTable(rows) /\ IsTable(rows') /\ n \in Nat /\ DOMAIN rows = 1 .. n
      /\ DOMAIN rows' = 1 .. (n + 1) /\ rows'[n + 1] = r
      /\ \A i \in 1 .. n : rows'[i] = rows[i]
  BY OneRowMore DEF TableInv, Inserts
<1>2. S' = S \cup {n + 1} /\ S \subseteq 1 .. n /\ S' \subseteq DOMAIN rows'
  BY <1>1, SetsGrow DEF RowsAbout, Inserts
<1>3. /\ S' # {} /\ IsTop(rows', Highest(RowsAbout(r.task))', S')
      /\ Shown(r.task)' = Highest(RowsAbout(r.task))'
  BY <1>1, <1>2, HighestIsTopNext DEF Shown
<1>4. \A i \in 1 .. n : rows[i].ver \in Nat
  BY <1>1, TableHasRows
<1>5. ASSUME NEW x, IsTop(rows', x, S') PROVE Shown(r.task)' = x
  BY <1>1, <1>2, <1>3, <1>5, TopIsOne
<1>6. CASE S = {}
  <2>1. Shown(r.task) = 0 /\ r.base = 0 /\ r.ver \in Nat
    BY <1>6 DEF Shown, Prepared
  <2>2. IsTop(rows', n + 1, S')
    BY <1>1, <1>2, <1>6, <2>1 DEF IsTop
  <2> QED BY <1>5, <2>1, <2>2
<1>7. CASE S # {}
  <2>1. /\ Shown(r.task) = h /\ r.base \in S /\ r.ver = rows[r.base].ver + 1
        /\ FirstOfVersion(r.base)
    BY <1>7 DEF Shown, Prepared
  <2>2. IsTop(rows, h, S)
    BY <1>1, <1>2, <1>7, HighestIsTop
  <2>3. h \in S /\ h \in 1 .. n /\ r.base \in 1 .. n
        /\ rows[h].ver \in Nat /\ rows[r.base].ver \in Nat
    BY <1>2, <1>4, <2>1, <2>2 DEF IsTop
  <2>4. \A i \in S : rows'[i] = rows[i] /\ i \in 1 .. n /\ rows[i].ver \in Nat
    BY <1>1, <1>2, <1>4
  <2>5. CASE r.base = h
    <3> HIDE DEF h, S, n
    <3>1. \A j \in S : r.ver > rows'[j].ver
      BY <2>1, <2>2, <2>3, <2>4, <2>5 DEF IsTop
    <3>2. IsTop(rows', n + 1, S')
      <4>1. rows'[n + 1].ver = r.ver /\ n + 1 \in S' /\ n + 1 <= n + 1
        BY <1>1, <1>2
      <4>2. \A j \in S' : j \in S \/ j = n + 1
        BY <1>2
      <4> QED BY <3>1, <4>1, <4>2 DEF IsTop
    <3>3. Shown(r.task)' = n + 1
      BY <1>5, <3>2
    <3> QED BY <2>1, <2>5, <3>3 DEF n
  <2>6. CASE r.base # h
    <3>1. rows[r.base].id = rows[h].id
      BY <1>1, <2>1, <2>3 DEF RowsAbout, TableInv, OneIdPerTask
    <3> HIDE DEF h, S, n
    <3>2. rows[h].ver > rows[r.base].ver
      <4>1. rows[h].ver > rows[r.base].ver \/ (rows[h].ver = rows[r.base].ver /\ h <= r.base)
        BY <2>1, <2>2 DEF IsTop
      <4>2. rows[h].ver # rows[r.base].ver \/ r.base <= h
        BY <1>1, <2>1, <2>3, <3>1 DEF FirstOfVersion
      <4> QED BY <1>1, <2>3, <2>6, <4>1, <4>2
    <3>3. r.ver <= rows[h].ver /\ r.ver \in Nat /\ h <= n + 1
      BY <1>1, <2>1, <2>3, <3>2
    <3>4. \A j \in S' : rows'[h].ver > rows'[j].ver \/ (rows'[h].ver = rows'[j].ver /\ h <= j)
      <4> SUFFICES ASSUME NEW j \in S'
                   PROVE  rows'[h].ver > rows'[j].ver
                          \/ (rows'[h].ver = rows'[j].ver /\ h <= j)
        OBVIOUS
      <4>1. CASE j \in S
        BY <2>2, <2>3, <2>4, <4>1 DEF IsTop
      <4>2. CASE j = n + 1
        BY <1>1, <2>3, <2>4, <3>3, <4>2
      <4> QED BY <1>2, <4>1, <4>2
    <3>5. IsTop(rows', h, S')
      BY <1>2, <2>3, <3>4 DEF IsTop
    <3> QED BY <1>5, <2>1, <2>6, <3>5
  <2> QED BY <2>5, <2>6
<1> QED BY <1>6, <1>7

\* To a reader the table is the register: whatever the pipeline inserts between two
\* windows on the strength of a row that corrections have outbid never shows, and the
\* table never has more rows than the tasks, rounds and corrections allow.
THEOREM LedgerImplementsRegister == Spec => ImplementsRegister
<1>1. Init => Register!Init
  <2> SUFFICES ASSUME Init PROVE Register!Init
    OBVIOUS
  <2>1. rows = <<>> /\ \A t : RowsAbout(t) = {}
    BY DEF Init, RowsAbout
  <2>2. [t \in Tasks |-> IF RowsAbout(t) = {} THEN 0 ELSE Highest(RowsAbout(t))]
          = [t \in Tasks |-> 0]
    BY <2>1
  <2>3. [i \in DOMAIN rows |-> rows[i].base] = [v \in {} |-> 0]
    BY <2>1
  <2> QED BY <2>2, <2>3 DEF Register!Init
<1>2. RegisterInv /\ RegisterInv' /\ [Next]_vars => [Register!Next]_(Register!vars)
  <2> SUFFICES ASSUME RegisterInv, RegisterInv', [Next]_vars
               PROVE  [Register!Next]_(Register!vars)
    OBVIOUS
  <2>1. CASE rows' = rows
    BY <2>1 DEF Register!vars, RowsAbout, Highest
  <2>2. CASE \E r : Inserts(r) /\ Prepared(r)
    <3>1. PICK r : Inserts(r) /\ Prepared(r)
      BY <2>2
    <3> DEFINE n     == Len(rows)
               shows == [t \in Tasks |-> Shown(t)]
               bases == [i \in DOMAIN rows |-> rows[i].base]
    <3>2. /\ n \in Nat /\ DOMAIN rows = 1 .. n /\ DOMAIN rows' = 1 .. (n + 1)
          /\ Len(rows') = n + 1 /\ rows'[n + 1] = r /\ \A i \in 1 .. n : rows'[i] = rows[i]
          /\ TableInv /\ IsTable(rows) /\ Grows(r)
      BY <3>1, OneRowMore DEF RegisterInv, LedgerInv, TableInv, Inserts
    <3>3. n + 1 \in (1 .. MaxRows) \ DOMAIN rows /\ MaxRows \in Nat
      <4>1. Corrections' \in Nat
        BY <3>2, CorrectionsGrow
      <4>2. /\ round' \in 0 .. Cap /\ Corrections' <= MaxCorrections
            /\ Len(rows') - Corrections' <= round' * NumTasks + 2 * NumTasks
        BY DEF RegisterInv, Counted, FromPipeline, Drafts
      <4> HIDE DEF n
      <4>3. n + 1 <= MaxRows /\ MaxRows \in Nat
        BY <3>2, <4>1, <4>2, RowsAreFew
      <4> QED BY <3>2, <4>3
    <3>4. r.task \in Tasks /\ r.base \in DOMAIN rows \cup {0}
      BY <3>1, <3>2 DEF Prepared, RowsAbout, Grows, RowType
    <3>5. shows' = [shows EXCEPT ![r.task] = IF r.base = shows[r.task] THEN n + 1 ELSE @]
      <4>1. \A t \in Tasks : Shown(t)' = IF t = r.task /\ r.base = Shown(t) THEN n + 1
                                         ELSE Shown(t)
        BY <3>1, <3>2, ShowsIfCurrent, OtherTasksStay
      <4> QED BY <3>4, <4>1
    <3>6. bases' = [w \in DOMAIN bases \cup {n + 1} |->
                      IF w = n + 1 THEN r.base ELSE bases[w]]
      <4> HIDE DEF n
      <4> QED BY <3>2
    <3>7. /\ shows = [t \in Tasks |-> IF RowsAbout(t) = {} THEN 0
                                      ELSE Highest(RowsAbout(t))]
          /\ DOMAIN bases = DOMAIN rows
      BY DEF Shown
    <3>8. Register!Submit(r.task, n + 1, r.base)
      <4>1. shows' = [t \in Tasks |-> IF RowsAbout(t) = {} THEN 0
                                      ELSE Highest(RowsAbout(t))]'
        BY DEF Shown
      <4> HIDE DEF n, shows
      <4> QED BY <3>3, <3>4, <3>5, <3>6, <3>7, <4>1 DEF Register!Submit
    <3>9. r.base \in (1 .. MaxRows) \cup {0}
      BY <3>2, <3>3, <3>4
    <3> QED BY <3>3, <3>4, <3>8, <3>9 DEF Register!Next
  <2> QED BY <2>1, <2>2, NextInserts
<1> QED BY <1>1, <1>2, RegisterInvAlways, PTL DEF Spec, ImplementsRegister, Register!Spec

----------------------------------------------------------------------------
(***************************************************************************)
(* The types, with the bounds that the counting above gives: one id for    *)
(* each task, a version for each row, and a base that was there before.    *)
(***************************************************************************)
RowsTyped == \A i \in DOMAIN rows : rows[i].ver >= 1 /\ rows[i].base < i

PipelineTyped ==
  /\ pc \in {"analyze", "append", "route", "promote", "done", "failed"}
  /\ at <= NumTasks + 1
  /\ draft \in [id : 0 .. NumTasks, ver : 0 .. MaxRows, base : 0 .. MaxRows]
  /\ verdict \in {"pass", "reject"}
  /\ flagged \subseteq Ids

TypeInv == RegisterInv /\ RowsTyped /\ PipelineTyped

\* There is room for the rows, and for a draft that is still to come.
LEMMA RoomForRows ==
  ASSUME RegisterInv
  PROVE  /\ MaxRows \in Nat /\ Len(rows) \in Nat /\ Len(rows) <= MaxRows
         /\ pc = "analyze" /\ at <= NumTasks => Len(rows) + 1 <= MaxRows
<1>1. /\ IsTable(rows) /\ at \in Nat /\ NumTasks \in Nat \ {0} /\ round \in 0 .. Cap
      /\ Corrections <= MaxCorrections
      /\ FromPipeline <= Drafts + 2 * NumTasks
      /\ pc = "analyze" => FromPipeline <= Drafts + (at - 1)
  BY SmallLedger DEF RegisterInv, LedgerInv, TableInv, Counted
<1>2. Len(rows) \in Nat /\ Corrections \in Nat
  BY <1>1, TableHasRows, CorrectionsCount
<1>3. FromPipeline = Len(rows) - Corrections /\ Drafts = round * NumTasks /\ Drafts \in Nat
  BY <1>1, SmallLedger DEF FromPipeline, Drafts
<1>4. Len(rows) <= MaxRows /\ MaxRows \in Nat
  BY <1>1, <1>2, <1>3, RowsAreFew
<1>5. ASSUME pc = "analyze", at <= NumTasks PROVE Len(rows) + 1 <= MaxRows
  <2>1. (Len(rows) + 1) - Corrections <= round * NumTasks + 2 * NumTasks
    BY <1>1, <1>2, <1>3, <1>5
  <2>2. Len(rows) + 1 \in Nat
    BY <1>2
  <2> QED BY <1>1, <1>2, <2>1, <2>2, RowsAreFew
<1> QED BY <1>2, <1>4, <1>5

LEMMA RowsTypedKeeps ==
  ASSUME RegisterInv, RowsTyped, [Next]_vars
  PROVE  RowsTyped'
<1>1. CASE rows' = rows
  BY <1>1 DEF RowsTyped
<1>2. CASE \E r : Inserts(r) /\ Prepared(r)
  <2>1. PICK r : Inserts(r) /\ Prepared(r)
    BY <1>2
  <2>2. /\ Len(rows) \in Nat /\ DOMAIN rows = 1 .. Len(rows)
        /\ DOMAIN rows' = 1 .. (Len(rows) + 1) /\ rows'[Len(rows) + 1] = r
        /\ \A i \in DOMAIN rows : rows'[i] = rows[i] /\ rows[i].ver \in Nat
    BY <2>1, OneRowMore, TableHasRows DEF RegisterInv, LedgerInv, TableInv, Inserts
  <2>3. r.ver >= 1 /\ r.base <= Len(rows) /\ r.base \in Nat
    BY <2>1, <2>2 DEF Prepared, RowsAbout
  <2> QED BY <2>2, <2>3 DEF RowsTyped
<1> QED BY <1>1, <1>2, NextInserts

\* What build_claim may take from supersede_target.
LEMMA TargetTyped ==
  ASSUME RegisterInv, pc = "analyze", at <= NumTasks
  PROVE  SupersedeTarget(at) \in [id : 0 .. NumTasks, ver : 0 .. MaxRows, base : 0 .. MaxRows]
<1>1. /\ IsTable(rows) /\ TableInv /\ at \in Tasks
  BY DEF RegisterInv, LedgerInv, TableInv, Tasks
<1>2. /\ NumTasks \in Nat /\ MaxRows \in Nat /\ Len(rows) \in Nat
      /\ Len(rows) + 1 <= MaxRows /\ DOMAIN rows = 1 .. Len(rows)
  BY <1>1, SmallLedger, RoomForRows, TableHasRows
<1>3. PICK m \in Nat : Ids = 1 .. m
  BY <1>1 DEF TableInv
<1>4. Cardinality(Ids) = m
  BY <1>3, FS_Interval
<1>5. CASE RowsAbout(at) = {}
  <2> DEFINE S == Tasks \ {at}
  <2>1. IsFiniteSet(Tasks) /\ Cardinality(Tasks) = NumTasks
    BY <1>2, FS_Interval DEF Tasks
  <2>2. Cardinality(S) = NumTasks - 1
    BY <1>1, <2>1, FS_RemoveElement
  <2>3. \A i \in DOMAIN rows : rows[i].task \in S
    <3>1. \A q \in RowType : q.task \in Tasks
      BY DEF RowType
    <3> QED BY <1>1, <1>5, <3>1, TableHasRows DEF RowsAbout
  <2> HIDE DEF S
  <2>4. Cardinality(Ids) <= Cardinality(S)
    <3>1. S \subseteq Tasks
      BY DEF S
    <3> QED BY <1>1, <2>3, <3>1, IdsAreFew
  <2>5. m + 1 <= NumTasks
    BY <1>2, <1>4, <2>2, <2>4
  <2> QED BY <1>2, <1>4, <1>5, <2>5 DEF SupersedeTarget
<1>6. CASE RowsAbout(at) # {}
  <2> DEFINE h == Highest(RowsAbout(at))
  <2>1. h \in RowsAbout(at)
    BY <1>1, <1>6, HighestIsTop DEF IsTop, RowsAbout
  <2>2. SupersedeTarget(at) = [id |-> rows[h].id, ver |-> rows[h].ver + 1, base |-> h]
    BY <1>6 DEF SupersedeTarget
  <2> HIDE DEF h
  <2>3. h \in 1 .. Len(rows) /\ rows[h].ver \in Nat /\ rows[h].ver <= Len(rows)
    BY <1>1, <1>2, <2>1, TableHasRows DEF RowsAbout, IsTable
  <2>4. rows[h].id \in 1 .. m /\ m <= NumTasks
    <3>1. rows[h].id \in Ids
      BY <1>2, <2>3 DEF Ids
    <3> QED BY <1>1, <1>3, <1>4, <3>1, ClaimsAreFew
  <2> QED BY <1>2, <2>2, <2>3, <2>4
<1> QED BY <1>5, <1>6

LEMMA PipelineTypedKeeps ==
  ASSUME RegisterInv, RegisterInv', PipelineTyped, [Next]_vars
  PROVE  PipelineTyped'
<1>1. MaxRows' = MaxRows /\ MaxRows \in Nat /\ NumTasks \in Nat \ {0} /\ at \in Nat \ {0}
  BY RoomForRows, SmallLedger DEF MaxRows, RegisterInv, LedgerInv
<1>2. ASSUME rows' = rows PROVE Ids' = Ids
  BY <1>2 DEF Ids
<1>3. ASSUME UNCHANGED <<rows, draft, verdict, flagged>>, at' <= NumTasks + 1,
             pc' \in {"analyze", "append", "route", "promote", "done", "failed"}
      PROVE  PipelineTyped'
  BY <1>1, <1>2, <1>3 DEF PipelineTyped
<1>4. CASE SkipTask \/ Revise \/ StartWrite \/ FinishWrite \/ Abort \/ UNCHANGED vars
  <2>1. UNCHANGED <<rows, draft, verdict, flagged>>
    BY <1>4 DEF SkipTask, Revise, StartWrite, FinishWrite, Abort, vars
  <2>2. at' <= NumTasks + 1 /\ pc' \in {"analyze", "append", "route", "promote", "done", "failed"}
    BY <1>1, <1>4 DEF SkipTask, Revise, StartWrite, FinishWrite, Abort, vars, PipelineTyped
  <2> QED BY <1>3, <2>1, <2>2
<1>5. CASE ReadTarget
  <2>1. draft' \in [id : 0 .. NumTasks, ver : 0 .. MaxRows, base : 0 .. MaxRows]
    BY <1>5, TargetTyped DEF ReadTarget
  <2> QED BY <1>1, <1>2, <1>5, <2>1 DEF ReadTarget, PipelineTyped
<1>6. CASE Qa
  <2>1. /\ rows' = rows /\ at' = at /\ draft' = draft /\ pc' = "route"
        /\ flagged' \subseteq Ids /\ verdict' \in {"pass", "reject"}
    BY <1>6 DEF Qa
  <2> QED BY <1>1, <1>2, <2>1 DEF PipelineTyped
<1>7. CASE AppendDraft \/ Promote \/ \E id \in Ids : Correct(id)
  <2>1. PICK r : Grows(r)
    BY <1>7, AppendDraftInserts, PromoteInserts, CorrectInserts DEF RegisterInv, Inserts
  <2>2. flagged' = flagged /\ verdict' = verdict /\ flagged \subseteq Ids'
    <3>1. Ids' = Ids \cup {r.id}
      BY <2>1, SetsGrow DEF RegisterInv, LedgerInv, TableInv
    <3> QED BY <1>7, <3>1 DEF AppendDraft, Promote, Correct, PipelineTyped
  <2>3. draft' = draft \/ draft' = NoDraft
    BY <1>7 DEF AppendDraft, Promote, Correct
  <2>4. draft' \in [id : 0 .. NumTasks, ver : 0 .. MaxRows, base : 0 .. MaxRows]
    BY <1>1, <2>3 DEF NoDraft, PipelineTyped
  <2>5. pc' \in {pc, "analyze"} /\ at' <= NumTasks + 1
    <3>1. CASE AppendDraft
      BY <1>1, <3>1 DEF AppendDraft, RegisterInv, LedgerInv, HeldDraft, Tasks
    <3>2. CASE Promote
      <4>1. Len(promote) \in Nat /\ Len(promote) <= NumTasks
        BY <3>2 DEF Promote, RegisterInv, LedgerInv, HeldPromotions, Counted
      <4> QED BY <1>1, <3>2, <4>1 DEF Promote
    <3>3. CASE \E id \in Ids : Correct(id)
      BY <3>3 DEF Correct, PipelineTyped
    <3> QED BY <1>7, <3>1, <3>2, <3>3
  <2> QED BY <1>1, <2>2, <2>4, <2>5 DEF PipelineTyped
<1> QED BY <1>4, <1>5, <1>6, <1>7 DEF Next

LEMMA TypeInvAlways == Spec => []TypeInv
<1>1. Init => RowsTyped /\ PipelineTyped
  <2> SUFFICES ASSUME Init PROVE RowsTyped /\ PipelineTyped
    OBVIOUS
  <2>1. MaxRows \in Nat
    BY SmallLedger DEF MaxRows
  <2> QED BY <2>1, SmallLedger DEF Init, RowsTyped, PipelineTyped, NoDraft
<1>2. RegisterInv /\ RegisterInv' /\ RowsTyped /\ PipelineTyped /\ [Next]_vars
        => RowsTyped' /\ PipelineTyped'
  BY RowsTypedKeeps, PipelineTypedKeeps
<1> QED BY <1>1, <1>2, RegisterInvAlways, PTL DEF Spec, TypeInv

\* The claims table keeps its types and its bounds for any number of tasks, rounds and
\* corrections: at most one id for each task, no version beyond the number of rows
\* (db/_claims.py), and a row is based on a row that was there before.
THEOREM TypeCorrect == Spec => []TypeOK
<1>1. TypeInv => TypeOK
  <2> SUFFICES ASSUME TypeInv PROVE TypeOK
    OBVIOUS
  <2>1. /\ IsTable(rows) /\ TableInv /\ MaxRows \in Nat /\ Len(rows) \in Nat
        /\ Len(rows) <= MaxRows
    BY RoomForRows DEF TypeInv, RegisterInv, LedgerInv, TableInv
  <2>2. ASSUME NEW i \in DOMAIN rows
        PROVE  rows[i] \in [task : Tasks, id : 1 .. NumTasks, ver : 1 .. MaxRows,
                            status : {"draft", "pass", "rejected"}, by : {"analyst", Human},
                            flawed : BOOLEAN, writer : {"pipeline", "reviewer"},
                            base : 0 .. (i - 1)]
    <3>1. rows[i] \in RowType /\ i \in Nat
      BY <2>1, TableHasRows
    <3>2. rows[i].id \in 1 .. NumTasks
      <4>1. PICK m \in Nat : Ids = 1 .. m
        BY <2>1 DEF TableInv
      <4>2. m <= NumTasks /\ NumTasks \in Nat
        BY <2>1, <4>1, ClaimsAreFew, FS_Interval, SmallLedger
      <4>3. rows[i].id \in Ids
        BY DEF Ids
      <4> QED BY <4>1, <4>2, <4>3
    <3>3. rows[i].ver \in Nat /\ rows[i].base \in Nat
      BY <3>1 DEF RowType
    <3>4. rows[i].ver \in 1 .. MaxRows /\ rows[i].base \in 0 .. (i - 1)
      BY <2>1, <3>1, <3>3 DEF TypeInv, RowsTyped, IsTable
    <3> QED BY <3>1, <3>2, <3>4 DEF RowType
  <2>3. at \in 1 .. (NumTasks + 1)
    BY SmallLedger DEF TypeInv, PipelineTyped, RegisterInv, LedgerInv
  <2> QED BY <2>1, <2>2, <2>3 DEF TypeOK, TypeInv, PipelineTyped, RegisterInv, Counted,
                              LedgerInv, HeldPromotions
<1> QED BY <1>1, TypeInvAlways, PTL
=============================================================================
