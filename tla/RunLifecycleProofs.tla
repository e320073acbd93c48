------------------------ MODULE RunLifecycleProofs ------------------------
(***************************************************************************)
(* Theorems about RunLifecycle for any set of runs and any number of       *)
(* restarts.  Fairness is not used: these are safety properties.           *)
(***************************************************************************)
EXTENDS RunLifecycle, TLAPS

Working == {"preflight", "graph", "synthesis", "closing", "marking"}

\* What holds of one run r.  The thread's position says what the tables hold
\* until the thread is done; then the tables are left as they are.
RunInv(r) ==
  /\ thread[r] = "none" <=> status[r] = "absent"
  /\ thread[r] \in Working => status[r] = "running"
  /\ thread[r] \in {"none", "preflight", "graph"} => terminal[r] = <<>>
  /\ thread[r] \in {"synthesis", "closing"} => terminal[r] = <<EventOf(verdict[r])>>
  /\ status[r] \in Outcome => /\ thread[r] = "closed"
                              /\ terminal[r] = <<Event(status[r])>>

\* The types that matter for the proofs, and the reason why reaping is safe: a
\* process that has not opened the database has no thread.
LifeInv ==
  /\ status \in [Runs -> Final \cup {"absent", "running"}]
  /\ thread \in [Runs -> Threads]
  /\ verdict \in [Runs -> {"pass", "reject"}]
  /\ DOMAIN terminal = Runs
  /\ terminal = [r \in Runs |-> terminal[r]]
  /\ ~ up => ~ opened
  /\ ~ opened => \A r \in Runs : thread[r] \notin Alive
  /\ \A r \in Runs : RunInv(r)

\* There is no run and no thread before the first process starts.
LEMMA LifeInvInitially == Init => LifeInv
BY DEF Init, LifeInv, RunInv, Final, Threads, Alive, Working, Outcome, EventOf, Event

\* A step of r's own thread keeps what holds of r.
LEMMA ExecutorKeepsLifeInv ==
  ASSUME NEW r \in Runs, LifeInv, Executor(r)
  PROVE  LifeInv'
<1> USE DEF LifeInv, RunInv, Final, Threads, Alive, Working, Outcome, Event, EventOf,
            Step, process, database
<1>1. CASE PreflightOk(r)
  BY <1>1 DEF PreflightOk
<1>2. CASE PreflightRaises(r)
  BY <1>2 DEF PreflightRaises
<1>3. CASE WriteNode(r)
  <2>1. PICK v \in {"pass", "reject"} :
          /\ verdict' = [verdict EXCEPT ![r] = v]
          /\ terminal' = [terminal EXCEPT ![r] = Append(@, EventOf(v))]
    BY <1>3 DEF WriteNode
  <2>2. terminal[r] = <<>>
    BY <1>3 DEF WriteNode
  <2>3. Append(<<>>, EventOf(v)) = <<EventOf(v)>>
    OBVIOUS
  <2>4. terminal' = [terminal EXCEPT ![r] = <<EventOf(v)>>]
    BY <2>1, <2>2, <2>3
  <2> HIDE DEF EventOf, Event
  <2>5. DOMAIN terminal' = Runs /\ terminal' = [q \in Runs |-> terminal'[q]]
    BY <2>4
  <2>6. ASSUME NEW q \in Runs PROVE RunInv(q)'
    <3>1. CASE q = r
      <4>1. terminal'[r] = <<EventOf(v)>> /\ verdict'[r] = v
        BY <2>1, <2>4
      <4>2. thread[r] = "graph" /\ thread'[r] = "synthesis" /\ status'[r] = "running"
        BY <1>3 DEF WriteNode
      <4> QED
        BY <3>1, <4>1, <4>2
    <3>2. CASE q # r
      <4>1. /\ terminal'[q] = terminal[q] /\ verdict'[q] = verdict[q]
            /\ status'[q] = status[q] /\ thread'[q] = thread[q]
        BY <1>3, <2>1, <2>4, <3>2 DEF WriteNode
      <4> QED
        BY <4>1
    <3> QED
      BY <3>1, <3>2
  <2> QED
    BY <1>3, <2>1, <2>5, <2>6 DEF WriteNode
<1>4. CASE SynthesisNode(r)
  BY <1>4 DEF SynthesisNode
<1>5. CASE GraphRaises(r)
  BY <1>5 DEF GraphRaises
<1>6. CASE MarkError(r)
  BY <1>6 DEF MarkError
<1>7. CASE ReportError(r)
  BY <1>7 DEF ReportError
<1>8. CASE Close(r)
  BY <1>8 DEF Close
<1> QED
  BY <1>1, <1>2, <1>3, <1>4, <1>5, <1>6, <1>7, <1>8 DEF Executor

\* Every step of the process, of time and of any thread keeps LifeInv.
LEMMA LifeInvInductive == LifeInv /\ [Next]_vars => LifeInv'
<1> SUFFICES ASSUME LifeInv, [Next]_vars PROVE LifeInv'
  OBVIOUS
<1> USE DEF LifeInv, RunInv, Final, Threads, Alive, Working, Outcome, Event, EventOf,
            process, database
<1>1. CASE Boot
  BY <1>1 DEF Boot
<1>2. CASE OpenAndReap
  BY <1>2 DEF OpenAndReap, Reaped
<1>3. CASE Die
  <2>1. thread' \in [Runs -> Threads] /\ \A r \in Runs : thread'[r] \notin Alive
    BY <1>3 DEF Die
  <2>2. ASSUME NEW r \in Runs PROVE RunInv(r)'
    <3>1. CASE thread[r] \in Alive
      BY <1>3, <3>1 DEF Die
    <3>2. CASE thread[r] \notin Alive
      BY <1>3, <3>2 DEF Die
    <3> QED
      BY <3>1, <3>2
  <2>3. /\ UNCHANGED <<status, terminal, verdict>>
        /\ up' = FALSE /\ opened' = FALSE
    BY <1>3 DEF Die
  <2> HIDE DEF RunInv, Threads, Alive
  <2>4. terminal' = [r \in Runs |-> terminal'[r]] /\ DOMAIN terminal' = Runs
    BY <2>3
  <2> QED
    BY <2>1, <2>2, <2>3, <2>4
<1>4. ASSUME NEW r \in Runs, CreateRun(r) PROVE LifeInv'
  BY <1>4 DEF CreateRun
<1>5. ASSUME NEW r \in Runs, Age(r) PROVE LifeInv'
  BY <1>5 DEF Age
<1>6. ASSUME NEW r \in Runs, Executor(r) PROVE LifeInv'
  BY <1>6, ExecutorKeepsLifeInv
<1>7. CASE UNCHANGED vars
  BY <1>7 DEF vars
<1> QED
  BY <1>1, <1>2, <1>3, <1>4, <1>5, <1>6, <1>7 DEF Next

\* So LifeInv holds of every run at any time.
LEMMA LifeInvAlways == Spec => []LifeInv
BY LifeInvInitially, LifeInvInductive, PTL DEF Spec

\* Reaping happens before the process has a thread, so however long a run takes
\* it is not declared an error under the thread that drives it.
THEOREM ReaperSparesLiveRuns == Spec => []LiveRunNotReaped
<1>1. LifeInv => LiveRunNotReaped
  BY DEF LifeInv, RunInv, Working, LiveRunNotReaped
<1> QED
  BY <1>1, LifeInvAlways, PTL

\* The status column and the trace tell the same end of a run that succeeded.
THEOREM RecordsAgree == Spec => []StatusMatchesEvent
<1>1. LifeInv => StatusMatchesEvent
  BY DEF LifeInv, RunInv, StatusMatchesEvent
<1> QED
  BY <1>1, LifeInvAlways, PTL

\* Nothing happens to a run after its status is complete or partial.
THEOREM SettledRunsStay == Spec => SettledIsFinal
<1> DEFINE Kept == \A r \in Runs : status[r] \in Outcome
                     => status'[r] = status[r] /\ terminal'[r] = terminal[r]
<1>1. LifeInv /\ [Next]_vars => [Kept]_vars
  <2> SUFFICES ASSUME LifeInv, Next, NEW r \in Runs, status[r] \in Outcome
               PROVE  status'[r] = status[r] /\ terminal'[r] = terminal[r]
    OBVIOUS
  <2>1. thread[r] = "closed"
    BY DEF LifeInv, RunInv
  <2> USE DEF LifeInv, Outcome, process, database
  <2>2. CASE Boot \/ Die
    BY <2>2 DEF Boot, Die
  <2>3. CASE OpenAndReap
    BY <2>3 DEF OpenAndReap, Reaped
  <2>4. ASSUME NEW q \in Runs, CreateRun(q) \/ Age(q)
        PROVE  status'[r] = status[r] /\ terminal'[r] = terminal[r]
    BY <2>4 DEF CreateRun, Age
  <2>5. ASSUME NEW q \in Runs, Executor(q)
        PROVE  status'[r] = status[r] /\ terminal'[r] = terminal[r]
    <3>1. thread[q] # "closed"
      BY <2>5 DEF Executor, PreflightOk, PreflightRaises, WriteNode,
                  SynthesisNode, GraphRaises, MarkError, ReportError, Close, Step
    <3>2. q # r
      BY <2>1, <3>1
    <3> QED
      BY <2>5, <3>2 DEF Executor, PreflightOk, PreflightRaises, WriteNode,
                  SynthesisNode, GraphRaises, MarkError, ReportError, Close, Step
  <2> QED
    BY <2>2, <2>3, <2>4, <2>5 DEF Next
<1> QED
  BY <1>1, LifeInvAlways, PTL DEF Spec, SettledIsFinal
=============================================================================
