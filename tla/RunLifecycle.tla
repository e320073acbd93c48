---------------------------- MODULE RunLifecycle ----------------------------
(***************************************************************************)
(* The life of runs across the API process, its executor threads, the runs *)
(* table and the trace (api.py, runner.py, db/_runs.py, trace_events.py).  *)
(*                                                                         *)
(* One action is one committed write of the database, or one step of a     *)
(* thread between two of them.  Executor threads are daemon threads: they  *)
(* die with the process.  The database outlives it.                        *)
(***************************************************************************)
EXTENDS Integers, Sequences, FiniteSets

CONSTANTS Runs,          \* the run ids that may be created
          MaxRestarts    \* bound of the model: how often the process dies

ASSUME BoundedRestarts == MaxRestarts \in Nat /\ IsFiniteSet(Runs)

VARIABLES
  up,        \* the API process is running
  opened,    \* _db_holder holds the database of this process
  restarts,  \* how often the process has died
  old,       \* runs created more than an hour ago
  status,    \* runs.status; "absent" while there is no row
  terminal,  \* terminal trace events of a run, oldest first
  verdict,   \* RunState.verdict of a run's graph, in the thread's memory
  thread     \* where the executor thread of a run is

vars == <<up, opened, restarts, old, status, terminal, verdict, thread>>
process  == <<up, opened, restarts>>
database == <<status, terminal>>

Final   == {"complete", "partial", "error"}
Alive   == {"preflight", "graph", "synthesis", "closing", "marking", "reporting"}
Outcome == {"complete", "partial"}
Event(o) == IF o = "complete" THEN "run_complete" ELSE "run_partial"

----------------------------------------------------------------------------
Init == /\ up = FALSE /\ opened = FALSE /\ restarts = 0
        /\ old = {}
        /\ status = [r \in Runs |-> "absent"]
        /\ terminal = [r \in Runs |-> <<>>]
        /\ verdict = [r \in Runs |-> "pass"]
        /\ thread = [r \in Runs |-> "none"]

Boot == /\ ~up
        /\ up' = TRUE
        /\ UNCHANGED <<opened, restarts, old, database, verdict, thread>>

\* reap_stale_running, mutated: it looks at the age only; it compares the age
\* the wrong way round.
ReapedByAge     == old
ReapedYoungOnes == {r \in Runs \ old : status[r] = "running"}

Reaped == {r \in old : status[r] = "running"}

\* _get_db, mutated: every request sweeps for stale runs.
OpenAndReapAlways ==
  /\ up
  /\ opened' = TRUE
  /\ status' = [r \in Runs |-> IF r \in Reaped THEN "error" ELSE status[r]]
  /\ UNCHANGED <<up, restarts, old, terminal, verdict, thread>>

\* The first request that needs the database opens it, and only then, under
\* _db_init_lock, are the stale runs reaped.
OpenAndReap ==
  /\ up /\ ~opened
  /\ opened' = TRUE
  /\ status' = [r \in Runs |-> IF r \in Reaped THEN "error" ELSE status[r]]
  /\ UNCHANGED <<up, restarts, old, terminal, verdict, thread>>

\* POST /runs: insert the row, then start the thread.  A process that dies in
\* between leaves what one leaves that dies before the thread's first step.
CreateRun(r) ==
  /\ up /\ opened
  /\ status[r] = "absent"
  /\ status' = [status EXCEPT ![r] = "running"]
  /\ thread' = [thread EXCEPT ![r] = "preflight"]
  /\ UNCHANGED <<process, old, terminal, verdict>>

\* An hour goes by.
Age(r) == /\ status[r] # "absent" /\ r \notin old
          /\ old' = old \cup {r}
          /\ UNCHANGED <<process, database, verdict, thread>>

\* The process stops, and its threads with it.
Die == /\ up /\ restarts < MaxRestarts
       /\ up' = FALSE /\ opened' = FALSE
       /\ restarts' = restarts + 1
       /\ thread' = [r \in Runs |-> IF thread[r] \in Alive THEN "dead" ELSE thread[r]]
       /\ UNCHANGED <<old, database, verdict>>

----------------------------------------------------------------------------
Step(r, from, to) == /\ thread[r] = from
                     /\ thread' = [thread EXCEPT ![r] = to]
                     /\ UNCHANGED <<process, old>>

\* Settings, domain, discovery, survey, cache, prewarm: before the try.
PreflightOk(r)     == Step(r, "preflight", "graph") /\ UNCHANGED <<database, verdict>>
PreflightRaises(r) == Step(r, "preflight", "raised") /\ UNCHANGED <<database, verdict>>

EventOf(v) == IF v = "pass" THEN "run_complete" ELSE "run_partial"

\* The loop (see RevisionLoop) arrives at its last verdict, and the write node
\* ends by emitting the terminal event for it.
WriteNode(r) == /\ Step(r, "graph", "synthesis")
                /\ \E v \in {"pass", "reject"} :
                     /\ verdict' = [verdict EXCEPT ![r] = v]
                     /\ terminal' = [terminal EXCEPT ![r] = Append(@, EventOf(v))]
                /\ UNCHANGED status

SynthesisNode(r) == Step(r, "synthesis", "closing") /\ UNCHANGED <<database, verdict>>

\* The handler, mutated: the exception is only logged.
GraphRaisesUnhandled(r) == /\ thread[r] \in {"graph", "synthesis"}
                           /\ Step(r, thread[r], "raised")
                           /\ UNCHANGED <<database, verdict>>

\* An exception in any node, before or after the terminal event.
GraphRaises(r) == /\ thread[r] \in {"graph", "synthesis"}
                  /\ Step(r, thread[r], "marking")
                  /\ UNCHANGED <<database, verdict>>

MarkError(r) == /\ Step(r, "marking", "reporting")
                /\ status' = [status EXCEPT ![r] = "error"]
                /\ UNCHANGED <<terminal, verdict>>

ReportError(r) == /\ Step(r, "reporting", "raised")
                  /\ terminal' = [terminal EXCEPT ![r] = Append(@, "run_error")]
                  /\ UNCHANGED <<status, verdict>>

\* The last write, mutated: the verdict is not looked at.
CloseAsComplete(r) == /\ Step(r, "closing", "closed")
                      /\ status' = [status EXCEPT ![r] = "complete"]
                      /\ UNCHANGED <<terminal, verdict>>

\* invoke has returned the final state; its verdict decides the status.
Close(r) == /\ Step(r, "closing", "closed")
            /\ status' = [status EXCEPT ![r] =
                            IF verdict[r] = "pass" THEN "complete" ELSE "partial"]
            /\ UNCHANGED <<terminal, verdict>>

Executor(r) == \/ PreflightOk(r) \/ PreflightRaises(r)
               \/ WriteNode(r) \/ SynthesisNode(r) \/ GraphRaises(r)
               \/ MarkError(r) \/ ReportError(r) \/ Close(r)

Next == \/ Boot \/ OpenAndReap \/ Die
        \/ \E r \in Runs : CreateRun(r) \/ Age(r) \/ Executor(r)

\* The process is started again after it dies, some request arrives, time goes
\* on, and the operating system schedules every thread.  No run must be made.
Fairness == /\ WF_vars(Boot) /\ WF_vars(OpenAndReap)
            /\ \A r \in Runs : WF_vars(Age(r)) /\ WF_vars(Executor(r))

Spec == Init /\ [][Next]_vars /\ Fairness

----------------------------------------------------------------------------
Threads == Alive \cup {"none", "dead", "raised", "closed"}

\* Every variable holds a value of its type.
TypeOK == /\ up \in BOOLEAN /\ opened \in BOOLEAN
          /\ restarts \in 0..MaxRestarts
          /\ old \subseteq Runs
          /\ status \in [Runs -> Final \cup {"absent", "running"}]
          /\ \A r \in Runs : terminal[r] \in
               {<<>>, <<"run_complete">>, <<"run_partial">>, <<"run_error">>,
                <<"run_complete", "run_error">>, <<"run_partial", "run_error">>}
          /\ verdict \in [Runs -> {"pass", "reject"}]
          /\ thread \in [Runs -> Threads]

\* However long a run takes, the reaper does not take it from the thread that
\* drives it: a run in error has no thread that will still call it complete.
LiveRunNotReaped ==
  \A r \in Runs : thread[r] \in {"preflight", "graph", "synthesis", "closing", "marking"}
                    => status[r] = "running"

\* The two records of a run's end agree: a settled status has exactly the one
\* terminal event of its verdict, so the run list and the report page never
\* contradict each other about a run that succeeded.
StatusMatchesEvent ==
  \A r \in Runs : status[r] \in Outcome => terminal[r] = <<Event(status[r])>>

\* A settled run stays as it is: no later request, restart or reaping changes
\* the status of a run that has one, and its terminal event stays the only one.
SettledIsFinal ==
  [][\A r \in Runs : status[r] \in Outcome
       => status'[r] = status[r] /\ terminal'[r] = terminal[r]]_vars

\* A run that got past its preflight leaves "running" as long as the process
\* does not die under it: runner.py marks every way out of the graph.
GraphAlwaysSettles ==
  \A r \in Runs : thread[r] = "graph" ~> status[r] # "running" \/ thread[r] = "dead"

\* An orphan that is an hour old when a process opens the database is reaped.
OldOrphanReaped ==
  \A r \in Runs : (~opened /\ r \in old /\ status[r] = "running") ~> status[r] = "error"
=============================================================================
