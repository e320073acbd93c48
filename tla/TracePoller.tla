---------------------------- MODULE TracePoller ----------------------------
(***************************************************************************)
(* How the page follows the trace of a run: GET /runs/{id}/trace of api.py *)
(* and the poll of App.tsx, driven by usePolling.ts.  The page keeps the   *)
(* events it has and a cursor; each poll asks for the events after it.     *)
(*                                                                         *)
(* A poll awaits its answer, and while it does the reader may load a run.  *)
(* The callback of a poll reads the run and the cursor of the render that  *)
(* created it, so it can be older than the state of the page.  Under       *)
(* StrictMode the first effect is run twice, which leaves one more poll in *)
(* flight whose loop has been cancelled.                                   *)
(***************************************************************************)
EXTENDS Integers, Sequences, FiniteSets

CONSTANTS Runs,        \* runs in the database
          NoRun,       \* the page shows no run
          MaxEvents,   \* bound of the model: rows of trace_events
          MaxLoads,    \* bound of the model: how often a run is loaded
          StrictMode   \* a development build, mounted with ?run=

ASSUME PollerBounds == /\ NoRun \notin Runs
                       /\ MaxEvents \in Nat /\ MaxLoads \in Nat
                       /\ StrictMode \in BOOLEAN

VARIABLES
  trace,    \* trace_events: the run of row i is trace[i]
  run,      \* runId, and runIdRef, which is written together with it
  since,    \* sinceSeq
  shown,    \* ids of the events of the feed
  closure,  \* the run and cursor that the next poll will ask with
  polls,    \* the request of each loop
  loads,    \* how often loadRun was called
  late      \* history: since the last load, an answer has been applied that was
            \* asked for before it

vars == <<trace, run, since, shown, closure, polls, loads, late>>
page == <<run, since, shown, loads, late>>

Loops    == {"loop", "cancelled"}
EventIds == 1..MaxEvents

\* Between polls, or, of the cancelled loop, for good.  epoch is no part of the
\* code: it tells which load of a run the cursor belongs to.
Idle == [stage |-> "idle", run |-> NoRun, since |-> 0, epoch |-> 0, reply |-> {}]
Request(c) == [stage |-> "asked", run |-> c.run, since |-> c.since,
               epoch |-> c.epoch, reply |-> {}]

InFeed   == {shown[k] : k \in DOMAIN shown}
EventsOf(r) == {i \in DOMAIN trace : trace[i] = r}

----------------------------------------------------------------------------
\* ?run= names the run to begin with.  The double mount has sent its request.
Init == /\ trace = <<>>
        /\ run \in Runs \cup {NoRun}
        /\ since = 0 /\ shown = <<>> /\ loads = 0 /\ late = FALSE
        /\ closure = [run |-> run, since |-> 0, epoch |-> 0]
        /\ polls = [l \in Loops |-> IF StrictMode /\ run # NoRun /\ l = "cancelled"
                                    THEN Request(closure) ELSE Idle]

\* A run's executor inserts a row; ids ascend over all runs.
Emit(r) == /\ Len(trace) < MaxEvents
           /\ trace' = Append(trace, r)
           /\ UNCHANGED <<page, closure, polls>>

\* loadRun: the list of recent runs offers every run, the one on the page too.
Load(r) == /\ loads < MaxLoads
           /\ loads' = loads + 1
           /\ run' = r
           /\ since' = 0 /\ shown' = <<>> /\ late' = FALSE
           /\ UNCHANGED <<trace, closure, polls>>

\* React renders, and the effect of usePolling stores the new callback.
Render == /\ closure' = [run |-> run, since |-> since, epoch |-> loads]
          /\ closure' # closure
          /\ UNCHANGED <<trace, page, polls>>

\* A tick of the loop that has not been cancelled.
Tick == /\ polls["loop"].stage = "idle"
        /\ closure.run # NoRun
        /\ polls' = [polls EXCEPT !["loop"] = Request(closure)]
        /\ UNCHANGED <<trace, page, closure>>

\* trace_events_for_run: WHERE run_id = ? AND id > ?
Answer(l) == /\ polls[l].stage = "asked"
             /\ polls' = [polls EXCEPT ![l].stage = "answered",
                            ![l].reply = {i \in EventsOf(polls[l].run) : i > polls[l].since}]
             /\ UNCHANGED <<trace, page, closure>>

\* The guard of the callback, mutated: any answer is taken.
AnyAnswer(p) == TRUE

\* The run was not switched while the poll was in flight.
ForThisRun(p) == p.run = run

\* max_seq, mutated: the last row of the table.
NewestOfTable(reply) == Len(trace)

\* max_seq: the id of the last event returned.
MaxSeq(reply) == CHOOSE i \in reply : \A j \in reply : i >= j

\* ORDER BY id
InIdOrder(S) == {order \in [1..Cardinality(S) -> S] :
                   \A k, l \in DOMAIN order : k < l => order[k] < order[l]}

\* mergeTraceEvents drops the events that are in the feed already.
Merged(reply) == {shown \o order : order \in InIdOrder(reply \ InFeed)}

\* The rest of the callback, after the await.
Apply(l) == /\ polls[l].stage = "answered"
            /\ polls' = [polls EXCEPT ![l] = Idle]
            /\ IF ForThisRun(polls[l]) /\ polls[l].reply # {}
               THEN /\ shown' \in Merged(polls[l].reply)
                    /\ since' = MaxSeq(polls[l].reply)
                    /\ late' = (late \/ polls[l].epoch # loads)
               ELSE UNCHANGED <<shown, since, late>>
            /\ UNCHANGED <<trace, run, loads, closure>>

\* Fail, mutated: an exception ends the loop.
FailForGood(l) == /\ polls[l].stage # "idle"
                  /\ polls' = [polls EXCEPT ![l].stage = "stopped"]
                  /\ UNCHANGED <<trace, page, closure>>

\* The request fails, or its answer is lost: the callback only raises a banner,
\* and the loop goes on.
Fail(l) == /\ polls[l].stage # "idle"
           /\ polls' = [polls EXCEPT ![l] = Idle]
           /\ UNCHANGED <<trace, page, closure>>

Next == \/ Render \/ Tick
        \/ \E r \in Runs : Emit(r) \/ Load(r)
        \/ \E l \in Loops : Answer(l) \/ Apply(l) \/ Fail(l)

\* The browser renders and ticks, requests are answered or fail, and they do
\* not fail for ever.
Fairness == /\ WF_vars(Render) /\ WF_vars(Tick)
            /\ SF_vars(Answer("loop")) /\ SF_vars(Apply("loop"))

Spec == Init /\ [][Next]_vars /\ Fairness

----------------------------------------------------------------------------
\* Every variable holds a value of its type.
TypeOK == /\ trace \in Seq(Runs) /\ Len(trace) <= MaxEvents
          /\ run \in Runs \cup {NoRun}
          /\ since \in 0..Len(trace)
          /\ shown \in Seq(DOMAIN trace)
          /\ closure \in [run : Runs \cup {NoRun}, since : 0..MaxEvents, epoch : 0..loads]
          /\ polls \in [Loops -> [stage : {"idle", "asked", "answered"},
                                  run : Runs \cup {NoRun}, since : 0..MaxEvents,
                                  epoch : 0..loads, reply : SUBSET EventIds]]
          /\ loads \in 0..MaxLoads /\ late \in BOOLEAN

\* The feed holds events of the run on the page only, and none of them twice,
\* whatever answers arrive late or overlap (runIdRef, mergeTraceEvents).
FeedIsSound == /\ \A i \in InFeed : trace[i] = run
               /\ Cardinality(InFeed) = Len(shown)

\* App.tsx:154-159: no late answer can make the page skip the early trace of a
\* run, that is, leave out an event that its cursor has passed.
NothingSkipped == \A i \in EventsOf(run) : i <= since => i \in InFeed

\* An event is skipped only where, since the run was loaded, an answer has been
\* applied that was asked for before: overlapping polls, answers in any order,
\* failures and switches between runs never skip any.
SkippedOnlyByLateAnswer == ~late => NothingSkipped

\* When the run has ended and no other is loaded, the feed becomes and stays
\* complete, however many requests failed before, unless an event was skipped.
FeedCompletes == <>[](NothingSkipped => EventsOf(run) \subseteq InFeed)
=============================================================================
