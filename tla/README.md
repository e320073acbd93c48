# MingJing, in TLA+

MingJing turns a list of competitors and fields into a report of claims with
evidence. A run collects sources, has an analyst model draft one claim per
(competitor, field), lets deterministic QA rules judge the claims, loops while
they are rejected, and publishes what passed. Reviewers may correct claims at any
time, and a web page follows the run. This directory holds models of the parts
where order, interleaving and failure matter, the TLC configurations that check
them, and TLAPS proofs of what holds for every value of the constants.

Paths below are relative to `src/mingjing/` unless they start with `frontend/` or
`docs/`.

## Inventory

| Part | State it keeps | Operations | Interacts through |
|---|---|---|---|
| Graph (`graph.py`, `graph_nodes.py`, `qa/route.py`, `agents/qa.py`) | `RunState`: round, budget, verdict, assignee, sources, issues | intake, plan, collect, analyze, qa, route, revise, write, synthesis | the claims table, the trace; called by the executor |
| QA rules (`qa/rules.py`, `scoring.py`) | none | the checks and their order | called by the qa node |
| Claims table (`db/_claims.py`, `claim_builder.py`) | append-only rows | append, append superseding, latest, versions, last-round flags | one connection under `_WRITE_LOCK` |
| API (`api.py`, `api_helpers.py`) | the lazily opened database | create run, correct claim, survey import, reads | starts executor threads |
| Executor (`runner.py`) | the thread's position | preflight, invoke, status, error event | runs table, trace |
| Run table (`db/_runs.py`) | status, age | create, set status, reap, delete | API and executor |
| Trace (`db/_trace.py`, `trace_events.py`) | event rows with ascending ids | insert, read after a cursor | executor writes, page reads |
| Page (`frontend/src/App.tsx`, `hooks/usePolling.ts`) | run, cursor, feed | load run, poll, merge | HTTP |
| Collection (`collector/*`, `agents/collector.py`, the closure in `graph.py`) | page cache, robots cache and failure marks, fetch budget, expansion memo | expand, search, rank, ask the gate, fetch with fallback | collect node; the robots dictionaries are shared by all runs |
| Analyst (`llm.py`, `agents/analyst.py`, `claim_builder.py`) | call log | call, repair, coerce, build a claim | analyze node |
| Synthesis (`synthesis.py`) | one row per brief | three calls, projection, disclosure, store | claims table, while reviewers write to it |
| Intake (`discovery.py`, `ingest.py`, `survey*.py`) | sources, competitors of a run | discover, seed, import | executor's preflight; import endpoint |
| Prewarm (`prewarm.py`, `collector/cache.py`) | page cache, the gate's last slot | claim a slot, fetch, store | executor's preflight |
| Configuration and views (`config.py`, `schemas.py`, `metrics.py`, `qa/credibility.py`, ...) | none | pure functions | everything |

What is hard about them:

* **Two writers of one table.** The pipeline reads the row it supersedes in one
  window of `_WRITE_LOCK` and inserts in another. A correction fits in between.
* **A loop around a nondeterministic judge.** QA may reject for ever; the round
  cap, the call budget and a fixed recursion limit bound the loop together.
* **State that accumulates.** `qc_reports` is additive over rounds; flags of an old
  round must not withhold a repaired claim, and a claim redrafted badly must not
  slip through.
* **Two records of an end.** The terminal event and the status of a run are written
  at different times, and an exception, or the death of the process, can come
  before, between or after them.
* **Recovery by age.** Orphans are found by being old, so live runs must be spared.
* **A poller with a moving target.** Answers arrive after the page moved on.
* **Shared dictionaries without a lock.** Threads of all runs look up, expire, fail
  and refill the robots cache; between any two of these another thread may run.
* **An author that may say anything.** The model's reply can be prose, a list, a
  decoy, null where a list is due, or a claim that no source supports.
* **Best effort that must stay consistent.** Discovery, the survey lane, the warm-up
  and the synthesis may fail at any statement; what they leave behind is used.
* **A brief of a moving report.** It is drawn from claims read before slow calls.

What makes each part correct: the graph ends within its limits, publishes exactly
the clean claims and labels itself honestly; the table gives each task one claim and
never shows a write based on a row that is no longer the latest; the executor marks
how a run came out of the graph; the reaper takes orphans and nothing else; the page
shows every event of its run once; collection stays within its budget and loses a
denial to nothing but a race or a redirect; a published claim is grounded and its
strength earned; the brief cites the report and discloses what was withheld; table,
trace and graph name the same competitors, however discovery ended.

## Modules

```
RunContract      <-- refines --  RevisionLoop   -- proofs --> RevisionLoopProofs
ClaimRegister    <-- refines --  ClaimLedger    -- proofs --> ClaimLedgerProofs
                                 RunLifecycle   -- proofs --> RunLifecycleProofs
                                 TracePoller    -- proofs --> TracePollerProofs
ClaimLedger      <-- extends --  Brief          -- proofs --> BriefProofs
RobotsGate, Ranking <- extends - Collection     -- proofs --> CollectionProofs
QaRules          <-- extends --  Draft          -- proofs --> DraftProofs
Prewarm          <-- extends --  Intake         -- proofs --> IntakeProofs
```

`RevisionLoop` is one run seen from inside its thread, `ClaimLedger` is the table
that this thread shares with reviewers, `RunLifecycle` is many such threads in a
process that may die, `TracePoller` is the page that watches. They meet in the
abstraction each has of the next: the graph of `RevisionLoop` is two steps of the
executor in `RunLifecycle` (`WriteNode`, `SynthesisNode`), its analyze and write
nodes are expanded into single lock windows in `ClaimLedger`, and the events it
emits are `Emit` in `TracePoller`. `Collection` is the inside of its `Collect`,
`Draft` follows one field through `Analyze`, `Qa` and `Route`, `Brief` is
`Synthesis` over the ledger, and `Intake` is the preflight of `RunLifecycle`.

### RevisionLoop

One action per LangGraph node: LangGraph runs one node per super-step here, and
only this thread touches `RunState`. The variables are the fields of `RunState`
that control the loop, and what the tables hold for it. `cap` is the value of
MINGJING_REVISE_CAP, one of `Caps`, read once when the run starts. A claim's latest row is
abstracted to the set of QA checks it fails (`issues`). That is enough because the
checks depend on the row and its sources, which never change: two claims contradict
each other only if they are about one task, and a task has one claim
(`ClaimLedger!OneIdPerTask`); and an analyst cannot name the random id of a claim
to come in `based_on`. The order of rows decides which issue is the first, and so
who gets the redo (`FirstIssueClaim`, `FirstIssueIsFabrication`); `Enrol` allows any
order. `LINEAGE_GAP` is the SCHEMA_GAP of the lineage check, which comes behind the
hallucination check where the other SCHEMA_GAP comes before it. Duplicate
competitors in an intake would be tasks of their own for the budget; the model has
a set of tasks.

`Collect` may find sources for any tasks, `Analyze` may draft or fail for any task
with sources, `NodeRaises` is an exception escaping any node; in the write node it
may come after any number of promotions. `Overrun` is LangGraph's recursion limit:
when the super-steps are used up and a node is left to run, `GraphRecursionError`.

### RunContract

What a run promises: it works, then settles once under a label with a set of
published claims, or is aborted without one; "complete" requires the published
claims to cover the required fields. `RevisionLoop!Contract` maps `node` and
`outcome` to `stage`.

### ClaimLedger

One action per window of `_WRITE_LOCK`. `ReadTarget` is `supersede_target` at the
end of `build_claim`, `AppendDraft` its insert; `StartWrite` is the read of the
latest rows and of the flags in the write node, `Promote` one append of
`_promote_passed_claims` from what was read; `Correct` is the endpoint, all in one
window. Rows are kept in insertion order because ties between equal versions are
decided by it: `latest_claims_for_run` compares with `>`, `max` keeps the first, and
`ORDER BY version DESC LIMIT 1` was measured to return the first-inserted row too
(SQL leaves it open; it is the one assumption about SQLite). `writer` and `base` of
a row are history, not columns. Whether QA rejects a clean set for low coverage is
left open, and a revision may come or not (`StartWrite` is always possible at
`route`), which stands for the budget.

### ClaimRegister

A register with compare-and-set: a write shows exactly if it was prepared against
what is shown. The ledger has no compare-and-set and yet implements it: the base of
a stale write has a lower version than the latest row by at least one, so the write
gets at most an equal version, and a tie goes to the row that was there first. The
price is that two rows may carry one version.

### RunLifecycle

One action per committed write of the executor or the API. The preflight is
everything in `runner.py` before `graph.invoke`: it either passes or raises. The
executor's own status writes are assumed to succeed. There is one API process per
database, as deployed; `Die` takes its threads along because they are daemon
threads.

### TracePoller

The page's state and one request per loop. `closure` is what `callbackRef` holds:
the run and cursor of the last render, which may lag. `runIdRef` is written together
with `runId` and therefore no variable of its own. The second loop exists in
development builds only, where StrictMode mounts twice; its first request stays in
flight although its loop is cancelled. `epoch` and `loads` are history: they tell
which load a cursor belongs to. So is `late`: an answer was applied that had been asked
for before the last load. `ORDER BY id` is the order of `InIdOrder`, of which there is
one for each set of events. `loadRun` also resets the tab, the banner and the selected
claim, which no event depends on. Other views are remounted by their key or poll
whole lists.

### RobotsGate

`is_allowed` with `_CACHE` and `_FAILURES`, one action per access of a dictionary,
because threads of several runs share them without a lock. A call looks up the
parser (`Call`), the failure mark (`CheckMark`), drops a mark that has expired
(`DropMark`), and then loads (`FetchAnswers` and `Forget`, or `FetchRaises`). Hosts
have one robots.txt for the time of the model; what the file says for a path is
folded into whether the site denies. What a fetch brings depends on the response too
(`Served`): `_default_fetch_robots` returns an empty body for any status from 400 up,
and that is parsed as a file that allows everything, and kept. So a denying site may
be parsed as "allow" by one call and as "deny" by another, and either stays in `_CACHE`
until another call that has missed it before writes over it. `loaded` is the history
of all that was parsed, and `known` of whether a denial was among it when a call began.

### Ranking

`dedupe_and_rank`, over a sequence of previews in the order of arrival: the first of
each url, one independence bonus per domain, agreement of engines, the penalty of a
look-alike by authority, the cap per domain, the cut. Edit distance of labels is the
constant `Padded`; the text match behind the relevance bonus is a number of the
preview. Weights are floats in the code; in the model they are multiples of a fraction
of which `Unit` make 1.0 (`authority` of an F is half a unit), and no weight is rounded.
The sort is stable and no two positions tie in `Better`, so `Orders` has exactly one
member, the sorted order; a set with one member says so without a CHOOSE, which no
prover could look into.

### Collection

One call of the collector after another. The closure's `used` and the expansion memo
survive calls; everything else starts afresh (`Finish`). `Complete` takes the futures
in any order, with nothing, a part (DuckDuckGo yields while it reads) or all of the
results. Every candidate is asked for at the gate while `attempts` is under
`FetchCap`, which is both the cap of the round and what the budget has left; beyond it
a snippet stands for the page. `Outcomes` are those of `fetch_with_fallback`. Other
threads are at the gate only; they and the clock run at any time.

### QaRules and Draft

Text is a set of facts. A page states facts, a value leaf or a quotation is a fact,
and "is a substring of" becomes "is among". This keeps what the rules look at: which
leaf is in which source, cited or not, from which domain, with which stance, official
or simulated. A quotation is proposed for a page, cited or not, as `snippet_for` looks
it up for every row. `Draft` is one field: `Collect` adds rows (a page fetched again is a new
row), `Answered` takes any reply from `Replies` and parses it as `call_llm` does,
`Build` coerces, filters the citations, prunes and scores, `Qa` applies the rules,
`Revise` and `Write` are the loop. Shapes that crash are kept apart: `void` payloads
are skipped, `null_field` raises in `build_claim` or on insert, `array_value` is stored
and raises in the rules.

### Brief

`run_synthesis` as steps between which corrections of `ClaimLedger` fall: `Start`
reads the passed ids, `Call` three times lets the model cite any ids, `Project`
keeps sentences that cite passed claims only, `Disclose` reads the tables again,
`Store` appends the row, `Announce` reads it back. A sentence is its set of cited ids,
and one of each kind stands for all. `snapshot` is history.

### Prewarm and Intake

`Intake` is the executor from its start to `invoke`, with the import endpoint beside
it. A name is a brand and a spelling, since ids, fixtures and addresses go by the slug
while the list goes by the string. Discovery ranks by own site, then backing domains,
then length; a raise puts the seeds in its place. `LaneFails` may come at any
statement of the survey lane. `Abort` is an exception outside the inner tries. Where
the code sorts, or drops doubles, the model has the set of the lists that result
(`Rankings`, `Distinct`), with one member each. The
pool of `Prewarm` takes work in order; `Held` says which pieces a thread can have,
`Claim` is the window of the gate's lock, `Start` the end of the sleep, which may be
late by what `Slack` allows.

## Runs

| Run | Result | What it shows | Bounds |
|---|---|---|---|
| `loop` | pass | `SpendBound`, `BackstopUnreached`, `PublishedExactlyClean`, `GivesUpOnlyWhenSpent`, `Settles`, `Terminates`, `ImplementsContract` | 1 competitor, 2 fields, 3 checks, `Caps` 0, 2 and 3, budget 6, limit 18, the least that has room for a cap of 2 and too low for 3: three QA rounds, both redo routes, contradictions behind other issues, a budget that runs out before the cap and one that does not, runs that the limit cuts short |
| `ledger` | pass | `OneIdPerTask`, `CollisionsAreStaleWrites`, `PublishedClean`, `CorrectionShows`, `ImplementsRegister` | 2 tasks, Cap 1, `MaxCorrections` 2: a correction before, between and after each pair of windows, and two on one claim |
| `lifecycle` | pass | `LiveRunNotReaped`, `StatusMatchesEvent`, `SettledIsFinal`, `GraphAlwaysSettles`, `OldOrphanReaped` | 2 runs, `MaxRestarts` 2: a run of the first process meets the reaper of the second and third |
| `poller` | pass | `FeedIsSound`, `SkippedOnlyByLateAnswer`, `FeedCompletes` | 2 runs, `MaxEvents` 4, `MaxLoads` 2, StrictMode: switching away and back, overlapping polls, and events enough that one skipped by a late answer lies below a later poll's cursor |
| `collection` | pass | `BudgetKept`, `DenialLostOnlyInRace`, `OutageIsBrief`, `EvidenceIsDiverse`, `LookAlikeBehind`, `NodeFinishes` | 1 task, 2 rounds, budget 2 (the second round has less left than its cap allows), 2 engines and 2 sub-queries, 3 pages of one domain for a cap of 2, `Unit` 2 for the half of an F, a second thread at the gate, a denying host that answers with its file, an error status or not at all, a clock of one TTL |
| `draft` | pass | `PublishedIsGrounded`, `StrongIsEarned`, `ListNeverPublished`, `RunEnds` | Cap 1; 4 pages, of which 2 share a domain and 1 is simulated; 4 facts: known to most, to some, to none, exempt; every shape of reply, closed and open thoughts |
| `brief` | pass | `StaleOnlyByReview`, `NotSilent` | 2 tasks, Cap 1, 1 correction at any moment (2 corrections with Cap 0 pass as well) |
| `intake` | pass | `SelectionIsSound`, `ListAgrees`, `EntriesStand`, `LaneCutOnlyByFailure`, `ImportIsAudited`, `RateHeld`, `IntakeEnds` | 3 brands, 3 spellings, 3 requests (directed with one brand spelled twice; more seeds than room; a seed and a find), 2 queries, 2 workers, interval 0 and 2, 2 responses |
| `rejection_overridden` | violated | docs/DEFENSE-NARRATIVE.md:127: the human is the final arbiter | 2 tasks |
| `defective_payload` | violated | `graph_nodes.py:222-226`: a defective payload is skipped, the run advances | as `draft` |
| `skipped_trace` | violated | frontend/src/App.tsx:154: a late poll cannot make the early trace be skipped | production build |
| `whitelisted` | violated | `collector/robots.py:50-52`: a passing failure does not whitelist a domain for good | as `collection`, 1 round |

Deadlock checking is off where the program really stops: a run ends, reviewers stop
correcting, all runs are settled.

What the violated runs mean:

* *rejection_overridden*: QA does not look at the status, and the promotion copies
  the rejected row with status `pass`.
* *skipped_trace*: the guard compares run ids. After loading the same run again, an
  answer from before moves the cursor over events that the emptied feed lacks; if
  the terminal event is among them the page does not learn of the end.
* *defective_payload*: the try of the analyze node ends before `build_claim`. An
  object whose `evidence_ref` or `statement` is null raises there, one whose `value` is
  an array raises in the rules, and the whole run ends in error for one field.
* *whitelisted*: a 429 or 503 raises nothing. Its body counts as empty
  (`agents/collector.py:75`), an empty robots.txt allows everything, and what was parsed
  is never fetched again (`collector/robots.py:73-75`). The mark with its short life is
  for fetches that raise only; of those `OutageIsBrief` shows what is promised.

The types of the variables are the `TypeOK` of each module. `loop` checks the one of
`RevisionLoop`; it and those of `ClaimLedger`, `Intake` and `Prewarm` are proved (the
three theorems called `TypeCorrect`). The invariants of the other proofs contain what
they need of types. The other `TypeOK`s hold in the instances above when they are added
to the configurations, which list only properties that say more.

## Observations

What the models show of the code beyond the properties, worth knowing for a reader of
it:

* `revise_start` takes the first entry of the accumulated `qc_reports`, so in a second
  round it may name a claim that the first round repaired (`graph.py:406`; the
  variable `target`).
* A cap of 7 needs up to 43 super-steps, more than the constant 40 of
  `graph.py:49`. `BackstopUnreached` says, and the proof shows, that the comment at
  `graph.py:513` is right wherever `8 + 5 * cap <= 40`.
* A correction between the pipeline's read and its insert leaves two rows with one
  version, although `db/_claims.py:3` speaks of an incremented version. Readers of the
  latest version do not notice (`ImplementsRegister`); the version history does.
* An exception before `graph.invoke` leaves the run at `running` (`runner.py:84`,
  `PreflightRaises`), and an orphan younger than an hour when the database is opened
  is not looked for again (`api.py:153`): `OldOrphanReaped` is about the older ones.
* Redirects are followed to sites whose robots.txt was not asked
  (`collector/fetch.py:147-162`). The only other way past a loaded denial is a race:
  two threads miss the same site, one parses the denial, and the other, which was
  answered with an error status, stores its empty file over it
  (`DenialLostOnlyInRace`).
* A look-alike is compared with whatever has more authority, and not only with genuine
  domains: in a chain of look-alikes the middle one is penalised too, and may rank
  behind its own imitation. `LookAlikeBehind` is therefore about genuine domains, those
  that imitate nothing themselves. That it holds at all hangs on there being at most
  five engines: their agreement is worth up to one point each, the independence bonus
  one more, and the penalty is five (`collector/dedupe.py`).
* After a late answer the page can skip an event even in a later poll that is not late
  itself, because the cursor stays where the late answer put it;
  `SkippedOnlyByLateAnswer` says that it takes one late answer since the last load.
* Failed fetches count against the fetch budget; late tasks may get snippets only, or
  nothing. `budget_calls` counts one for each task, although a draft may take two
  calls, and one for a collect whatever it fetches, where `docs/agent-protocol.md:27`
  says "cumulative LLM + fetch calls".
* `based_on` is checked in inferences only; a fact may name any id.
* A brief may cite a claim that a reviewer rejected after `Start`; `api.py:296-298`
  serves it as "already projected to passed claims". `StaleOnlyByReview` says that
  nothing else can make it stale. When the synthesis fails nothing is stored,
  although the withheld claims could be disclosed.
* Threads of the pool sleep outside the gate's lock, so that two starts can be closer
  than `min_interval_s`, which `prewarm.py:89` calls the minimum between starts; the
  rate holds on the average (`RateHeld`). The executor leaves the interval at 0.
* A warmed page is cached under the address it was redirected to, while look-ups use
  the address asked for. Warming neither asks robots nor spends the budget.
* Seeds beyond the cap are dropped though `discovery.py:331` has them "always
  included"; when discovery raises they come through unclamped. The cap bounds
  answers of discovery, not this path.
* Two spellings of a brand in a directed request collide on the source id, which cuts
  the survey lane for it and for every later competitor.
* Imported rows are stored and audited but never reach `RunState.sources`; a failure of
  the store half way through an import leaves rows without an event, although
  `api.py:462-464` rules a partial batch out.

## Fairness

* `RevisionLoop`: `WF(Next)`. `invoke` drives the graph on a thread of its own and
  every node returns or raises (calls have timeouts).
* `RunLifecycle`: the process is started again after it dies, some request arrives,
  time passes and threads are scheduled. Nothing is assumed about runs being
  created, preflights succeeding or the process dying.
* `TracePoller`: the browser renders and ticks. Requests may fail any number of
  times, but not for ever (strong fairness of the answer and of its arrival).
* `Collection`: weak fairness of the run's own steps. Providers, robots fetches and
  pages have timeouts, so their futures and calls end; other threads and the clock
  need not move. `Complete` is fair because every provider returns or raises.
* `Draft`: `WF(Next)`; the client has a finite timeout, and `max_retries` is finite.
* `Intake`: the executor's thread, the pool's threads and the clock go on. Nobody need
  import anything, and nothing need succeed.
* `ClaimLedger` and `Brief` have no liveness property and no fairness; that the
  synthesis ends is in `Settles`.

## Proofs

Every safety invariant and every action property of the passing runs is a theorem, for every
intake, set of checks, cap, budget, recursion limit, set of runs and number of restarts,
fetch budget, set of threads, sites and hits, number of tasks and corrections, set of
pages and replies, number of events and loads, requests, fixtures and pool. The
theorems assume what the ASSUMEs of the modules say, which TLC evaluates:

* finitely many competitors and fields, natural limits, known checks; "no claim" is not
  a task, "no run" not a run, "no brand" not a brand, and "unknown" not a claim;
* every payload called a list has the fields of an answer (`ListsAreAnswers`);
* a tier has at most five engines, all that `bind_provider` knows, each preview carries
  the engine it came from and a site among the sites (`SearchAssumption`), and 1.0 is at
  least one unit;
* there is a thread in the pool, and a bound on how long it oversleeps;
* a request's cap is in 1..6, the clamp of discovery, and an import has a response;
* a fixture answers a field once (`FixtureAssumption`; it is a dictionary by kind and then
  by field, and in `survey_fixture.py:14-62` no field is under both kinds of a brand);
  two would give one competitor two entries for one field;
* the last tie-break of discovery is a strict total order (`ShorterAssumption`).

`RevisionLoopProofs`:

* `TypeCorrect`. The types carry over every action; what needs care is that the
  claim QA names is a task (`FirstWithNamesAClaim`) and that `Enrol` appends tasks.
* `BackstopIsUnreached`. `BackstopUnreached` is not inductive: the invariant is
  `StepBound`, which counts for each node the super-steps that a run at that node in
  round k can have made. Only with it is it plain that `Overrun` is disabled.
* `SpendIsBounded`. `BudgetBound` strengthens it by what the router has looked at:
  the budget was not spent when the last pass over the tasks began.
* `ReportIsClean` and `PartialOnlyWhenSpent`. `VerdictStands` says that from qa
  until the next draft the verdict and the flags are those of the rows as they are,
  and that a rejected run on its way to write had no way back.
* `LoopImplementsContract`: the safety part of the refinement.

`RunLifecycleProofs`: `LifeInv` ties a thread's position to its run's status and
events, and says why reaping is safe: a process that has not opened the database has
no thread. From it follow `ReaperSparesLiveRuns`, `RecordsAgree` and
`SettledRunsStay`.

`ClaimLedgerProofs`:

* `TaskIsOneClaim` and `OnlyStaleWritesCollide`. Neither is inductive: what matters is
  what the pipeline holds between its two lock windows. `HeldDraft` and
  `HeldPromotions` say that a row it has read has since been outbid by corrections
  only (`OutbidByReview`), that the promotions are rows of different claims, and that
  an id it has picked is still free while its task has no row. A fresh id is the number
  of ids plus one, so `TableInv` has the ids without a gap.
* `PassedIsClean`. `Judged` carries QA's verdict over the corrections between `Qa` and
  `StartWrite`: a claim that QA did not flag is clean or, by now, a reviewer's.
* `CorrectionIsShown`: the correction's version is above all of its claim
  (`InsertedIsShown`), and no step of the pipeline is a correction. That one row is the
  highest at all (`TopIsThere`) is well-foundedness of the naturals, twice.
* `LedgerImplementsRegister`: every insert is one `Submit` of the register, every other
  step a stutter. `HeldAreFirst` is what makes a stale write lose: the row that the
  pipeline holds is the first of its version. So if it is still shown the insert shows
  (`ShowsIfCurrent`), and if a correction came between, that has the next version
  already, and the insert only ties with it and comes second. That the register's
  bound on writes is kept needs `Counted`: a round drafts each task at most once, the
  write promotes each claim at most once, and what remains are corrections.
* `TypeCorrect`, with the bounds that the counting gives: one id for each task, and no
  version beyond the rows there can be.

`BriefProofs`, on top of those of the ledger: `BriefInv`.

* `BriefCitesTheReport`. `CitesPassed` says at each step of the synthesis that every id
  it may still cite is passed or has been taken out by a reviewer since `snapshot`;
  it holds because the pipeline is done when the synthesis begins, so every row after
  `snapshot` is a reviewer's.
* `PartialRunIsDisclosed`. `FlaggedInv` says of every row with status `pass` that a
  reviewer wrote it or the pipeline is in its last stage and QA did not flag the claim
  (`MayBePassed`): nothing of a run is passed by the pipeline before the list of
  promotions is drawn up, and no flagged claim is on it. So a flagged claim that is
  shown as passed when the disclosure is built has the row of a reviewer who passed it.

`TracePollerProofs`: `FeedHasOneRun` and `OnlyLateAnswersSkip`, from `PollerInv`.
`CursorInv` is said of three cursors, of the page, of the closure and of each request in
flight: while no late answer has been applied, a cursor of the current load has nothing
behind it that the feed lacks. `ReplyInv` says that an answer has no gaps: with an event
it holds all of its run between the cursor and that event. The first attempt at
this proof failed for a good reason. The property then said that only the late answer
itself skips; but the cursor it leaves is good for later polls, which are not late and
move on over the gap. Four events are enough to show it, three were not. The history
`late`, and `MaxEvents` 4, are the repair.

`CollectionProofs`:

* `BudgetIsKept`. `BudgetKept` speaks of fetches, the code of entries returned. The
  invariant `BudgetInv` ties them: `fetched` is `used` plus the attempts of the current
  call, the attempts are exactly the collected entries that will be charged (counted
  with `Cardinality`, so one lemma says what appending an entry does to the count), and
  `used` plus the attempts is within the budget, because `FetchCap` was compared before.
* `DenialIsLostOnlyInRace`. A denial that was parsed once may be gone, so `GateInv` relates
  `_CACHE` to the history: the site of a parsed denial has a parser, and where that allows
  although the denial came first, `Overwritten` names the site. A call that began when
  the denial was known is at "deny", or its site is in `Overwritten` (`CallSound`). Both
  histories only grow (`HistoryGrows`), so what the other threads do cannot undo it.
* `OutageEnds`, from the same invariant: each way into "allow" has just set the mark of
  the site, or just compared its age, or asked a parser that allows, and for a denying
  site such a parser comes from an error status (`Emptied`).
* `StoredIsDiverse` and `ImitationsComeLater`. `RankingIsSound` says of
  `DedupeAndRank` what any sequence of previews comes to (`WellRanked`), and
  `SearchInv` that what a call collects are different candidates from in front of its
  position (`Drawn`). `PenaltyDecides` is the arithmetic behind the order: with the same
  relevance a look-alike is ahead by at most four units of agreement and one of
  independence, which the penalty of five makes up for, and the genuine domain has more
  authority besides. A sixth engine would void it.
* `OwnStepsRunOut`, the safety half of `NodeFinishes`: `Measure` is what is left of calls,
  stages, futures or candidates, and of one call of the gate, in lexicographic order. Each
  step of the run lowers it; other threads, who write to the dictionaries that the run
  reads, and the clock, cannot send it back.

`DraftProofs`: `DraftInv` says that from QA until the next draft the issues are those of
the claim as it is, and what `build_claim` guarantees of any claim (`WellBuilt`).
From it follow `ReportIsGrounded`, `ListsStayDrafts` (a coerced list cites nothing, so
its tier is weak for ever) and `StrengthIsEarned` (two domains mean two rows).
`StepsRunOut` is the safety half of `RunEnds`: each step, whatever the model replies, uses
up some of `Left`, a natural number which begins as at most `8 * Cap + 7`.

`IntakeProofs`:

* `ToldTheSame` and `SelectionAlwaysSound`. `RunInv` says for each stage what `names`,
  the row and the event have to do with one another. The rest is about
  `Selected`: its members are the first places of a concatenation, cut at the cap, so
  a brand occurs once, a seed stays in front, and a candidate that is left out is
  beaten by all that are in.
* `AuditCoversAll`. `ImportInv` says which responses are stored at each step.
* `EntriesAreSound` and `LaneReachesAll`. `LaneInv` says of the place the lane is at that
  everything in front of it has been seeded, and that neither the entries nor the
  pending ones have a source twice. The second spelling of a brand fails on its
  source id before it can add an entry; that is why the first theorem holds although
  the request may spell a brand twice.
* `RateAlwaysHeld`. Starts are not an interval apart, since threads wake late. `PoolInv`
  counts for every time c from now on what will have started if all wake at their slot
  (`Begun`): it is at most c divided by the interval, plus one.
* `StepsRunOut`, the safety half of `IntakeEnds`: `Measure` counts stages, then queries,
  competitors or queued pages, then answers or waiting threads, then fetches, then the
  time until the last slot. Time passes only while a thread may still sleep, and a thread
  that claims a slot leaves the queue, although it moves the last slot.
* `TypeCorrect`, of the pool too.

Only model-checked: liveness, which needs ENABLED and fairness and is out of the
prover's reach (`Settles`, `Terminates`, `GraphAlwaysSettles`, `OldOrphanReaped`,
`FeedCompletes`, `NodeFinishes`, `RunEnds`, `IntakeEnds`, and that a run of
`ImplementsContract` settles).

## Not modelled

The wording of sources, claims and prompts, and with it the redaction of personal
data, the neutralising of untrusted text and the anchors of quotations. The conflict
between two claims on one task, which `ClaimLedger!OneIdPerTask` excludes; Admiralty
grades, the groundedness score and the contradiction card, which only decorate the
report. The provider chain of `search()` and the collector's list of URLs, which the
default collector does not take, and the address filter of `is_safe_url`.
`ingest_interview`, which no endpoint calls. `delete_run`, which no endpoint calls
either. Schemas, configuration and migrations; metrics and read-only views; rendering;
scripts, timing of the demo and videos. Failures of the executor's own status writes,
and more than one API process per database, are excluded.

## Plan

What could still be proved or modelled, in this order:

1. The `TypeOK`s of `RunLifecycle`, `TracePoller`, `Collection`, `Draft` and `Brief`.
2. The survey lane and the imported rows in `Draft`'s sources, so that both meet in one
   instance.
