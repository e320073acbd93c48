------------------------------ MODULE Collection ------------------------------
(***************************************************************************)
(* The collect node of one run: make_default_collect_fn of graph.py over   *)
(* agents/collector.py, collector/search.py, collector/fetch.py and the    *)
(* page cache.  The node makes one call of collect for every task and      *)
(* round; the fetch budget lives in the closure, so all calls of the run   *)
(* share it.  The robots gate is shared with the threads of other runs.    *)
(***************************************************************************)
EXTENDS RobotsGate, Ranking

CONSTANTS Self,        \* the thread of this run
          TierEngines, \* the engines of the depth tier
          Unbound,     \* those that bind_provider has no URL for
          Base,        \* the query of the task
          Lines,       \* the queries that the model may answer to an expansion
          QueryCap,    \* sub_queries of the tier
          Results,     \* [query, engine -> sequence of previews]
          Lands,       \* [url -> the site where its redirects end]
          Cached,      \* urls with a page in the cache that is long enough
          Tasks, Rounds,      \* tasks of the plan; bound of the model: rounds
          FetchBudget, TopK,  \* fetch_budget_per_run and top_k of the tier
          CacheFirst,         \* settings.mode is cache_first
          Rendering           \* a Firecrawl key is configured

PerDomainCap == 2

ASSUME CollectionConstants ==
  /\ Self \in Threads /\ QueryCap \in Nat \ {0}
  /\ Tasks \in Nat \ {0} /\ Rounds \in Nat \ {0}
  /\ FetchBudget \in Nat /\ TopK \in Nat

Engines == TierEngines \ Unbound
Jobs    == (Lines \cup {Base}) \X Engines

\* What the providers may return.
Previews == UNION {{Results[job][i] : i \in DOMAIN Results[job]} : job \in Jobs}

(* A tier names at most the five engines that bind_provider knows          *)
(* (config.py:28-46, search.py:343-397); parallel_search tags a preview    *)
(* with its engine (search.py:318).                                        *)
ASSUME SearchAssumption ==
  /\ IsFiniteSet(TierEngines) /\ Cardinality(TierEngines) <= 5
  /\ \A job \in Jobs : Results[job] \in Seq(Previews)
  /\ \A p \in Previews : /\ p.authority \in Int /\ p.relevance \in Int
                         /\ p.engine \in Engines /\ p.site \in Domains

VARIABLES
  stage,     \* where the call is
  call,      \* how many calls of collect the node has begun
  used,      \* budget["used"]
  memo,      \* _expand_cache: task -> the queries, or {} when there is no entry
  pending,   \* the (query, engine) pairs whose future has not completed
  merged,    \* the previews of the completed ones
  ranked,    \* the candidates
  position,  \* the candidate the loop is at
  attempts,  \* fetch_attempts
  collected, \* what the call returns: [hit, kind] in order
  fetched,   \* history: page fetches of the run
  trespass   \* history: [from, to] of requests to a site whose denial was parsed

vars == <<parsed, failedAt, loaded, now, gate, stage, call, used, memo, pending, merged, ranked,
          position, attempts, collected, fetched, trespass>>
closure == <<call, used, memo>>
search  == <<pending, merged, ranked>>
history == <<fetched, trespass>>

Round      == (call - 1) \div Tasks
Task       == (call - 1) % Tasks
LowerOf(a, b) == IF a < b THEN a ELSE b
Remaining  == FetchBudget - used

\* The cap, without what is left of the budget.
RoundCap == 1 + Round

\* The cap of the graph, 1 + revision_round, and what is left of the budget.
FetchCap   == LowerOf(1 + Round, Remaining)

Hit        == ranked[position]
Collect(kind) == collected' = Append(collected, [hit |-> Hit, kind |-> kind])
MoveOn     == position' = position + 1

Init == /\ GateInit
        /\ stage = "idle" /\ call = 0 /\ used = 0
        /\ memo = [t \in 0..(Tasks - 1) |-> {}]
        /\ pending = {} /\ merged = <<>> /\ ranked = <<>>
        /\ position = 1 /\ attempts = 0 /\ collected = <<>>
        /\ fetched = 0 /\ trespass = {}

----------------------------------------------------------------------------
\* The node turns to the next task, or to the first one of the next round.
Begin == /\ stage = "idle" /\ call < Tasks * Rounds
         /\ call' = call + 1
         /\ stage' = IF Remaining <= 0 THEN "idle" ELSE "expand"
         /\ UNCHANGED <<used, memo, search, position, attempts, collected, history, gateVars>>

\* The run leaves the loop of the graph after a round.
Leave == /\ stage = "idle" /\ call > 0
         /\ call = Tasks * Rounds \/ call % Tasks = 0
         /\ stage' = "left"
         /\ UNCHANGED <<closure, search, position, attempts, collected, history, gateVars>>

\* _parse_lines: the first lines that differ, or the base query when there are none.
Expansions == {q \in SUBSET Lines : q # {} /\ IsFiniteSet(q) /\ Cardinality(q) <= QueryCap}
              \cup {{Base}}

\* One future for every query and engine.
Submit(queries) == /\ pending' = queries \X Engines
                   /\ stage' = "search"

\* expand_queries: what the memo has or the model answers; the base query is
\* used, and nothing remembered, when the model fails.
Expand == /\ stage = "expand"
          /\ \/ /\ memo[Task] # {}
                /\ Submit(memo[Task])
                /\ UNCHANGED memo
             \/ /\ memo[Task] = {}
                /\ \E queries \in Expansions :
                     /\ Submit(queries)
                     /\ memo' = [memo EXCEPT ![Task] = queries]
             \/ /\ memo[Task] = {}
                /\ Submit({Base})
                /\ UNCHANGED memo
          /\ UNCHANGED <<call, used, merged, ranked, position, attempts, collected, history,
                         gateVars>>

\* A provider without a timeout: its future may never complete.
CompleteOrHang == /\ stage = "search"
                  /\ \E job \in pending :
                       /\ pending' = pending \ {job}
                       /\ merged' = merged \o Results[job]
                       /\ job[2] # CHOOSE e \in Engines : TRUE
                  /\ UNCHANGED <<stage, closure, ranked, position, attempts, collected, history,
                                 gateVars>>

\* What a provider returns: nothing when it has no key, fails or times out; all
\* it had read when the iterator of DuckDuckGo fails; else its previews.
Found(job) ==
  {<<>>, Results[job]} \cup
  (IF job[2] = "duckduckgo" THEN {SubSeq(Results[job], 1, n) : n \in DOMAIN Results[job]} ELSE {})

\* as_completed: the previews of one future are appended in the order in which
\* the futures end.
Complete == /\ stage = "search"
            /\ \E job \in pending :
                 /\ pending' = pending \ {job}
                 /\ \E previews \in Found(job) : merged' = merged \o previews
            /\ UNCHANGED <<stage, closure, ranked, position, attempts, collected, history,
                           gateVars>>

Rank == /\ stage = "search" /\ pending = {}
        /\ \E q \in {Qualities(merged)} : ranked' \in DedupeAndRank(merged, q, TopK, PerDomainCap)
        /\ merged' = <<>>
        /\ stage' = "loop"
        /\ UNCHANGED <<closure, pending, position, attempts, collected, history, gateVars>>

----------------------------------------------------------------------------
AtHit == stage = "loop" /\ position <= Len(ranked)

\* Within the cap: the gate is asked, on the thread of the run.
AskGate == /\ AtHit /\ attempts < FetchCap
           /\ Call(Self, Hit.site)
           /\ UNCHANGED <<stage, closure, search, position, attempts, collected, history>>

LoadRobots == /\ Load(Self)
              /\ UNCHANGED <<stage, closure, search, position, attempts, collected, history>>

SkipDisallowed == /\ AtHit /\ gate[Self].stage = "deny"
                  /\ Collect("skipped_robots") /\ MoveOn /\ Return(Self)
                  /\ UNCHANGED <<stage, closure, search, attempts, history, shared>>

\* _live_fetch: a page, a page with less than min_source_chars of text, or an
\* exception (timeout, status, too many redirects).
LiveOutcomes == {"page", "thin", "raised"}

\* Firecrawl renders a thin page; its answer is used when it is richer.
Rendered(outcome) ==
  IF outcome = "thin" /\ Rendering THEN {"thin", "page"} ELSE {outcome}

\* fetch_with_fallback: the cache answers first or after an exception.
FromCache == CacheFirst /\ Hit.url \in Cached
Fallback(outcome) ==
  IF outcome # "raised" THEN Rendered(outcome)
  ELSE IF Hit.url \in Cached THEN {"page"} ELSE {"fetch_failed"}
Outcomes == IF FromCache THEN {"page"} ELSE UNION {Fallback(o) : o \in LiveOutcomes}

\* Where a live fetch is sent although a denial of that site had been parsed
\* when the gate was asked (for the page) or by now (for the end of a redirect).
Trespasses ==
  IF FromCache THEN {}
  ELSE {[from |-> d, to |-> d] : d \in IF gate[Self].known THEN {gate[Self].domain} ELSE {}}
       \cup {[from |-> Hit.site, to |-> site] :
               site \in {Lands[Hit.url]} \cap (Denied \ {Hit.site})}

\* fetch_attempts counts the call whatever it comes back with.
Fetch == /\ AtHit /\ gate[Self].stage = "allow"
         /\ attempts' = attempts + 1
         /\ fetched' = fetched + 1
         /\ trespass' = trespass \cup Trespasses
         /\ \E outcome \in Outcomes : Collect(outcome)
         /\ MoveOn /\ Return(Self)
         /\ UNCHANGED <<stage, closure, search, shared>>

\* Beyond the cap a snippet is evidence by itself.
TakeSnippet == /\ AtHit /\ attempts >= FetchCap
               /\ IF Hit.snippet THEN Collect("snippet") ELSE UNCHANGED collected
               /\ MoveOn
               /\ UNCHANGED <<stage, closure, search, attempts, history, gateVars>>

\* What a returned entry costs.  A fetch that failed was a fetch.
Charged(kind) == kind \in {"page", "thin", "fetch_failed"}

\* The closure charges the call; the node stores what is citable.
Finish == /\ stage = "loop" /\ ~ AtHit
          /\ used' = used + Cardinality({k \in DOMAIN collected : Charged(collected[k].kind)})
          /\ stage' = "idle"
          /\ ranked' = <<>> /\ position' = 1 /\ attempts' = 0 /\ collected' = <<>>
          /\ UNCHANGED <<call, memo, pending, merged, history, gateVars>>

\* Sources that the node appends for the call: thin pages are dropped.
Stored == {k \in DOMAIN collected : collected[k].kind \in {"page", "snippet"}}

----------------------------------------------------------------------------
\* The thread of another run, at the same gate.
Other(t) == /\ t # Self
            /\ \/ \E d \in Domains : Call(t, d)
               \/ Load(t)
               \/ gate[t].stage \in {"allow", "deny"} /\ Return(t) /\ UNCHANGED shared
            /\ UNCHANGED <<stage, closure, search, position, attempts, collected, history>>

Clock == Tick /\ UNCHANGED <<stage, closure, search, position, attempts, collected, history>>

Own == \/ Begin \/ Expand \/ Complete \/ Rank \/ AskGate \/ LoadRobots
       \/ SkipDisallowed \/ Fetch \/ TakeSnippet \/ Finish \/ Leave

Next == Own \/ Clock \/ \E t \in Threads : Other(t)

Spec == Init /\ [][Next]_vars

\* The thread is scheduled, and every request has a timeout.
FairSpec == Spec /\ WF_vars(Own)

----------------------------------------------------------------------------
TypeOK ==
  /\ GateTypeOK
  /\ stage \in {"idle", "expand", "search", "loop", "left"}
  /\ call \in 0..(Tasks * Rounds) /\ used \in Nat /\ attempts \in Nat /\ fetched \in Nat
  /\ \A t \in DOMAIN memo : memo[t] \in Expansions \cup {{}}
  /\ pending \subseteq Jobs
  /\ Len(ranked) <= TopK /\ position \in 1..(Len(ranked) + 1)
  /\ \A k \in DOMAIN collected :
       collected[k].kind \in {"page", "thin", "snippet", "fetch_failed", "skipped_robots"}
  /\ trespass \subseteq [from : Domains, to : Domains]

\* The budget is a cap on the page fetches of the run: over all tasks and
\* rounds, failures included, no more are made than fetch_budget_per_run.
BudgetKept == fetched <= FetchBudget

\* A page is fetched although the denial of its site had been parsed only as the
\* end of a redirect, which no gate looks at, or when that denial was lost to a
\* race: a call that began before it was parsed, and was answered with an error
\* status, put an empty robots.txt in its place.  Nothing else loses a denial,
\* not even other threads that fail to load the same robots.txt.
DenialLostOnlyInRace ==
  \A r \in trespass : r.from # r.to \/ r.from \in Overwritten

\* However the calls of the threads interleave, a denying domain that has not
\* been answered with an error status is let through only while the last failure
\* to load its robots.txt is less than TTL old.
OutageIsBrief ==
  [][\A t \in Threads :
       /\ gate[t].stage # "allow" /\ gate'[t].stage = "allow"
       /\ gate'[t].domain \in Denying \ Emptied
       => now - failedAt'[gate'[t].domain] < TTL]_vars

\* "a transient failure does not permanently whitelist the domain"
\* (robots.py:50-52): a call that has not fetched robots.txt itself lets a
\* denying domain through only while the last failure is less than TTL old.
FailOpenIsBrief ==
  [][\A t \in Threads :
       /\ gate[t].stage \notin {"allow", "parsed"} /\ gate'[t].stage = "allow"
       /\ gate'[t].domain \in Denying
       => now - failedAt'[gate'[t].domain] < TTL]_vars

\* One call never stores a url twice, nor more than two sources of a domain,
\* however many engines and sub-queries found them.
EvidenceIsDiverse ==
  /\ \A i, j \in Stored : collected[i].hit.url = collected[j].hit.url => i = j
  /\ \A i \in Stored : Cardinality({k \in Stored : collected[k].hit.domain
                                                    = collected[i].hit.domain}) <= PerDomainCap

\* A domain that looks like no other one that the providers know.
Genuine(domain) == \A p \in Previews : ~ Padded(domain, p.domain)

\* A look-alike with as much to say about the query never gets ahead of the
\* genuine domain it imitates, however many engines returned it and in whatever
\* order.  (One that imitates a look-alike may: both are demoted alike.)
LookAlikeBehind ==
  \A i, j \in DOMAIN ranked :
     /\ Padded(ranked[i].domain, ranked[j].domain) /\ Genuine(ranked[j].domain)
     /\ ranked[j].authority > ranked[i].authority
     /\ ranked[i].relevance = ranked[j].relevance
     => j < i

\* Providers, robots hosts and pages may fail, but the collect node comes to an end.
NodeFinishes == <>(stage = "left")
=============================================================================
