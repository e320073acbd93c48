-------------------------------- MODULE Intake --------------------------------
(***************************************************************************)
(* What the executor of runner.py does before it invokes the graph: find   *)
(* the competitors when the request named none (discovery.py), seed the    *)
(* survey lane (survey_seed.py) and warm the page cache (Prewarm).  All    *)
(* three are best effort.  Meanwhile the API may import survey answers     *)
(* into the run (api.py, ingest.py).                                       *)
(*                                                                         *)
(* A name is [brand, spelling]: names of one brand have one slug, one      *)
(* fixture and one address, but are different strings.                     *)
(***************************************************************************)
EXTENDS Prewarm

CONSTANTS
  Brands, NoBrand,
  Spellings,   \* "title" is the one of a page's title or domain
  Requests,    \* what POST /runs may ask: [directed, seeds: names; cap]
  Pages,       \* search results: [from, at, head, says]: the domain, the brand its root
               \* label spells, the brand heading the title, the brands mentioned
  Noise,       \* _NOISE_DOMAINS: aggregators and press
  Shorter(_, _),  \* the name of the first brand wins a tie of the ranking
  Queries,     \* how many queries discovery asks
  Fixture,     \* [brand -> sequence of <<kind, field>>], <<>> when there is none
  Fields,      \* the active field schemas
  Intervals,   \* min_interval_s of prewarm_all; the executor leaves it at 0
  Responses    \* how many responses the imported survey has

Names   == [brand : Brands, spelling : Spellings]
Answers == STRING \X STRING

(* A brand's curated answers cover a field once, be it in its survey or in *)
(* its interview (survey_fixture.py:14-62); of two names one sorts first;  *)
(* an import without responses is refused (api_models.py:197).             *)
ASSUME IntakeAssumption ==
  /\ IsFiniteSet(Brands) /\ NoBrand \notin Brands /\ "title" \in Spellings
  /\ Requests \subseteq [directed : Seq(Names), seeds : Seq(Names), cap : 1 .. 6]
  /\ Queries \in Nat /\ Fields \in Seq(STRING) /\ Intervals \subseteq Nat
  /\ Responses \in Nat \ {0}

ASSUME FixtureAssumption ==
  /\ Fixture \in [Brands -> Seq(Answers)]
  /\ \A b \in Brands : \A k, l \in DOMAIN Fixture[b] :
       Fixture[b][k][2] = Fixture[b][l][2] => k = l

ASSUME ShorterAssumption ==
  /\ \A a, b \in Brands : a # b <=> Shorter(a, b) \/ Shorter(b, a)
  /\ \A a, b, c \in Brands : Shorter(a, b) /\ Shorter(b, c) => Shorter(a, c)

VARIABLES
  stage,      \* where the executor is
  request,    \* the row of the run, as created
  row,        \* competitors_json of the row now
  asked,      \* discovery queries asked
  found,      \* the previews they returned
  raised,     \* the discovery callable raised
  names,      \* competitors, of the executor
  announced,  \* the discovery event in the trace
  sources,    \* the ids of the run's rows in sources
  entries,    \* survey_entries
  pending,    \* the entries of the competitor whose rows are being written
  spot,       \* <<competitor, field of its fixture>> to seed next
  laneFailed, \* history: a statement of the survey lane failed
  import,     \* where the import is
  response,   \* the response it is at
  audited     \* a survey_ingested event is in the trace

runVars  == <<stage, request, row, asked, found, raised, names, announced>>
laneVars == <<entries, pending, spot, laneFailed>>
importVars == <<import, response, audited>>
vars == <<runVars, laneVars, importVars, sources, poolVars>>

(***************************************************************************)
(* discovery.py                                                            *)
(***************************************************************************)
Official(P, b) == \E p \in P : p.at = b

\* The distinct domains that mention a brand, its own site included.
Backers(P, b) == {p.from : p \in {q \in P : q.at = b \/ b \in q.says}}

\* Only a page that is no aggregator's can name a candidate.
Candidates(P) ==
  {b \in Brands : /\ \E p \in P : p.from \notin Noise /\ b \in {p.at, p.head}
                  /\ Backers(P, b) # {}}

Beats(P, a, b) ==
  LET backing(x) == Cardinality(Backers(P, x))
  IN  IF Official(P, a) # Official(P, b) THEN Official(P, a)
      ELSE IF backing(a) # backing(b) THEN backing(a) > backing(b)
      ELSE Shorter(a, b)

\* sorted(...): one list, as no two candidates tie.
Rankings(P) ==
  LET cs == Candidates(P)
  IN  {list \in [1 .. Cardinality(cs) -> cs] :
         \A i, j \in DOMAIN list : i < j => Beats(P, list[i], list[j])}

Titled(ranked) == [i \in DOMAIN ranked |-> [brand |-> ranked[i], spelling |-> "title"]]

BrandsOf(list) == {list[i].brand : i \in DOMAIN list}

\* _add: the first name of a brand stays, in its place.
Firsts(list) == {i \in DOMAIN list : \A j \in 1 .. i - 1 : list[j].brand # list[i].brand}

Places(list) ==
  LET kept == Firsts(list)
  IN  {at \in [1 .. Cardinality(kept) -> kept] :
         \A i, j \in DOMAIN at : i < j => at[i] < at[j]}

Distinct(list) == {[i \in DOMAIN at |-> list[at[i]]] : at \in Places(list)}

Cut(list, cap) == SubSeq(list, 1, IF Len(list) < cap THEN Len(list) ELSE cap)

\* rank_candidates without the slice after the seeds, which the loop's break does not replace.
SelectedUncut(P, seeds, cap) ==
  LET alone == {list \in Distinct(seeds) : Len(list) >= cap}
  IN  IF alone # {} THEN alone
      ELSE {Cut(all, cap) : all \in UNION {Distinct(seeds \o Titled(r)) : r \in Rankings(P)}}

\* The list that rank_candidates returns, as the only member of a set.
Selected(P, seeds, cap) ==
  {Cut(all, cap) : all \in UNION {Distinct(seeds \o Titled(r)) : r \in Rankings(P)}}

(***************************************************************************)
(* runner.py                                                               *)
(***************************************************************************)
NoEvent == [type |-> "none", selected |-> <<>>]

Init ==
  /\ stage = "begin" /\ request \in Requests /\ row = request.directed
  /\ asked = 0 /\ found = {} /\ raised = FALSE /\ names = <<>> /\ announced = NoEvent
  /\ sources = {} /\ entries = <<>> /\ pending = <<>> /\ spot = <<1, 1>> /\ laneFailed = FALSE
  /\ import = "idle" /\ response = 1 /\ audited = FALSE
  /\ PoolIdle
  /\ cache = {}

Begin ==
  /\ stage = "begin"
  /\ stage' = IF request.directed = <<>> THEN "ask" ELSE "design"
  /\ names' = request.directed
  /\ UNCHANGED <<request, row, asked, found, raised, announced, laneVars, importVars,
                 sources, poolVars>>

\* A query whose search raises adds nothing.
Ask ==
  /\ stage = "ask" /\ asked < Queries
  /\ asked' = asked + 1
  /\ \E previews \in SUBSET Pages : found' = found \cup previews
  /\ UNCHANGED <<stage, request, row, raised, names, announced, laneVars, importVars,
                 sources, poolVars>>

Announce(chosen, failed) ==
  /\ stage = "ask"
  /\ stage' = "persist" /\ names' = chosen /\ raised' = failed
  /\ announced' = [type |-> IF chosen = <<>> THEN "discovery_empty"
                            ELSE "competitors_discovered",
                   selected |-> chosen]
  /\ asked' = 0 /\ found' = IF failed THEN {} ELSE found
  /\ UNCHANGED <<request, row, laneVars, importVars, sources, poolVars>>

\* discover_competitors answered, or the callable raised and the seeds stand in for it.
Discover ==
  \/ /\ asked = Queries
     /\ \E best \in Selected(found, request.seeds, request.cap) : Announce(best, FALSE)
  \/ Announce(request.seeds, TRUE)

PersistFound ==
  /\ stage = "persist"
  /\ stage' = "design"
  /\ row' = IF names = <<>> \/ raised THEN row ELSE names
  /\ UNCHANGED <<request, asked, found, raised, names, announced, laneVars, importVars,
                 sources, poolVars>>

Persist ==
  /\ stage = "persist"
  /\ stage' = "design"
  /\ row' = IF names = <<>> THEN row ELSE names
  /\ UNCHANGED <<request, asked, found, raised, names, announced, laneVars, importVars,
                 sources, poolVars>>

\* The statements that no try of the executor surrounds.
Abort ==
  /\ stage \in {"begin", "ask", "persist", "warm"}
  /\ stage' = "aborted"
  /\ UNCHANGED <<request, row, asked, found, raised, names, announced, laneVars, importVars,
                 sources, poolVars>>

(***************************************************************************)
(* The survey lane                                                         *)
(***************************************************************************)
LaneStep == UNCHANGED <<request, row, asked, found, raised, names, announced, importVars,
                        poolVars>>

Design ==
  /\ stage = "design" /\ stage' = "seed"
  /\ UNCHANGED <<laneVars, sources>> /\ LaneStep

Competitor == names[spot[1]]
Answered   == Fixture[Competitor.brand]

\* source_id, but for the id of the run.
SourceId(brand, answer) == <<brand, answer[1], answer[2]>>

SeedRow ==
  /\ stage = "seed" /\ spot[1] <= Len(names) /\ spot[2] <= Len(Answered)
  /\ LET id == SourceId(Competitor.brand, Answered[spot[2]])
     IN  /\ id \notin sources
         /\ sources' = sources \cup {id}
         /\ pending' = Append(pending, [source |-> id, field |-> id[3],
                                        competitor |-> Competitor])
  /\ spot' = <<spot[1], spot[2] + 1>>
  /\ UNCHANGED <<stage, entries, laneFailed>> /\ LaneStep

\* Gives up the lane at the first competitor without a fixture.
SeedNextKnown ==
  /\ stage = "seed" /\ spot[1] <= Len(names) /\ spot[2] > Len(Answered)
  /\ entries' = entries \o pending /\ pending' = <<>>
  /\ spot' = <<IF Answered = <<>> THEN Len(names) + 1 ELSE spot[1] + 1, 1>>
  /\ UNCHANGED <<stage, sources, laneFailed>> /\ LaneStep

SeedNext ==
  /\ stage = "seed" /\ spot[1] <= Len(names) /\ spot[2] > Len(Answered)
  /\ entries' = entries \o pending /\ pending' = <<>> /\ spot' = <<spot[1] + 1, 1>>
  /\ UNCHANGED <<stage, sources, laneFailed>> /\ LaneStep

SeedDone ==
  /\ stage = "seed" /\ spot[1] > Len(names)
  /\ stage' = "warm"
  /\ UNCHANGED <<laneVars, sources>> /\ LaneStep

\* The source row's key is taken, or any statement of the lane raised.  What the
\* competitor had so far is lost with the call's local entries; its rows stay.
LaneFails(kept) ==
  /\ \/ stage = "design"
     \/ stage = "seed" /\ spot[1] <= Len(names) /\ spot[2] <= Len(Answered)
  /\ stage' = "warm" /\ pending' = <<>> /\ laneFailed' = TRUE /\ entries' = kept
  /\ UNCHANGED <<spot, sources>> /\ LaneStep

\* The entry is noted before its row is written.
GiveUpLaneLate ==
  LaneFails(IF stage = "seed"
            THEN entries \o Append(pending, [source |-> SourceId(Competitor.brand, Answered[spot[2]]),
                                             field |-> Answered[spot[2]][2],
                                             competitor |-> Competitor])
            ELSE entries)

GiveUpLane == LaneFails(entries)

Seed == SeedRow \/ SeedNext \/ SeedDone \/ GiveUpLane

(***************************************************************************)
(* Warming up, and the graph                                               *)
(***************************************************************************)
Urls == [i \in 1 .. Len(names) * Len(Fields) |->
           <<names[1 + ((i - 1) \div Len(Fields))].brand, Fields[1 + ((i - 1) % Len(Fields))]>>]

ExceptStage == UNCHANGED <<request, row, asked, found, raised, names, announced, laneVars,
                           importVars, sources>>

Warm ==
  /\ stage = "warm"
  /\ \/ stage' = "pool" /\ \E gap \in Intervals : Submit(Urls, gap)
     \/ stage' = "graph" /\ UNCHANGED poolVars      \* prewarm_all raised
  /\ ExceptStage

Invoke ==
  /\ stage = "pool" /\ PoolDone
  /\ stage' = "graph"
  /\ Return /\ ExceptStage

Thread == stage = "pool" /\ PoolThread /\ stage' = stage /\ ExceptStage
Passing == stage = "pool" /\ Tick /\ stage' = stage /\ ExceptStage

(***************************************************************************)
(* POST /runs/{run_id}/survey/import.  A source row and the chunks of its  *)
(* answers, which nothing reads before the run ends, are one step.         *)
(***************************************************************************)
ImportStep == UNCHANGED <<runVars, laneVars, poolVars>>

\* SurveyImportRequest is validated as a whole before anything is stored.
ImportAsked ==
  /\ import = "idle"
  /\ import' \in {"row", "refused"}
  /\ UNCHANGED <<response, audited, sources>> /\ ImportStep

\* Each response is validated when its turn comes.
ImportRowOrRefuse ==
  /\ import = "row"
  /\ \/ /\ sources' = sources \cup {<<"import", response>>}
        /\ response' = response + 1
        /\ import' = IF response = Responses THEN "event" ELSE "row"
     \/ import' = "refused" /\ UNCHANGED <<sources, response>>
  /\ UNCHANGED audited /\ ImportStep

ImportRow ==
  /\ import = "row"
  /\ sources' = sources \cup {<<"import", response>>}
  /\ response' = response + 1
  /\ import' = IF response = Responses THEN "event" ELSE "row"
  /\ UNCHANGED audited /\ ImportStep

ImportEvent ==
  /\ import = "event" /\ import' = "done" /\ audited' = TRUE
  /\ UNCHANGED <<response, sources>> /\ ImportStep

ImportFails ==
  /\ import \in {"row", "event"} /\ import' = "failed"
  /\ UNCHANGED <<response, audited, sources>> /\ ImportStep

Import == ImportAsked \/ ImportRow \/ ImportEvent \/ ImportFails

Executor == Begin \/ Ask \/ Discover \/ Persist \/ Abort \/ Design \/ Seed \/ Warm \/ Invoke
Next == Executor \/ Thread \/ Passing \/ Import

Spec == Init /\ [][Next]_vars

(* The executor's thread, the pool's threads and the clock go on; nobody   *)
(* need import a survey.                                                   *)
FairSpec == Spec /\ WF_vars(Executor) /\ WF_vars(Thread) /\ WF_vars(Passing)

(***************************************************************************)
(* Properties                                                              *)
(***************************************************************************)
TypeOK ==
  /\ stage \in {"begin", "ask", "persist", "design", "seed", "warm", "pool", "graph", "aborted"}
  /\ request \in Requests /\ row \in Seq(Names) /\ names \in Seq(Names)
  /\ asked \in 0 .. Queries /\ found \subseteq Pages /\ raised \in BOOLEAN
  /\ \A i \in DOMAIN entries : entries[i].competitor \in Names
  /\ spot[1] \in 1 .. Len(names) + 1 /\ laneFailed \in BOOLEAN
  /\ import \in {"idle", "refused", "row", "event", "done", "failed"}
  /\ response \in 1 .. Responses + 1 /\ audited \in BOOLEAN
  /\ PoolTypeOK

Ready == stage \in {"warm", "pool", "graph"}

(* What discovery selects (discovery.py:315-359): no more than the cap and *)
(* no brand twice, the reader's own seeds before any find, and among the   *)
(* finds never a product known from others' pages only while one whose own *)
(* site was seen is left out.                                              *)
SelectionIsSound ==
  announced # NoEvent /\ ~raised =>
    LET seeded == BrandsOf(request.seeds)
        chosen == BrandsOf(names)
    IN  /\ Len(names) <= request.cap /\ Cardinality(chosen) = Len(names)
        /\ \A i, j \in DOMAIN names :
             i < j /\ names[j].brand \in seeded => names[i].brand \in seeded
        /\ \A b \in Candidates(found) \ chosen, c \in chosen \ seeded :
             Official(found, b) => Official(found, c)

(* The reader, the trace and the graph are told the same competitors       *)
(* (runner.py:322-334, 109-120), however discovery ended.                  *)
ListAgrees ==
  Ready => /\ row = names
           /\ announced # NoEvent => /\ announced.selected = names
                                    /\ (announced.type = "discovery_empty") <=> (names = <<>>)

(* Every entry that the graph is seeded with (runner.py:173) has its row   *)
(* in sources, where the analyst and QA look for its text, and a claim on  *)
(* one field of one brand finds at most one seeded source                  *)
(* (survey_seed.py:33-37), even if the request spelled the brand twice.    *)
EntriesStand ==
  Ready => /\ \A i \in DOMAIN entries : entries[i].source \in sources
           /\ \A i, j \in DOMAIN entries :
                entries[i].competitor.brand = entries[j].competitor.brand
                  /\ entries[i].field = entries[j].field => i = j

(* The lane is best effort, but only a failure cuts it short: otherwise    *)
(* every competitor with a fixture has all its answers in front of the     *)
(* graph, wherever it stands in the list (runner.py:360-361).              *)
LaneCutOnlyByFailure ==
  Ready /\ ~laneFailed =>
    \A b \in BrandsOf(names) : \A k \in DOMAIN Fixture[b] :
      \E i \in DOMAIN entries : entries[i].source = SourceId(b, Fixture[b][k])

(* Imported answers are never left without their audit event, unless the   *)
(* store itself failed (api.py:462-464), and the event covers them all.    *)
ImportIsAudited ==
  LET stored == {k \in 1 .. Responses : <<"import", k>> \in sources}
  IN  /\ stored # {} => audited \/ import \in {"row", "event", "failed"}
      /\ audited => stored = 1 .. Responses

(* Whatever discovery, the lane or a fetch comes to, the executor gets to  *)
(* the graph, or raises (runner.py:100-175).                               *)
IntakeEnds == <>(stage \in {"graph", "aborted"})
=============================================================================
