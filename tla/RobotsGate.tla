------------------------------ MODULE RobotsGate ------------------------------
(***************************************************************************)
(* collector/robots.py: is_allowed and the two dictionaries behind it,     *)
(* which the threads of all runs share without a lock.  A call looks for   *)
(* a parsed robots.txt, then for a recent failure, and only then fetches;  *)
(* other threads may run between any two of these.                         *)
(***************************************************************************)
EXTENDS Integers

CONSTANTS Threads,   \* the threads that collect
          Domains,   \* scheme://netloc keys
          Denying,   \* the domains whose robots.txt disallows MingJingBot
          TTL,       \* _FAILURE_TTL_SECONDS
          MaxTime    \* bound of the model: how far the clock runs

ASSUME GateConstants == /\ Denying \subseteq Domains
                        /\ TTL \in Nat \ {0} /\ MaxTime \in Nat

VARIABLES
  parsed,    \* _CACHE: what a parser that was loaded answers, or "none"
  failedAt,  \* _FAILURES: when the last fetch failed, or Never
  loaded,    \* history: the robots.txt that were parsed
  now,       \* time.monotonic()
  gate       \* the is_allowed call of each thread

gateVars == <<parsed, failedAt, loaded, now, gate>>
shared   == <<parsed, failedAt, loaded, now>>

Never   == 0 - TTL
Answers == {"none", "allow", "deny"}

\* What a fetch that raises nothing may bring, as the parser will answer: the
\* text of a status below 400; of any other, a passing 429 or 503 included, "".
Served(d) == IF d \in Denying THEN {"deny", "allow"} ELSE {"allow"}

\* The domains whose denial was parsed at some time.
Denied == {load.domain : load \in {l \in loaded : l.answer = "deny"}}

\* The denying ones for which something else was parsed.
Emptied == {load.domain : load \in {l \in loaded : l.domain \in Denying /\ l.answer = "allow"}}

\* Those whose denial was in _CACHE then, put there after the call had begun.
Overwritten == {load.domain : load \in {l \in loaded : /\ l.answer = "allow"
                                                       /\ l.overDenial /\ ~ l.known}}

\* parser: what _load_parser is about to return.  known is no part of the code:
\* whether a denial had been parsed when the call began.
NoCall == [stage |-> "idle", domain |-> "", known |-> FALSE, parser |-> "none"]

GateInit == /\ parsed = [d \in Domains |-> "none"]
            /\ failedAt = [d \in Domains |-> Never]
            /\ loaded = {} /\ now = 0
            /\ gate = [t \in Threads |-> NoCall]

Advance(t, stage) == gate' = [gate EXCEPT ![t].stage = stage]
Become(t, stage, parser) ==
  gate' = [gate EXCEPT ![t] = [stage |-> stage, domain |-> @.domain, known |-> @.known,
                               parser |-> parser]]

\* The order of the two look-ups, swapped: a recent failure answers first.
CallMarkFirst(t, d) ==
  /\ gate[t].stage = "idle"
  /\ gate' = [gate EXCEPT ![t] =
       [stage |-> CASE now - failedAt[d] < TTL -> "allow"
                    [] parsed[d] # "none"      -> parsed[d]
                    [] OTHER                   -> "miss",
        domain |-> d, known |-> d \in Denied, parser |-> "none"]]
  /\ UNCHANGED shared

\* _CACHE.get: the parser that is there answers.
Call(t, d) ==
  /\ gate[t].stage = "idle"
  /\ gate' = [gate EXCEPT ![t] =
       [stage |-> IF parsed[d] = "none" THEN "miss" ELSE parsed[d],
        domain |-> d, known |-> d \in Denied, parser |-> "none"]]
  /\ UNCHANGED shared

\* A failure is never too old.
CheckMarkForGood(t) ==
  /\ gate[t].stage = "miss"
  /\ Advance(t, IF failedAt[gate[t].domain] = Never THEN "fetch" ELSE "allow")
  /\ UNCHANGED shared

\* _FAILURES.get: a recent failure lets the page through without a fetch.
CheckMark(t) ==
  /\ gate[t].stage = "miss"
  /\ LET at == failedAt[gate[t].domain]
     IN  Advance(t, CASE at = Never     -> "fetch"
                      [] now - at < TTL -> "allow"
                      [] OTHER          -> "expired")
  /\ UNCHANGED shared

\* _FAILURES.pop: it may remove a mark that another thread has set since.
DropMark(t) ==
  /\ gate[t].stage = "expired"
  /\ failedAt' = [failedAt EXCEPT ![gate[t].domain] = Never]
  /\ Advance(t, "fetch")
  /\ UNCHANGED <<parsed, loaded, now>>

\* fetch_robots raises: the page is let through, and the failure remembered.
FetchRaises(t) ==
  /\ gate[t].stage = "fetch"
  /\ failedAt' = [failedAt EXCEPT ![gate[t].domain] = now]
  /\ Advance(t, "allow")
  /\ UNCHANGED <<parsed, loaded, now>>

\* What came is parsed and kept for good, whatever another thread has put there.
FetchAnswers(t) ==
  /\ gate[t].stage = "fetch"
  /\ LET d == gate[t].domain
     IN  \E answer \in Served(d) :
           /\ parsed' = [parsed EXCEPT ![d] = answer]
           /\ loaded' = loaded \cup {[domain |-> d, answer |-> answer,
                                      overDenial |-> parsed[d] = "deny",
                                      known |-> gate[t].known]}
           /\ Become(t, "parsed", answer)
  /\ UNCHANGED <<failedAt, now>>

\* The failure is forgotten and the new parser asked.
Forget(t) ==
  /\ gate[t].stage = "parsed"
  /\ failedAt' = [failedAt EXCEPT ![gate[t].domain] = Never]
  /\ Become(t, gate[t].parser, "none")
  /\ UNCHANGED <<parsed, loaded, now>>

Load(t) == \/ CheckMark(t) \/ DropMark(t) \/ FetchRaises(t) \/ FetchAnswers(t) \/ Forget(t)

\* The caller has its verdict.
Return(t) == gate' = [gate EXCEPT ![t] = NoCall]

Tick == /\ now < MaxTime
        /\ now' = now + 1
        /\ UNCHANGED <<parsed, failedAt, loaded, gate>>

GateTypeOK ==
  /\ parsed \in [Domains -> Answers]
  /\ failedAt \in [Domains -> {Never} \cup 0..MaxTime]
  /\ now \in 0..MaxTime
  /\ \A t \in Threads :
       /\ gate[t].stage \in {"idle", "miss", "expired", "fetch", "parsed", "allow", "deny"}
       /\ gate[t].domain \in Domains \cup {""}
       /\ gate[t].known \in BOOLEAN /\ gate[t].parser \in Answers
  /\ loaded \subseteq [domain : Domains, answer : {"deny", "allow"}, overDenial : BOOLEAN,
                       known : BOOLEAN]
=============================================================================
