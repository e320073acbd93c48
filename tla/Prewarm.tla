------------------------------- MODULE Prewarm -------------------------------
(***************************************************************************)
(* prewarm_all: a pool of threads fetches one page per competitor and      *)
(* field into the page cache before the graph starts.  A gate spaces the   *)
(* starts: a thread claims the next slot under a lock and sleeps until it  *)
(* outside the lock, so that it may wake late.                             *)
(***************************************************************************)
EXTENDS Naturals, Sequences, FiniteSets

CONSTANTS
  Workers,     \* max_workers
  Elsewhere,   \* the address a page redirected to
  Slack        \* the longest a thread sleeps beyond the slot claimed last

ASSUME WorkersAssumption == Workers \in Nat \ {0} /\ Slack \in Nat

VARIABLES
  cache,       \* the addresses with a page in the cache, which outlives runs
  interval,    \* min_interval_s of this call
  work,        \* the addresses to fetch, in the order they were submitted
  item,        \* what has become of each piece of work
  slot,        \* the slot a waiting thread claimed
  lastStart,   \* _last_start, plus interval: the slot that is free next
  clock        \* time.monotonic() since the call

poolVars == <<cache, interval, work, item, slot, lastStart, clock>>

Ended == {"warmed", "error"}

PoolTypeOK ==
  /\ interval \in Nat /\ lastStart \in Nat /\ clock \in Nat
  /\ item \in [DOMAIN work -> {"queued", "gated", "fetching"} \cup Ended]
  /\ slot \in [DOMAIN work -> Nat]

PoolIdle ==
  /\ interval = 0 /\ work = <<>> /\ item = <<>> /\ slot = <<>>
  /\ lastStart = 0 /\ clock = 0

Submit(urls, gap) ==
  /\ work' = urls /\ interval' = gap
  /\ item' = [i \in DOMAIN urls |-> "queued"]
  /\ slot' = [i \in DOMAIN urls |-> 0]
  /\ lastStart' = 0 /\ clock' = 0
  /\ UNCHANGED cache

\* The call returns, and its locals go with it.
Return ==
  /\ work' = <<>> /\ item' = <<>> /\ slot' = <<>>
  /\ interval' = 0 /\ lastStart' = 0 /\ clock' = 0
  /\ UNCHANGED cache

Unfinished == {i \in DOMAIN work : item[i] \notin Ended}
\* Waits for the pages that failed, too.
AllWarmed == \A i \in DOMAIN work : item[i] = "warmed"

PoolDone == Unfinished = {}

(* The threads take the work in order, so the first Workers unfinished     *)
(* pieces are the ones a thread holds.                                     *)
Held(i) == i \in Unfinished /\ Cardinality({j \in Unfinished : j <= i}) <= Workers

Later(a, b) == IF a > b THEN a ELSE b

(* _wait_for_gate, under its lock.                                         *)
ClaimedNow == clock

Claimed == Later(clock, lastStart)

Claim(i) ==
  /\ Held(i) /\ item[i] = "queued"
  /\ IF interval = 0
     THEN item' = [item EXCEPT ![i] = "fetching"] /\ UNCHANGED <<slot, lastStart>>
     ELSE /\ item' = [item EXCEPT ![i] = "gated"]
          /\ slot' = [slot EXCEPT ![i] = Claimed]
          /\ lastStart' = Claimed + interval
  /\ UNCHANGED <<cache, interval, work, clock>>

Start(i) ==
  /\ i \in DOMAIN work /\ item[i] = "gated" /\ clock >= slot[i]
  /\ item' = [item EXCEPT ![i] = "fetching"]
  /\ slot' = [slot EXCEPT ![i] = 0]
  /\ UNCHANGED <<cache, interval, work, lastStart, clock>>

(* fetch_with_fallback and Cache.put, which stores a page under the        *)
(* address it was finally read from.  A page that is served from the cache *)
(* is put again under its own address.                                     *)
Warmed(i, address) ==
  /\ cache' = cache \cup {address}
  /\ item' = [item EXCEPT ![i] = "warmed"]

(* No page and no cached copy, or the put itself raised.                   *)
Failed(i) ==
  /\ item' = [item EXCEPT ![i] = "error"]
  /\ UNCHANGED cache

Fetch(i) ==
  /\ i \in DOMAIN work /\ item[i] = "fetching"
  /\ \/ Warmed(i, work[i])
     \/ Warmed(i, Elsewhere)
     \/ Failed(i)
  /\ UNCHANGED <<interval, work, slot, lastStart, clock>>

Tick ==
  /\ interval > 0 /\ ~PoolDone
  /\ clock < lastStart + Slack
  /\ clock' = clock + 1
  /\ UNCHANGED <<cache, interval, work, item, slot, lastStart>>

PoolThread == \E i \in DOMAIN work : Claim(i) \/ Start(i) \/ Fetch(i)

(* Sleeping outside the lock may bring two starts together, but the gate   *)
(* still holds on the average: n requests are never started in less than   *)
(* n - 1 intervals (tests/test_prewarm.py:288).                            *)
RateHeld ==
  LET begun == {i \in DOMAIN work : item[i] \notin {"queued", "gated"}}
  IN  interval > 0 => Cardinality(begun) <= 1 + (clock \div interval)
=============================================================================
