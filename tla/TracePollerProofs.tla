--------------------------- MODULE TracePollerProofs ---------------------------
(***************************************************************************)
(* Theorems about TracePoller for any number of runs, events and loads: no *)
(* order of polls, answers, failures and loads mixes two runs in the feed  *)
(* or doubles an event, and only a late answer makes the page skip one.    *)
(***************************************************************************)
EXTENDS TracePoller, FiniteSetTheorems, WellFoundedInduction, SequenceTheorems,
        TLAPS

\* What a page with cursor c will not ask for again is in the feed.
Covered(c) == \A i \in EventsOf(run) : i <= c => i \in InFeed

\* The feed: events of the run on the page, each once.
FeedInv == /\ trace \in Seq(Runs)
           /\ shown \in Seq(Nat)
           /\ \A k \in DOMAIN shown : shown[k] \in EventsOf(run)
           /\ \A k, l \in DOMAIN shown : k # l => shown[k] # shown[l]

\* A cursor, and the load it belongs to: no event that is yet to come is behind it,
\* and as long as no late answer has been applied all that is behind it is shown.
CursorInv(c, epoch) == /\ c \in Nat /\ c <= Len(trace)
                       /\ epoch \in Nat /\ epoch <= loads
                       /\ ~late /\ epoch = loads => Covered(c)

\* An answer holds all events of its run from its cursor on, up to its last one.
ReplyInv(p) == /\ p.reply \subseteq EventsOf(p.run)
               /\ \A i \in EventsOf(p.run), j \in p.reply :
                     i > p.since /\ i <= j => i \in p.reply

Poll == [stage : {"idle", "asked", "answered"}, run : Runs \cup {NoRun},
         since : Nat, epoch : Nat, reply : SUBSET Nat]

PollInv(p) == ReplyInv(p) /\ (p.stage # "idle" => CursorInv(p.since, p.epoch))

PollerInv ==
  /\ FeedInv
  /\ loads \in Nat /\ late \in BOOLEAN /\ run \in Runs \cup {NoRun}
  /\ CursorInv(since, loads)
  /\ closure \in [run : Runs \cup {NoRun}, since : Nat, epoch : Nat]
  /\ CursorInv(closure.since, closure.epoch)
  /\ polls \in [Loops -> Poll]
  /\ \A l \in Loops : PollInv(polls[l])

----------------------------------------------------------------------------
\* The rows of the trace.

LEMMA Least ==
  ASSUME NEW T, T \subseteq Nat, T # {}
  PROVE  \E x \in T : \A y \in T : x <= y
<1>1. PICK x \in T : \A y \in T : ~ (<<y, x>> \in OpToRel(<, Nat))
  BY NatLessThanWellFounded, WFMin
<1>2. \A y \in T : ~ (y < x)
  BY <1>1 DEF OpToRel
<1> QED BY <1>2

LEMMA LastOfReply ==
  ASSUME NEW n \in Nat, NEW S, S \subseteq 1 .. n, S # {}
  PROVE  MaxSeq(S) \in S /\ \A j \in S : j <= MaxSeq(S)
<1> DEFINE T == {n - i : i \in S}
<1>1. T \subseteq Nat /\ T # {}
  <2>1. \A i \in S : n - i \in Nat
    OBVIOUS
  <2> QED BY <2>1
<1>2. PICK t \in T : \A u \in T : t <= u
  BY <1>1, Least
<1>3. PICK i \in S : t = n - i
  BY <1>2
<1>4. \A j \in S : i >= j
  <2> SUFFICES ASSUME NEW j \in S PROVE i >= j
    OBVIOUS
  <2>1. n - j \in T
    OBVIOUS
  <2>2. n - i <= n - j
    BY <1>2, <1>3, <2>1
  <2> QED BY <2>2
<1>5. \E m \in S : \A j \in S : m >= j
  BY <1>4
<1>6. MaxSeq(S) \in S /\ \A j \in S : MaxSeq(S) >= j
  BY <1>5 DEF MaxSeq
<1> QED BY <1>6

LEMMA EventsOfTrace ==
  ASSUME trace \in Seq(Runs)
  PROVE  /\ Len(trace) \in Nat
         /\ \A r : EventsOf(r) \subseteq 1 .. Len(trace)
BY DEF EventsOf

\* At most one row is added, behind all others.
TraceGrows == \/ trace' = trace
              \/ \E q \in Runs : trace' = Append(trace, q)

LEMMA EventsGrow ==
  ASSUME trace \in Seq(Runs), TraceGrows
  PROVE  /\ trace' \in Seq(Runs) /\ Len(trace) <= Len(trace')
         /\ \A r : /\ EventsOf(r) \subseteq EventsOf(r)'
                   /\ \A i \in EventsOf(r)' : i \in EventsOf(r) \/ i > Len(trace)
<1>1. CASE trace' = trace
  BY <1>1 DEF EventsOf
<1>2. CASE \E q \in Runs : trace' = Append(trace, q)
  <2>1. PICK q \in Runs : trace' = Append(trace, q)
    BY <1>2
  <2>2. /\ trace' \in Seq(Runs) /\ Len(trace) \in Nat /\ Len(trace') = Len(trace) + 1
        /\ DOMAIN trace = 1 .. Len(trace) /\ DOMAIN trace' = 1 .. (Len(trace) + 1)
        /\ \A i \in 1 .. Len(trace) : trace'[i] = trace[i]
    BY <2>1
  <2> QED BY <2>2 DEF EventsOf
<1> QED BY <1>1, <1>2 DEF TraceGrows

\* What is known of a cursor or an answer stays so while the page keeps its run.
SameLoad == /\ TraceGrows /\ run' = run /\ loads' = loads
            /\ InFeed \subseteq InFeed' /\ (late => late')

LEMMA CursorStays ==
  ASSUME trace \in Seq(Runs), late \in BOOLEAN, late' \in BOOLEAN, SameLoad,
         NEW c, NEW epoch, CursorInv(c, epoch)
  PROVE  CursorInv(c, epoch)'
<1>1. /\ c \in Nat /\ c <= Len(trace) /\ Len(trace) \in Nat /\ Len(trace') \in Nat
      /\ Len(trace) <= Len(trace') /\ epoch \in Nat /\ epoch <= loads /\ loads' = loads
      /\ run' = run
  BY EventsGrow, EventsOfTrace DEF CursorInv, SameLoad
<1>2. ASSUME Covered(c) PROVE Covered(c)'
  <2> SUFFICES ASSUME NEW i \in EventsOf(run)', i <= c PROVE i \in InFeed'
    BY DEF Covered
  <2>1. i \in EventsOf(run)
    <3>1. i \in EventsOf(run) \/ i > Len(trace)
      BY <1>1, EventsGrow DEF SameLoad, EventsOf
    <3>2. i \in Nat
      BY EventsGrow DEF SameLoad, EventsOf
    <3> QED BY <1>1, <3>1, <3>2
  <2> QED BY <1>2, <2>1 DEF Covered, SameLoad
<1>3. ~late' => ~late
  BY DEF SameLoad
<1> QED BY <1>1, <1>2, <1>3 DEF CursorInv

LEMMA ReplyStays ==
  ASSUME trace \in Seq(Runs), TraceGrows, NEW p, ReplyInv(p)
  PROVE  ReplyInv(p)'
<1>1. p.reply \subseteq EventsOf(p.run)'
  BY EventsGrow DEF ReplyInv
<1>2. ASSUME NEW i \in EventsOf(p.run)', NEW j \in p.reply, i > p.since, i <= j
      PROVE  i \in p.reply
  <2>1. j \in 1 .. Len(trace) /\ Len(trace) \in Nat
    BY EventsOfTrace DEF ReplyInv
  <2>2. i \in EventsOf(p.run) \/ i > Len(trace)
    BY EventsGrow
  <2>3. i \in Nat
    BY EventsGrow DEF EventsOf
  <2>4. i \in EventsOf(p.run)
    BY <1>2, <2>1, <2>2, <2>3
  <2> QED BY <1>2, <2>4 DEF ReplyInv
<1> QED BY <1>1, <1>2 DEF ReplyInv

LEMMA PollStays ==
  ASSUME trace \in Seq(Runs), late \in BOOLEAN, late' \in BOOLEAN, SameLoad,
         NEW p, PollInv(p)
  PROVE  PollInv(p)'
BY CursorStays, ReplyStays DEF PollInv, SameLoad

\* No poll in flight.
LEMMA IdleHolds == Idle \in Poll /\ PollInv(Idle)
<1>1. Idle \in Poll /\ Idle.reply = {} /\ Idle.stage = "idle"
  BY DEF Idle, Poll
<1> QED BY <1>1 DEF PollInv, ReplyInv

LEMMA IdleHoldsNext == PollInv(Idle)'
<1>1. Idle.reply = {} /\ Idle.stage = "idle"
  BY DEF Idle
<1> QED BY <1>1 DEF PollInv, ReplyInv, Idle

----------------------------------------------------------------------------
\* The steps.

LEMMA InitHolds == Init => PollerInv
<1> SUFFICES ASSUME Init PROVE PollerInv
  OBVIOUS
<1>1. /\ trace = <<>> /\ shown = <<>> /\ since = 0 /\ loads = 0 /\ late = FALSE
      /\ run \in Runs \cup {NoRun} /\ closure = [run |-> run, since |-> 0, epoch |-> 0]
      /\ \A l \in Loops : polls[l] = Idle \/ polls[l] = Request(closure)
      /\ DOMAIN polls = Loops /\ polls = [l \in Loops |-> polls[l]]
  BY DEF Init
<1>2. FeedInv /\ \A r : EventsOf(r) = {}
  BY <1>1 DEF FeedInv, EventsOf
<1>3. CursorInv(0, 0)
  BY <1>1, <1>2 DEF CursorInv, Covered
<1>4. Request(closure) \in Poll /\ PollInv(Request(closure))
  <2>1. /\ Request(closure) = [stage |-> "asked", run |-> run, since |-> 0, epoch |-> 0,
                               reply |-> {}]
    BY <1>1 DEF Request
  <2> QED BY <1>1, <1>3, <2>1 DEF Poll, PollInv, ReplyInv
<1>5. \A l \in Loops : polls[l] \in Poll /\ PollInv(polls[l])
  BY <1>1, <1>4, IdleHolds
<1> QED BY <1>1, <1>2, <1>3, <1>5 DEF PollerInv

LEMMA EmitKeeps ==
  ASSUME PollerInv, NEW r \in Runs, Emit(r)
  PROVE  PollerInv'
<1>1. /\ UNCHANGED <<run, since, shown, loads, late, closure, polls>>
      /\ TraceGrows /\ InFeed' = InFeed
  BY DEF Emit, page, TraceGrows, InFeed
<1>2. SameLoad /\ late' \in BOOLEAN /\ late \in BOOLEAN /\ trace \in Seq(Runs)
  BY <1>1 DEF SameLoad, PollerInv, FeedInv
<1>3. FeedInv'
  BY <1>1, <1>2, EventsGrow DEF PollerInv, FeedInv
<1>4. \A c, epoch : CursorInv(c, epoch) => CursorInv(c, epoch)'
  BY <1>2, CursorStays
<1>5. \A p : PollInv(p) => PollInv(p)'
  BY <1>2, PollStays
<1>6. CursorInv(since, loads)' /\ CursorInv(closure.since, closure.epoch)'
  BY <1>1, <1>4 DEF PollerInv
<1>7. \A l \in Loops : PollInv(polls[l])'
  BY <1>1, <1>5 DEF PollerInv
<1> QED BY <1>1, <1>2, <1>3, <1>6, <1>7 DEF PollerInv

LEMMA LoadKeeps ==
  ASSUME PollerInv, NEW r \in Runs, Load(r)
  PROVE  PollerInv'
<1>1. /\ trace' = trace /\ closure' = closure /\ polls' = polls
      /\ run' = r /\ since' = 0 /\ shown' = <<>> /\ late' = FALSE /\ loads' = loads + 1
      /\ loads \in Nat /\ trace \in Seq(Runs)
  BY DEF Load, PollerInv, FeedInv
<1>2. FeedInv'
  BY <1>1 DEF FeedInv
<1>3. \A c, epoch : CursorInv(c, epoch) => CursorInv(c, epoch)'
  BY <1>1 DEF CursorInv
<1>4. \A p : PollInv(p) => PollInv(p)'
  BY <1>1, <1>3 DEF PollInv, ReplyInv, EventsOf
<1>5. CursorInv(since, loads)'
  <2>1. Covered(since)'
    BY <1>1, EventsOfTrace DEF Covered, EventsOf
  <2> QED BY <1>1, <2>1, EventsOfTrace DEF CursorInv
<1>6. CursorInv(closure.since, closure.epoch)'
  BY <1>1, <1>3 DEF PollerInv
<1>7. \A l \in Loops : PollInv(polls[l])'
  BY <1>1, <1>4 DEF PollerInv
<1>8. loads' \in Nat /\ late' \in BOOLEAN /\ run' \in Runs \cup {NoRun}
  <2>1. loads' \in Nat
    BY <1>1
  <2>2. late' \in BOOLEAN
    BY <1>1
  <2>3. run' \in Runs \cup {NoRun}
    BY <1>1
  <2> QED BY <2>1, <2>2, <2>3
<1> QED BY <1>1, <1>2, <1>5, <1>6, <1>7, <1>8 DEF PollerInv

\* The steps that leave trace and page alone.
LEMMA PageStays ==
  ASSUME PollerInv, UNCHANGED <<trace, page>>
  PROVE  /\ FeedInv' /\ CursorInv(since, loads)'
         /\ loads' \in Nat /\ late' \in BOOLEAN /\ run' \in Runs \cup {NoRun}
         /\ \A c, epoch : CursorInv(c, epoch)' = CursorInv(c, epoch)
         /\ \A p : PollInv(p)' = PollInv(p)
<1>1. UNCHANGED <<trace, run, since, shown, loads, late>>
  BY DEF page
<1>2. \A c, epoch : CursorInv(c, epoch)' = CursorInv(c, epoch)
  BY <1>1 DEF CursorInv, Covered, EventsOf, InFeed
<1>3. \A p : PollInv(p)' = PollInv(p)
  BY <1>1, <1>2 DEF PollInv, ReplyInv, EventsOf
<1>4. FeedInv'
  BY <1>1 DEF PollerInv, FeedInv, EventsOf
<1>5. CursorInv(since, loads)'
  BY <1>1, <1>2 DEF PollerInv
<1> QED BY <1>1, <1>2, <1>3, <1>4, <1>5 DEF PollerInv

LEMMA RenderKeeps ==
  ASSUME PollerInv, Render
  PROVE  PollerInv'
<1>1. /\ UNCHANGED <<trace, page>> /\ polls' = polls
      /\ closure' = [run |-> run, since |-> since, epoch |-> loads]
  BY DEF Render
<1>2. CursorInv(closure.since, closure.epoch)' /\ since \in Nat /\ loads \in Nat
  <2>1. CursorInv(since, loads)
    BY DEF PollerInv
  <2> QED BY <1>1, <2>1, PageStays DEF CursorInv
<1>3. closure' \in [run : Runs \cup {NoRun}, since : Nat, epoch : Nat]
  BY <1>1, <1>2 DEF PollerInv
<1>4. \A l \in Loops : PollInv(polls[l])'
  BY <1>1, PageStays DEF PollerInv
<1> QED BY <1>1, <1>2, <1>3, <1>4, PageStays DEF PollerInv

\* A step of one loop that leaves trace and page alone.
LEMMA LoopKeeps ==
  ASSUME PollerInv, UNCHANGED <<trace, page, closure>>, NEW l \in Loops,
         NEW p \in Poll, polls' = [polls EXCEPT ![l] = p], PollInv(p)
  PROVE  PollerInv'
<1>1. polls' \in [Loops -> Poll] /\ \A k \in Loops : polls'[k] = p \/ polls'[k] = polls[k]
  BY DEF PollerInv
<1>2. \A k \in Loops : PollInv(polls[k])'
  BY <1>1, PageStays DEF PollerInv
<1>3. CursorInv(closure.since, closure.epoch)' /\ closure' = closure
  BY PageStays DEF PollerInv
<1> QED BY <1>1, <1>2, <1>3, PageStays DEF PollerInv

LEMMA TickKeeps ==
  ASSUME PollerInv, Tick
  PROVE  PollerInv'
<1> DEFINE p == Request(closure)
<1>1. polls' = [polls EXCEPT !["loop"] = p] /\ UNCHANGED <<trace, page, closure>>
      /\ "loop" \in Loops
  BY DEF Tick, Loops
<1>2. /\ p \in Poll /\ p.reply = {} /\ p.since = closure.since /\ p.epoch = closure.epoch
  BY DEF Request, Poll, PollerInv
<1>3. PollInv(p)
  BY <1>2 DEF PollerInv, PollInv, ReplyInv
<1> HIDE DEF p
<1> QED BY <1>1, <1>2, <1>3, LoopKeeps

Answered(q, reply) == [q EXCEPT !.stage = "answered", !.reply = reply]

LEMMA AnsweredPoll ==
  ASSUME NEW q \in Poll, NEW reply
  PROVE  Answered(q, reply) = [stage |-> "answered", run |-> q.run, since |-> q.since,
                               epoch |-> q.epoch, reply |-> reply]
<1> DEFINE a == Answered(q, reply)
           p == [stage |-> "answered", run |-> q.run, since |-> q.since,
                 epoch |-> q.epoch, reply |-> reply]
           F == {"stage", "run", "since", "epoch", "reply"}
<1>1. DOMAIN q = F
  BY DEF Poll
<1>2. a = [f \in F |-> a[f]] /\ p = [f \in F |-> p[f]]
  BY <1>1 DEF Answered
<1>3. /\ a.stage = p.stage /\ a.run = p.run /\ a.since = p.since /\ a.epoch = p.epoch
      /\ a.reply = p.reply
  BY <1>1 DEF Answered
<1> HIDE DEF a, p
<1>4. a = p
  BY <1>2, <1>3
<1> QED BY <1>4 DEF a, p

LEMMA AnswerKeeps ==
  ASSUME PollerInv, NEW l \in Loops, Answer(l)
  PROVE  PollerInv'
<1> DEFINE q == polls[l]
           reply == {i \in EventsOf(q.run) : i > q.since}
           p == [stage |-> "answered", run |-> q.run, since |-> q.since,
                 epoch |-> q.epoch, reply |-> reply]
<1>1. q \in Poll /\ PollInv(q) /\ trace \in Seq(Runs) /\ q.stage = "asked"
      /\ DOMAIN polls = Loops
  BY DEF PollerInv, FeedInv, Answer
<1>2. reply \subseteq Nat
  BY <1>1, EventsOfTrace
<1>3. p \in Poll
  BY <1>1, <1>2 DEF Poll
<1>4. PollInv(p)
  BY <1>1 DEF PollInv, ReplyInv
<1>5. polls' = [polls EXCEPT ![l] = p] /\ UNCHANGED <<trace, page, closure>>
  <2>1. polls' = [polls EXCEPT ![l] = Answered(q, reply)]
    BY <1>1 DEF Answer, Answered
  <2>2. Answered(q, reply) = p
    BY <1>1, AnsweredPoll
  <2> QED BY <2>1, <2>2 DEF Answer
<1> HIDE DEF p
<1> QED BY <1>3, <1>4, <1>5, LoopKeeps

LEMMA FailKeeps ==
  ASSUME PollerInv, NEW l \in Loops, Fail(l)
  PROVE  PollerInv'
BY LoopKeeps, IdleHolds DEF Fail

\* The merge appends what is new, once.
LEMMA MergeKeeps ==
  ASSUME FeedInv, NEW reply, reply \subseteq EventsOf(run), NEW feed \in Merged(reply)
  PROVE  /\ feed \in Seq(Nat)
         /\ {feed[k] : k \in DOMAIN feed} = InFeed \cup reply
         /\ \A k \in DOMAIN feed : feed[k] \in EventsOf(run)
         /\ \A k, l \in DOMAIN feed : k # l => feed[k] # feed[l]
<1> DEFINE new == reply \ InFeed
           c   == Cardinality(new)
           n   == Len(shown)
<1>1. PICK order \in InIdOrder(new) : feed = shown \o order
  BY DEF Merged
<1>2. c \in Nat /\ new \subseteq Nat /\ IsFiniteSet(new)
  <2>1. new \subseteq 1 .. Len(trace) /\ Len(trace) \in Nat
    BY EventsOfTrace DEF FeedInv
  <2>2. IsFiniteSet(1 .. Len(trace))
    BY <2>1, FS_Interval
  <2> QED BY <2>1, <2>2, FS_Subset, FS_CardinalityType
<1>3. order \in [1 .. c -> new] /\ \A k, l \in 1 .. c : k < l => order[k] < order[l]
  BY DEF InIdOrder
<1> HIDE DEF c, new, n
<1>4. \A k, l \in 1 .. c : k # l => order[k] # order[l]
  <2> SUFFICES ASSUME NEW k \in 1 .. c, NEW l \in 1 .. c, k # l, order[k] = order[l]
               PROVE  FALSE
    OBVIOUS
  <2>1. order[k] \in Nat
    BY <1>2, <1>3
  <2>2. k < l \/ l < k
    BY <1>2
  <2>3. order[k] < order[k]
    BY <1>3, <2>2
  <2> QED BY <2>1, <2>3
<1>5. \A x \in new : \E k \in 1 .. c : order[k] = x
  <2>1. order \in Injection(1 .. c, new)
    BY <1>3, <1>4 DEF Injection, IsInjective
  <2>2. Cardinality(1 .. c) = c
    BY <1>2, FS_Interval
  <2>3. order \in Surjection(1 .. c, new)
    BY <1>2, <2>1, <2>2, FS_Injection DEF c
  <2> QED BY <2>3 DEF Surjection
<1>6. order \in Seq(Nat) /\ Len(order) = c
  <2>1. order \in [1 .. c -> Nat]
    BY <1>2, <1>3
  <2>2. order \in Seq(Nat)
    BY <1>2, <2>1
  <2>3. DOMAIN order = 1 .. c
    BY <2>1
  <2>4. Len(order) = c
    BY <1>2, <2>2, <2>3
  <2> QED BY <2>2, <2>4
<1>7. n \in Nat /\ DOMAIN shown = 1 .. n /\ shown \in Seq(Nat)
  BY DEF FeedInv, n
<1>8. /\ feed \in Seq(Nat) /\ DOMAIN feed = 1 .. (n + c)
      /\ \A k \in 1 .. n : feed[k] = shown[k]
      /\ \A k \in 1 .. c : feed[n + k] = order[k]
  <2>1. feed = shown \o order /\ Len(shown) = n
    BY <1>1 DEF n
  <2>2. feed \in Seq(Nat) /\ Len(feed) = n + c
    <3>1. /\ shown \o order \in Seq(Nat)
          /\ Len(shown \o order) = Len(shown) + Len(order)
      BY <1>6, <1>7, ConcatProperties
    <3> QED BY <1>6, <2>1, <3>1
  <2>3. DOMAIN feed = 1 .. (n + c)
    BY <2>2
  <2>4. \A k \in 1 .. n : feed[k] = shown[k]
    BY <1>6, <1>7, <1>2, <2>1
  <2>5. \A k \in 1 .. c : feed[n + k] = order[k]
    BY <1>6, <1>7, <1>2, <2>1
  <2> QED BY <2>2, <2>3, <2>4, <2>5
<1>9. \A k \in DOMAIN feed : \/ k \in 1 .. n
                             \/ k - n \in 1 .. c /\ k = n + (k - n)
  BY <1>2, <1>7, <1>8
<1>10. \A k \in DOMAIN feed : \/ k \in 1 .. n /\ feed[k] = shown[k] /\ feed[k] \in InFeed
                              \/ /\ k - n \in 1 .. c /\ feed[k] = order[k - n]
                                 /\ feed[k] \in new
  <2> SUFFICES ASSUME NEW k \in DOMAIN feed
               PROVE  \/ k \in 1 .. n /\ feed[k] = shown[k] /\ feed[k] \in InFeed
                      \/ /\ k - n \in 1 .. c /\ feed[k] = order[k - n]
                         /\ feed[k] \in new
    OBVIOUS
  <2>1. CASE k \in 1 .. n
    BY <1>7, <1>8, <2>1 DEF InFeed
  <2>2. CASE k - n \in 1 .. c /\ k = n + (k - n)
    <3>1. feed[k] = order[k - n]
      BY <1>8, <2>2
    <3> QED BY <1>3, <2>2, <3>1
  <2> QED BY <1>9, <2>1, <2>2
<1>11. \A k, l \in DOMAIN feed : k # l => feed[k] # feed[l]
  <2> SUFFICES ASSUME NEW k \in DOMAIN feed, NEW l \in DOMAIN feed, k # l,
                      feed[k] = feed[l]
               PROVE  FALSE
    OBVIOUS
  <2>1. new \cap InFeed = {}
    BY DEF new
  <2>2. CASE k \in 1 .. n /\ l \in 1 .. n
    BY <1>7, <1>8, <2>2 DEF FeedInv
  <2>3. CASE k - n \in 1 .. c /\ l - n \in 1 .. c
    <3>1. k - n # l - n
      BY <1>2, <1>7, <1>8
    <3>2. feed[k] = order[k - n] /\ feed[l] = order[l - n]
      BY <1>9, <1>8, <1>2, <1>7, <2>3
    <3> QED BY <1>4, <2>3, <3>1, <3>2
  <2> QED BY <1>10, <2>1, <2>2, <2>3
<1>12. {feed[k] : k \in DOMAIN feed} = InFeed \cup reply
  <2>1. \A x \in InFeed : \E k \in DOMAIN feed : feed[k] = x
    BY <1>2, <1>7, <1>8 DEF InFeed
  <2>2. \A x \in new : \E k \in DOMAIN feed : feed[k] = x
    <3> SUFFICES ASSUME NEW x \in new PROVE \E k \in DOMAIN feed : feed[k] = x
      OBVIOUS
    <3>1. PICK k \in 1 .. c : order[k] = x
      BY <1>5
    <3>2. n + k \in DOMAIN feed /\ feed[n + k] = x
      BY <1>2, <1>7, <1>8, <3>1
    <3> QED BY <3>2
  <2>3. \A k \in DOMAIN feed : feed[k] \in InFeed \cup new
    BY <1>10
  <2>4. InFeed \cup new = InFeed \cup reply
    BY DEF new
  <2> QED BY <2>1, <2>2, <2>3, <2>4
<1>13. \A k \in DOMAIN feed : feed[k] \in EventsOf(run)
  <2>1. InFeed \subseteq EventsOf(run)
    BY DEF FeedInv, InFeed
  <2> QED BY <1>10, <2>1 DEF new
<1> QED BY <1>8, <1>11, <1>12, <1>13

LEMMA ApplyKeeps ==
  ASSUME PollerInv, NEW l \in Loops, Apply(l)
  PROVE  PollerInv'
<1> DEFINE p == polls[l]
<1>1. /\ p \in Poll /\ ReplyInv(p) /\ CursorInv(p.since, p.epoch) /\ p.stage = "answered"
      /\ trace \in Seq(Runs) /\ FeedInv
      /\ polls' = [polls EXCEPT ![l] = Idle] /\ UNCHANGED <<trace, run, loads, closure>>
  BY DEF PollerInv, PollInv, FeedInv, Apply
<1>2. CASE ~ (ForThisRun(p) /\ p.reply # {})
  <2>1. UNCHANGED <<trace, page, closure>>
    BY <1>2 DEF Apply, page
  <2> QED BY <1>1, <2>1, IdleHolds, LoopKeeps
<1>3. CASE ForThisRun(p) /\ p.reply # {}
  <2>1. /\ shown' \in Merged(p.reply) /\ since' = MaxSeq(p.reply) /\ p.run = run
        /\ late' = (late \/ p.epoch # loads)
    BY <1>3 DEF Apply, ForThisRun
  <2>2. p.reply \subseteq EventsOf(run) /\ p.reply \subseteq 1 .. Len(trace)
        /\ Len(trace) \in Nat
    BY <1>1, <2>1, EventsOfTrace DEF ReplyInv
  <2>3. FeedInv' /\ InFeed' = InFeed \cup p.reply
    <3>1. EventsOf(run)' = EventsOf(run)
      BY <1>1 DEF EventsOf
    <3> QED BY <1>1, <2>1, <2>2, <3>1, MergeKeeps DEF FeedInv, InFeed
  <2>4. MaxSeq(p.reply) \in p.reply /\ \A j \in p.reply : j <= MaxSeq(p.reply)
    BY <1>3, <2>2, LastOfReply
  <2>5. SameLoad /\ late \in BOOLEAN /\ late' \in BOOLEAN
    BY <1>1, <2>1, <2>3 DEF SameLoad, TraceGrows, PollerInv
  <2>6. \A c, epoch : CursorInv(c, epoch) => CursorInv(c, epoch)'
    BY <1>1, <2>5, CursorStays
  <2>7. \A q : PollInv(q) => PollInv(q)'
    BY <1>1, <2>5, PollStays
  <2>8. ASSUME ~late' PROVE Covered(since)'
    <3>1. ~late /\ p.epoch = loads
      BY <2>1, <2>5, <2>8
    <3>2. Covered(p.since) /\ p.since \in Nat
      BY <1>1, <3>1 DEF CursorInv
    <3> SUFFICES ASSUME NEW i \in EventsOf(run), i <= since' PROVE i \in InFeed'
      BY <1>1 DEF Covered, EventsOf
    <3>3. i \in Nat
      BY <1>1, EventsOfTrace
    <3>4. CASE i <= p.since
      BY <2>3, <3>2, <3>4 DEF Covered
    <3>5. CASE i > p.since
      BY <1>1, <2>1, <2>3, <2>4, <3>5 DEF ReplyInv
    <3> QED BY <3>2, <3>3, <3>4, <3>5
  <2>9. CursorInv(since, loads)'
    BY <1>1, <2>1, <2>2, <2>4, <2>8 DEF CursorInv, PollerInv
  <2>10. CursorInv(closure.since, closure.epoch)'
    BY <1>1, <2>6 DEF PollerInv
  <2>11. polls' \in [Loops -> Poll] /\ \A k \in Loops : polls'[k] = Idle \/ polls'[k] = polls[k]
    BY <1>1, IdleHolds DEF PollerInv
  <2>12. \A k \in Loops : PollInv(polls[k])'
    BY <2>7, <2>11, IdleHoldsNext DEF PollerInv
  <2> QED BY <1>1, <2>3, <2>5, <2>9, <2>10, <2>11, <2>12 DEF PollerInv
<1> QED BY <1>2, <1>3

LEMMA PollerInvAlways == Spec => []PollerInv
<1>1. PollerInv /\ [Next]_vars => PollerInv'
  <2> SUFFICES ASSUME PollerInv, [Next]_vars PROVE PollerInv'
    OBVIOUS
  <2>1. CASE UNCHANGED vars
    <3>1. UNCHANGED <<trace, page, closure, polls>>
      BY <2>1 DEF vars, page
    <3>2. /\ \A l \in Loops : PollInv(polls[l])'
          /\ CursorInv(closure.since, closure.epoch)'
      BY <3>1, PageStays DEF PollerInv
    <3> QED BY <3>1, <3>2, PageStays DEF PollerInv
  <2> QED BY <2>1, RenderKeeps, TickKeeps, EmitKeeps, LoadKeeps, AnswerKeeps, ApplyKeeps,
             FailKeeps DEF Next
<1> QED BY <1>1, InitHolds, PTL DEF Spec

\* Whatever overlaps and arrives late: the feed has events of one run only, each once.
THEOREM FeedHasOneRun == Spec => []FeedIsSound
<1>1. PollerInv => FeedIsSound
  <2> SUFFICES ASSUME FeedInv PROVE FeedIsSound
    BY DEF PollerInv
  <2>1. \A i \in InFeed : trace[i] = run
    BY DEF FeedInv, InFeed, EventsOf
  <2> DEFINE n == Len(shown)
  <2>2. n \in Nat /\ shown \in [1 .. n -> InFeed]
    BY DEF FeedInv, InFeed
  <2>3. shown \in Bijection(1 .. n, InFeed)
    <3>1. shown \in Injection(1 .. n, InFeed)
      BY <2>2 DEF FeedInv, Injection, IsInjective
    <3>2. shown \in Surjection(1 .. n, InFeed)
      BY <2>2 DEF InFeed, Surjection
    <3> QED BY <3>1, <3>2 DEF Bijection
  <2>4. IsFiniteSet(1 .. n) /\ Cardinality(1 .. n) = n
    BY <2>2, FS_Interval
  <2>5. Cardinality(InFeed) = n
    BY <2>3, <2>4, FS_Bijection DEF ExistsBijection
  <2> QED BY <2>1, <2>5 DEF FeedIsSound
<1> QED BY <1>1, PollerInvAlways, PTL

\* Overlapping polls, lost and reordered answers and switches between runs leave no
\* gap: only an answer that was asked for before the page was loaded anew does.
THEOREM OnlyLateAnswersSkip == Spec => []SkippedOnlyByLateAnswer
<1>1. PollerInv => SkippedOnlyByLateAnswer
  BY DEF PollerInv, CursorInv, Covered, SkippedOnlyByLateAnswer, NothingSkipped
<1> QED BY <1>1, PollerInvAlways, PTL
=============================================================================
