-------------------------------- MODULE Ranking --------------------------------
(***************************************************************************)
(* collector/dedupe.py: dedupe_and_rank.  A preview is a record with the   *)
(* url (normalised), its registrable domain, the numeric authority weight  *)
(* of its source type, the relevance bonus that its text earns for the     *)
(* query, the engine that returned it and whether it has a snippet.  The   *)
(* previews are a sequence in the order in which the engines answered.     *)
(***************************************************************************)
EXTENDS Integers, Sequences, FiniteSets

CONSTANTS Padded(_, _), \* label a is longer than b, and within edit distance 2
          Unit          \* weights are floats: what 1.0 is in the model's integers

ASSUME RankingAssumption == Unit \in Nat \ {0}

IndependenceBonus == Unit
SpamPenalty       == 5 * Unit

\* Step 1, without the normalised url: every preview is kept.
FirstPerEngine(s) ==
  {i \in DOMAIN s : \A j \in 1..(i - 1) : s[j].url # s[i].url \/ s[j].engine # s[i].engine}

\* Step 1: the first preview of each url stands for it.
First(s) == {i \in DOMAIN s : \A j \in 1..(i - 1) : s[j].url # s[i].url}

\* How many engines found it.
Agreement(s, i) == Cardinality({s[j].engine : j \in {k \in DOMAIN s : s[k].url = s[i].url}})

\* Steps 2 and 3: only the first url of a domain is independent of the others.
Independence(s, i) ==
  IF \E j \in First(s) : j < i /\ s[j].domain = s[i].domain THEN 0 ELSE IndependenceBonus

Composite(s, i) ==
  s[i].authority + Independence(s, i) + Unit * Agreement(s, i) + s[i].relevance

\* Step 4, comparing what the engines' votes went into.
SquatsByQuality(s, i) ==
  \E j \in First(s) : /\ Padded(s[i].domain, s[j].domain)
                      /\ Composite(s, j) > Composite(s, i)

\* Step 4: a longer look-alike of a domain that has more authority.
Squats(s, i) ==
  \E j \in First(s) : /\ Padded(s[i].domain, s[j].domain)
                      /\ s[j].authority > s[i].authority

Quality(s, i) == Composite(s, i) - (IF Squats(s, i) THEN SpamPenalty ELSE 0)

Qualities(s) == [i \in First(s) |-> Quality(s, i)]

\* Quality descending; ties keep the order of arrival.
Better(q, i, j) == \/ q[i] > q[j]
                   \/ q[i] = q[j] /\ i < j

\* Step 6: the best of each domain.
WithinCap(s, q, cap) ==
  {i \in First(s) :
     Cardinality({j \in First(s) : s[j].domain = s[i].domain /\ Better(q, j, i)}) < cap}

\* Step 7: the positions that are left, best first: one order, as no two tie.
Orders(s, q, cap) ==
  LET kept == WithinCap(s, q, cap)
  IN  {order \in [1 .. Cardinality(kept) -> kept] :
         \A k, l \in DOMAIN order : k < l => Better(q, order[k], order[l])}

Top(order, topK) == {k \in DOMAIN order : k <= topK}

\* The previews that are returned, as the only member of a set; q is Qualities(s).
DedupeAndRank(s, q, topK, cap) ==
  {[k \in Top(order, topK) |-> s[order[k]]] : order \in Orders(s, q, cap)}
=============================================================================
