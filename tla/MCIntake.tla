------------------------------- MODULE MCIntake -------------------------------
(* Three products, two of them found by their own site and one only by a list. *)
(* Requests: a directed one with a brand that has no fixture and then one      *)
(* brand spelled twice, discovery with two seeds and room for one, discovery   *)
(* with a seed and room for two.                                               *)
EXTENDS Intake

MCName(b, s) == [brand |-> b, spelling |-> s]
MCRequests ==
  {[directed |-> <<MCName("listed", "a"), MCName("own", "a"), MCName("own", "b")>>,
    seeds |-> <<>>, cap |-> 1],
   [directed |-> <<>>, seeds |-> <<MCName("noted", "a"), MCName("listed", "b")>>, cap |-> 1],
   [directed |-> <<>>, seeds |-> <<MCName("noted", "b")>>, cap |-> 2]}

Page(from, at, head, says) == [from |-> from, at |-> at, head |-> head, says |-> says]
MCPages ==
  {Page("own.com", "own", "own", {"own"}),
   Page("blog.com", "none", "listed", {"listed"}),
   Page("g2.com", "none", "noted", {"listed", "noted"})}

MCShorter(a, b) == <<a, b>> \in {<<"listed", "own">>, <<"listed", "noted">>, <<"noted", "own">>}

MCFixture == [own |-> <<<<"survey", "price">>, <<"interview", "persona">>>>,
              listed |-> <<>>, noted |-> <<<<"survey", "price">>>>]
MCFields == <<"price">>
=============================================================================
