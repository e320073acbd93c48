----------------------------- MODULE MCCollection -----------------------------
(* One task over two rounds at a budget of two fetches, with two engines and *)
(* an expansion of the query.  A vendor has more pages than may be kept; its *)
(* look-alike is found by both engines or by one and denies robots, and a    *)
(* page of the vendor redirects to it.                                       *)
EXTENDS Collection

CONSTANTS self, other

MCThreads == {self, other}
MCDomains == {"vendor", "look"}
MCLands   == [vendor |-> "vendor", docs |-> "vendor", plans |-> "look", look |-> "look"]

MCPadded(a, b) == a = "vendorr" /\ b = "vendor"

Preview(u, s, d, a, e) == [url |-> u, site |-> s, domain |-> d, authority |-> a,
                           relevance |-> 6, snippet |-> TRUE, engine |-> e]
Vendor(e) == Preview("vendor", "vendor", "vendor", 8, e)
Docs(e)   == Preview("docs", "vendor", "vendor", 6, e)
Plans(e)  == [Preview("plans", "vendor", "vendor", 8, e) EXCEPT !.snippet = FALSE]
Look(e)   == Preview("look", "look", "vendorr", 6, e)

MCResults ==
  [job \in {"base", "s1"} \X {"tavily", "duckduckgo"} |->
     CASE job = <<"base", "tavily">>     -> <<Docs("tavily"), Vendor("tavily"), Plans("tavily")>>
       [] job = <<"base", "duckduckgo">> -> <<Look("duckduckgo")>>
       [] job = <<"s1", "tavily">>       -> <<Look("tavily")>>
       [] OTHER                          -> <<Docs("duckduckgo")>>]
=============================================================================
