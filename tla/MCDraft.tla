------------------------------- MODULE MCDraft -------------------------------
(* A vendor with two pages, a review site and a simulated survey; one fact    *)
(* that all of them but the blog state, one that only blog and review state,  *)
(* one that nobody states and one that no rule looks for.                     *)
EXTENDS Draft

MCPage ==
  [site   |-> [domain |-> "vendor", official |-> TRUE,  simulated |-> FALSE, says |-> {"price"}],
   blog   |-> [domain |-> "vendor", official |-> TRUE,  simulated |-> FALSE, says |-> {"seats"}],
   review |-> [domain |-> "review", official |-> FALSE, simulated |-> FALSE, says |-> {"price", "seats"}],
   survey |-> [domain |-> "survey", official |-> TRUE,  simulated |-> TRUE,  says |-> {"price"}]]

Answer(shape, required, optional, refs, support, against, quote) ==
  [shape |-> shape, kind |-> "fact", required |-> required, optional |-> optional, refs |-> refs,
   for |-> support, against |-> against, quote |-> quote, basedOn |-> {}]

Plain ==
  {Answer("object", required, optional, refs, support, against, quote) :
     required \in {{"price"}, {"rumour", "usd"}},
     optional \in {{"rumour", "seats"}},
     refs     \in {{}, {"site"}, {"site", "blog"}, {"site", "review"}, {"site", "survey"}},
     support  \in {{}, {"site"}},
     against  \in {{}, {"review"}},
     quote    \in {{}, {[page |-> p, fact |-> "price"] : p \in {"site", "blog"}}}}

Inference == [Answer("object", {"price"}, {}, {"review"}, {}, {}, {})
                EXCEPT !.kind = "inference", !.basedOn = {"invented"}]
List      == Answer("list", {"price"}, {}, {}, {}, {}, {})
Defective == {Answer(shape, {"price"}, {}, {"site"}, {}, {}, {}) :
                shape \in {"null_field", "array_value"}}
Gap       == Answer("object", {}, {"usd"}, {"site"}, {}, {}, {})
Void      == [shape |-> "void"]
Broken    == [shape |-> "broken"]

Reply(thought, closed, body) == [thought |-> thought, closed |-> closed, body |-> body]

MCReplies ==
     {Reply(<<>>, TRUE, <<a>>) : a \in Plain \cup Defective \cup {Inference, Gap, Void, Broken}}
  \cup {Reply(<<List>>, closed, <<Gap>>) : closed \in BOOLEAN}
  \cup {Reply(<<Gap>>, TRUE, <<>>)}

MCFound == {{}, {"site", "blog"}, {"site", "review"}}
=============================================================================
