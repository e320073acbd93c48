--------------------------- MODULE MCRevisionLoop ---------------------------
(* RevisionLoop on one competitor and two fields; the cfg files choose the  *)
(* cap, the budget and the ceiling.                                         *)
EXTENDS RevisionLoop

CONSTANTS acme, pricing, support

MCCompetitors == {acme}
MCFields      == {pricing, support}

\* One check per way a draft can steer the loop: collect more, draft again,
\* and the one that is reported behind every other.
MCCodes == {"WEAK_EVIDENCE", "HALLUCINATED_SNIPPET", "CONTRADICTION"}
=============================================================================
