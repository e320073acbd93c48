--------------------------- MODULE MCTracePoller ---------------------------
(* TracePoller with two runs, in a development build: what StrictMode adds  *)
(* to a production build is the second poll.                                *)
EXTENDS TracePoller

CONSTANTS r1, r2

MCRuns == {r1, r2}
=============================================================================
