--------------------------- MODULE MCRunLifecycle ---------------------------
(* RunLifecycle with two runs, which start, fail and age independently.     *)
EXTENDS RunLifecycle

CONSTANTS r1, r2

MCRuns == {r1, r2}
=============================================================================
