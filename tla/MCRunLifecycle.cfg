SPECIFICATION Spec
CONSTANTS
  r1 = r1
  r2 = r2
  Runs <- MCRuns
  MaxRestarts = 2
INVARIANT LiveRunNotReaped
INVARIANT StatusMatchesEvent
PROPERTY SettledIsFinal
PROPERTY GraphAlwaysSettles
PROPERTY OldOrphanReaped
\* All runs may have ended, with no more restarts to come.
CHECK_DEADLOCK FALSE
