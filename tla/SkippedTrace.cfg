SPECIFICATION Spec
CONSTANTS
  r1 = r1
  r2 = r2
  NoRun = NoRun
  Runs <- MCRuns
  MaxEvents = 3
  MaxLoads = 2
  StrictMode = FALSE
INVARIANT NothingSkipped
