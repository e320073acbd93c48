SPECIFICATION Spec
CONSTANTS
  r1 = r1
  r2 = r2
  NoRun = NoRun
  Runs <- MCRuns
  MaxEvents = 4
  MaxLoads = 2
  StrictMode = TRUE
INVARIANT FeedIsSound
INVARIANT SkippedOnlyByLateAnswer
PROPERTY FeedCompletes
