SPECIFICATION Spec
CONSTANTS
  NumTasks = 2
  Cap = 1
  MaxCorrections = 2
INVARIANT OneIdPerTask
INVARIANT CollisionsAreStaleWrites
INVARIANT PublishedClean
PROPERTY CorrectionShows
PROPERTY ImplementsRegister
\* A run ends and the reviewers stop.
CHECK_DEADLOCK FALSE
