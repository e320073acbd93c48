SPECIFICATION Spec
CONSTANTS
  NumTasks = 2
  Cap = 1
  MaxCorrections = 1
INVARIANT RejectionStands
\* A run ends and the reviewers stop.
CHECK_DEADLOCK FALSE
