SPECIFICATION BriefSpec
CONSTANTS
  NumTasks = 2
  Cap = 1
  MaxCorrections = 1
  Unknown = unknown
INVARIANT StaleOnlyByReview
INVARIANT NotSilent
\* A run ends and the reviewers stop.
CHECK_DEADLOCK FALSE
