SPECIFICATION FairSpec
CONSTANTS
  Workers = 2
  Elsewhere = Elsewhere
  Slack = 2
  Brands = {"own", "listed", "noted"}
  NoBrand = "none"
  Spellings = {"a", "b", "title"}
  Requests <- MCRequests
  Pages <- MCPages
  Noise = {"g2.com"}
  Shorter <- MCShorter
  Queries = 2
  Fixture <- MCFixture
  Fields <- MCFields
  Intervals = {0, 2}
  Responses = 2
\* The intake of a run ends.
CHECK_DEADLOCK FALSE
INVARIANT SelectionIsSound
INVARIANT ListAgrees
INVARIANT EntriesStand
INVARIANT LaneCutOnlyByFailure
INVARIANT ImportIsAudited
INVARIANT RateHeld
PROPERTY IntakeEnds
