SPECIFICATION FairSpec
CONSTANTS
  Page <- MCPage
  Exempt = {"usd"}
  Replies <- MCReplies
  Seeds = {"survey"}
  Found <- MCFound
  Cap = 1
  BudgetMax = 40
INVARIANT PublishedIsGrounded
INVARIANT StrongIsEarned
INVARIANT ListNeverPublished
PROPERTY RunEnds
CHECK_DEADLOCK FALSE
