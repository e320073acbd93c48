SPECIFICATION Spec
CONSTANTS
  Page <- MCPage
  Exempt = {"usd"}
  Replies <- MCReplies
  Seeds = {"survey"}
  Found <- MCFound
  Cap = 1
  BudgetMax = 40
INVARIANT DefectiveIsSkipped
CHECK_DEADLOCK FALSE
