SPECIFICATION Spec
CONSTANTS
  acme = acme
  pricing = pricing
  support = support
  NoClaim = NoClaim
  Competitors <- MCCompetitors
  Fields <- MCFields
  Codes <- MCCodes
  Caps = {0, 2, 3}
  BudgetMax = 6
  RecursionLimit = 18
INVARIANT TypeOK
INVARIANT SpendBound
INVARIANT BackstopUnreached
INVARIANT PublishedExactlyClean
INVARIANT GivesUpOnlyWhenSpent
PROPERTY Settles
PROPERTY Terminates
PROPERTY ImplementsContract
\* A run ends: nothing follows the end of the graph.
CHECK_DEADLOCK FALSE
