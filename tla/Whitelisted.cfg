SPECIFICATION Spec
CONSTANTS
  self = self
  other = other
  Self = self
  Threads <- MCThreads
  Domains <- MCDomains
  Denying = {"look"}
  TTL = 1
  MaxTime = 1
  Padded <- MCPadded
  Unit = 2
  TierEngines = {"tavily", "duckduckgo", "searxng"}
  Unbound = {"searxng"}
  Lines = {"base", "s1"}
  QueryCap = 2
  Base = "base"
  Results <- MCResults
  Lands <- MCLands
  Cached = {"plans"}
  Tasks = 1
  Rounds = 1
  FetchBudget = 2
  TopK = 3
  CacheFirst = FALSE
  Rendering = TRUE
PROPERTY FailOpenIsBrief
