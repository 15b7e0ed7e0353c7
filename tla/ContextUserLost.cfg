SPECIFICATION ContextSpec
CONSTANTS
  AnyStore = FALSE
  Records = {"r1"}
  Events = {1, 2}
  SourceLists <- ListsHere
  MaxCommits = 1
  Memory = {1, 2, 3}
  Wordings <- WordingsHere
  Sessions = {"s1", "s2"}
  MaxTableRows = 4
  Texts = {x}
  Calls = {c1}
  Budgets = {0, 12, 24}
  Reach = 2
  MaxMessages = 4
  Tasks = {a}
  SegmentSize = 2
  MaxSegments = 2
  MaxItems = 2
  MaxClosed = 2
  MaxThreads = 2
  MaxTurnsSaid = 4
  Claims = {1, 2}
  Modes = {"daily", "work"}
  Bodies = {"x", "y"}
  BodySize <- SizeHere
  LayerBudget = 2
  SearchLimit = 2
  MaxChanges = 3
INVARIANT LatestUserStays
CHECK_DEADLOCK FALSE
