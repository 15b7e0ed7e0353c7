SPECIFICATION PersonaSpec
CONSTANTS
  EnableActive = TRUE
  Sessions = {s1, s2}
  Spoken <- SpokenHere
  MaxTurns = 3
  MaxFailures = 1
  MaxModes = 1
  NoSession = NoSession
  Managers = {p1, p2}
  Events = {e1, e2}
  MaxTime = 3
  MaxLost = 1
  Threads = {t1, t2, t3}
  Cooldown = 2
  MaxTicks = 4
  NoThread = NoThread
  HostSessions = {"s1", "s2"}
  Limit = 1
  Scan = 2
  MaxCalls = 3
  MaxHookFaults = 1
  Requests = {"t1", "t2"}
  Operators = {"a"}
  Orderly = TRUE
  MaxEdits = 1
  MaxRouterFaults = 1
  MaxPids = 4
INVARIANTS RoutingSafe TurnsSafe SharedSafe
CHECK_DEADLOCK FALSE
