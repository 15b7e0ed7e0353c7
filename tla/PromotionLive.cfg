SPECIFICATION PipelineLiveSpec
CONSTANTS
  c1 = c1
  x = x
  y = y
  m1 = m1
  m2 = m2
  r1 = r1
  r2 = r2
  f1 = f1
  u1 = u1
  u2 = u2
  Workers = {"memory-projection-drain"}
  MaxAttempts = 5
  Claims <- MCClaims
  Contents <- MCContents
  UserEvents = {m1, f1}
  IdemKeys = {m1, f1}
  EventInfo <- MCEventInfo
  CandidateInfo <- MCCandidateInfo
  LegacyRecords = {}
  LegacyInfo <- MCEmptyFunction
  WriteRequests <- MCWriteRequests
  ReplaceRequests <- MCReplaceRequests
  LifecycleRequests <- MCLifecycleRequests
  PromotionBatches = {}
  Syncs = {"host1", "host2"}
  Reviewers = {}
  ScopeOf <- MCScopeAll
  MaxCrashes = 1
  MaxGuards = 1
  MaxEdits = 1
PROPERTIES
  DecisionsAreFinal
  EverySaidDecided
