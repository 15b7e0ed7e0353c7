SPECIFICATION PipelineSpec
CONSTANTS
  c1 = c1
  x = x
  y = y
  m1 = m1
  m2 = m2
  r1 = r1
  r2 = r2
  f1 = f1
  u1 = u1
  u2 = u2
  Workers = {"memory-projection-drain"}
  MaxAttempts = 5
  Claims <- MCClaims
  Contents <- MCContents
  UserEvents = {r1, f1, u1, u2}
  IdemKeys = {r1, f1, u1, u2}
  EventInfo <- MCEventInfo
  CandidateInfo <- MCCandidateInfo
  LegacyRecords = {}
  LegacyInfo <- MCEmptyFunction
  WriteRequests <- MCWriteRequests
  ReplaceRequests <- MCReplaceRequests
  LifecycleRequests <- MCLifecycleRequests
  PromotionBatches = {}
  Syncs = {"host1"}
  Reviewers = {"ana"}
  ScopeOf <- MCScopeAll
  MaxCrashes = 1
  MaxGuards = 0
  MaxEdits = 0
INVARIANTS
  RetractedIsRetired
  UnreviewedStaysOut
