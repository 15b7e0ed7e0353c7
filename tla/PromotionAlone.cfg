SPECIFICATION AloneSpec
CONSTANTS
  c1 = c1
  x = x
  y = y
  m1 = m1
  m2 = m2
  r1 = r1
  r2 = r2
  f1 = f1
  u1 = u1
  u2 = u2
  Workers = {"memory-projection-drain"}
  MaxAttempts = 5
  Claims <- MCClaims
  Contents <- MCContents
  UserEvents = {m1, m2, r1, r2, f1}
  IdemKeys = {m1, m2, r1, r2, f1}
  EventInfo <- MCEventInfo
  CandidateInfo <- MCCandidateInfo
  LegacyRecords = {}
  LegacyInfo <- MCEmptyFunction
  WriteRequests <- MCWriteRequests
  ReplaceRequests <- MCReplaceRequests
  LifecycleRequests <- MCLifecycleRequests
  PromotionBatches = {}
  Syncs = {"host1"}
  Reviewers = {}
  ScopeOf <- MCScopeAll
  MaxCrashes = 2
  MaxGuards = 0
  MaxEdits = 1
  Sessions = {"m1", "m2"}
  Phrasings <- MCPhrasings
  Promoters = {"host1", "host2"}
  MaxSaid = 2
  MaxDeaths = 1
INVARIANTS
  RecoverySafe
  EvidenceSuffices
PROPERTIES
  EditedIsNoEvidence
