SPECIFICATION Spec
CONSTANTS
  c1 = c1
  c2 = c2
  x = x
  y = y
  k1 = k1
  k2 = k2
  k3 = k3
  e1 = e1
  e2 = e2
  r1 = r1
  r2 = r2
  Workers = {"memory-projection-drain"}
  MaxAttempts = 5
  Claims <- MCClaims
  Contents <- MCContents
  IdemKeys <- MCIdemKeys
  UserEvents <- MCUserEvents
  EventInfo <- MCEventInfo
  LegacyRecords <- MCLegacyRecords
  LegacyInfo <- MCLegacyInfo
  WriteRequests <- MCWriteRequests
  ReplaceRequests <- MCReplaceRequests
  LifecycleRequests <- MCLifecycleRequests
  PromotionBatches <- MCPromotionBatches
INVARIANTS
  CurrentIsLogTip
  LogChains
  OnlyCurrentVersionLives
  TransitionWinsOnce
  SensitivityCoversSources
  OutboxCoversCurrent
  RepetitionsSafe
  HistoryInv
PROPERTIES
  FinalStatesAreFinal
CHECK_DEADLOCK FALSE
