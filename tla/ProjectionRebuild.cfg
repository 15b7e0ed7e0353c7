SPECIFICATION ProjSpec
CONSTANTS
  p1 = p1
  p2 = p2
  rootA = rootA
  rootB = rootB
  c1 = c1
  x = x
  y = y
  k1 = k1
  k2 = k2
  r1 = r1
  Claims <- MCClaims
  Contents <- MCContents
  IdemKeys <- MCIdemKeys
  UserEvents <- MCUserEvents
  EventInfo <- MCEventInfo
  LegacyRecords <- MCLegacyRecords
  LegacyInfo <- MCLegacyInfo
  WriteRequests <- MCNone
  ReplaceRequests <- MCNone
  LifecycleRequests <- MCLifecycleRequests
  PromotionBatches <- MCPromotionBatches
  Procs <- MCTwo
  WorkerOf <- MCWorkerOf
  Roots <- MCRoots
  RootOf <- MCRootOf
  Workers = {"memory-projection-drain"}
  MaxAttempts = 2
  MaxJobs = 2
  MaxCrashes = 0
  MaxStalls = 0
  MaxIOErrors = 1
  MaxRebuilds = 1
INVARIANTS
  WritesApproved
PROPERTIES
  RebuildOkExact
