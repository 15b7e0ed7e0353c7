SPECIFICATION ProjSpec
CONSTANTS
  p1 = p1
  p2 = p2
  rootA = rootA
  rootB = rootB
  c1 = c1
  x = x
  y = y
  k1 = k1
  k2 = k2
  r1 = r1
  Claims <- MCClaims
  Contents <- MCContents
  IdemKeys <- MCIdemKeys
  UserEvents <- MCUserEvents
  EventInfo <- MCEventInfo
  LegacyRecords <- MCNone
  LegacyInfo <- MCNoInfo
  WriteRequests <- MCWriteRequests
  ReplaceRequests <- MCReplaceRequests
  LifecycleRequests <- MCExpireRequests
  PromotionBatches <- MCNone
  Procs <- MCTwo
  WorkerOf <- MCWorkerOf
  Roots <- MCTwoRoots
  RootOf <- MCTwoRootOf
  Workers = {"memory-projection-drain"}
  MaxAttempts = 2
  MaxJobs = 1
  MaxCrashes = 1
  MaxStalls = 0
  MaxIOErrors = 0
  MaxRebuilds = 0
INVARIANTS
  WriteSeesAuthority
  DrainsInv
PROPERTIES
  FtsImplementsView
