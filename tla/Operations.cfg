SPECIFICATION OperationsSpec
CONSTANTS
  Procs = {p1, p2, p3}
  Receipts = {rcpt}
  MaxFaults = 1
  NoPid = NoPid
  NoReceipt = NoReceipt
  Backups = {b1, b2}
  MaxChanges = 2
  Dbs = {d1, d2}
  Paths = {r1, r2}
  MaxInstalls = 2
  MaxEdits = 2
  NoDb = NoDb
  MaxWrites = 2
  MaxBreaks = 2
  Cases = {"k1", "k2"}
  MaxSteps = 2
  Budget = 11
SYMMETRY Symmetry
INVARIANTS UpdateSafe DeploySafe RestoreSafe GateSafe
 
CHECK_DEADLOCK FALSE
