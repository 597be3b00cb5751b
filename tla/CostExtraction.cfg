SPECIFICATION FairSpec
CONSTANTS
  p1 = p1
  p2 = p2
  r1 = r1
  r2 = r2
  i1 = i1
  i2 = i2
  NoRecord = NoRecord
  Procs = {p1, p2}
  Deployments <- TwoProcesses
  Rows = {r1, r2}
  Ids = {i1, i2}
  IdOf <- MCIdOf
  ScopeOf <- MCScopeOf
  NScopes = 2
  Quality <- MCQuality
  BatchSize = 1
  MaxBill = 1
  MaxFaults = 1
INVARIANTS
  TypeOK
  SuccessIsComplete
  ExitZeroIsComplete
  CountIsHonest
PROPERTIES
  RefinesCostLedger
  RerunRecovers
