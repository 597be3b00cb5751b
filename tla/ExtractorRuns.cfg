SPECIFICATION Spec
CONSTANTS
  r1 = r1
  r2 = r2
  NoRun = NoRun
  Runs <- MCRuns
  Faults <- AllFaults
  PoolMax = 4
SYMMETRY RunSymmetry
INVARIANTS
  TypeOK
  SuccessMeansExitZero
  RunningIsOwned
  LiveChildIsTracked
  CancelledIsOver
PROPERTY RefinesLedger
