SPECIFICATION FairSpec
CONSTANTS
  r1 = r1
  r2 = r2
  NoRun = NoRun
  Runs <- MCRuns
  Faults <- NoFaults
  PoolMax = 7
PROPERTIES
  ExitIsReported
  ShutdownTerminates
