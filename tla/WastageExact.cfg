SPECIFICATION FairSpec
CONSTANTS
  f1 = f1
  a1 = a1
  Findings <- OneFinding
  Accounts <- OneAccount
  AccountOf <- OwnerA1
  Threshold = 2
  MaxScans = 5
  Overlap = FALSE
  Faults <- OnlyPartial
INVARIANT OpenIsRecent
PROPERTY ScanEnds
