SPECIFICATION Spec
CONSTANTS
  f1 = f1
  a1 = a1
  Findings <- OneFinding
  Accounts <- OneAccount
  AccountOf <- OwnerA1
  Threshold = 2
  MaxScans = 5
  Overlap = FALSE
  Faults <- AllFaults
INVARIANTS
  TypeOK
  LastSeenIsLatest
PROPERTIES
  ResolvedAfterMisses
  UserStatusIsKept
