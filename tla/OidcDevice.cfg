SPECIFICATION Spec
CONSTANTS
  c1 = c1
  c2 = c2
  p1 = p1
  p2 = p2
  NoCode = NoCode
  Codes <- TwoCodes
  Polls <- TwoPolls
  CodeTTL = 1
  RestoreTTL = 0
  JwksTTL = 2
  MaxTime = 2
  MaxKeys = 2
  Faults <- AllFaults
SYMMETRY Symmetry
INVARIANTS
  TypeOK
  OneHolder
  CodeIsAccounted
  SessionIsEarned
  FinalIsForgotten
