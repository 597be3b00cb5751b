SPECIFICATION FairSpec
CONSTANTS
  c1 = c1
  c2 = c2
  p1 = p1
  p2 = p2
  NoCode = NoCode
  Codes <- TwoCodes
  Polls <- TwoPolls
  CodeTTL = 1
  RestoreTTL = 1
  JwksTTL = 1
  MaxTime = 0
  MaxKeys = 1
  Faults <- NoFaults
PROPERTY LoginCompletes
