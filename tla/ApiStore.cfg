SPECIFICATION Spec
CONSTANTS
  s1 = s1
  s2 = s2
  c1 = c1
  p1 = p1
  p2 = p2
  al = al
  x = x
  y = y
  k1 = k1
  k2 = k2
  NoSecret = NoSecret
  Absent = Absent
  Gone = Gone
  Servers <- MCServers
  Configs <- MCConfigs
  Provs <- MCProvs
  Alerts = {al}
  Fields = {"region", "category"}
  Names = {"a", "b"}
  Secrets = {x, y}
  Keys <- MCKeys
  Legacy <- MCLegacy
  Checked = FALSE
  MaxRequests = 4
SYMMETRY Symmetry
CHECK_DEADLOCK FALSE
INVARIANTS
  TypeOK
  SecretIsKept
  UpdateIsKept
  MigratedIsEncrypted
  NamesAreUnique
  UsersHaveProvider
