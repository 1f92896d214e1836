SPECIFICATION VaultSpec
CONSTANTS
  s1 = s1  s2 = s2  c1 = c1  f1 = f1  d1 = d1
  Staff = {s1, s2}
  Sessions = {c1}
  Files = {f1}
  Folders = {d1}
  None = None
  MaxIncidents = 2
INVARIANTS OneKeyPerZone FilesStayInZone
PROPERTIES RetentionIsApplied
CHECK_DEADLOCK FALSE
