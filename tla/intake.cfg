SPECIFICATION IntakeSpec
CONSTANTS
  Sessions = {s1}
  Uploads = {u1, u2}
  Finals = {f1}
  SessionCap = 1
  MaxConversions = 2
  MaxIncidents = 1
  MaxPatches = 2
  NoSession = NoSession
INVARIANT StoredUntilPurged
PROPERTIES ErasedWithItsRow ConversionSettles OverdueIsPurged
CHECK_DEADLOCK FALSE
