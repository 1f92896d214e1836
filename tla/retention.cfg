SPECIFICATION Spec
CONSTANTS
  Messages = {m1}
  Atts = {a1, a2}
  Procs = {p1, p2}
  MaxVersions = 3
  MaxFailures = 1
  NoMsg = NoMsg
  NoAtt = NoAtt
INVARIANTS CleanHasBlob LeaksNeedAFailure
PROPERTIES ShreddedForGood
CHECK_DEADLOCK FALSE
