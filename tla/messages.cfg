SPECIFICATION Spec
CONSTANTS
  Messages = {m1}
  Keys = {k1}
  Procs = {p1, p2}
  Sends <- EverySend
  MaxFailures = 2
  NoMsg = NoMsg
  NoKey = NoKey
INVARIANTS BurnedOnce TickedOnce
PROPERTIES TimerNeverPostponed VisibleIsAnnounced ElapsedIsDeleted KeyComesFree
CHECK_DEADLOCK FALSE
