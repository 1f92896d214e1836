SPECIFICATION ReachSpec
CONSTANTS
  c1 = c1
  Clients = {c1}
  StaffMessages = {m1}
  Items = {i1}
  Kinds = {"mail", "stop", "start", "empty"}
  FromOf <- MCFromOf
  Procs = {p1, p2}
  Nobody = Nobody
  MaxMishaps = 1
INVARIANTS StoredOnce FilesMatchRows
PROPERTIES NudgedOnceUnread UnreadIsNudged SentIsTaken
CHECK_DEADLOCK FALSE
