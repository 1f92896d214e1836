SPECIFICATION Spec
CONSTANTS
  s1 = s1  s2 = s2  u1 = u1  t1 = t1  t2 = t2  x1 = x1  x2 = x2  m1 = m1  m2 = m2
  Servers = {s1, s2}
  Faulty = {s1}
  Drops <- MCDrops
  Users = {u1}
  Tabs = {t1}
  UserOf <- MCUserOf
  Sockets = {x1, x2}
  Messages = {m1}
  None = None
  MaxFaults = 2
PROPERTIES OnlineIsNeverMailed FanoutComesBack TabsCatchUp
CHECK_DEADLOCK FALSE
