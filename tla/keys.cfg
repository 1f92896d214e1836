SPECIFICATION Spec
CONSTANTS
  u1 = u1  u2 = u2  d1 = d1  d2 = d2  c1 = c1  c2 = c2
  Users = {u1, u2}
  Devices = {d1, d2}
  OwnerOf <- MCOwnerOf
  Enrolled = {d1}
  Awake = {d1, d2}
  Sessions = {c1, c2}
  Client = Client  Invite = Invite  Firm = Firm  None = None
  MaxPairs = 2
  MaxInvites = 2
  MaxVersion = 2
  MaxIncidents = 1
  FirmReadFails = FALSE
PROPERTIES NobodyLosesTheirKey NewDeviceReads ClientReads
CHECK_DEADLOCK FALSE
