CONSTANTS
  Phones = {}
  Rooms = {x1}
  Vouchers = {v1}
  Macs = {m1}
  Accts = {a1}
  Requests = {r1}
  DeviceLimit = 1
  InterimGap = 1
  ReopenWindow = 1
  StaleAfter = 2
  ReauthWindow = 2
  MaxNow = 3
  MaxSessions = 2
  None = None
SPECIFICATION FairSpec
PROPERTIES
  StaleSessionIsClosed
