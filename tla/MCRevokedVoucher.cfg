CONSTANTS
  Phones = {}
  Rooms = {}
  Vouchers = {v1}
  Macs = {m1}
  Accts = {a1}
  Requests = {r1}
  DeviceLimit = 1
  InterimGap = 1
  ReopenWindow = 1
  StaleAfter = 1
  ReauthWindow = 1
  MaxNow = 2
  MaxSessions = 1
  Limits = {1}
  Lifetimes = {1}
  None = None
SPECIFICATION PortalSpec
PROPERTIES
  RevokedVoucherIsClosed
