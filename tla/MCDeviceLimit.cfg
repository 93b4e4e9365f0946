CONSTANTS
  Phones = {p1}
  Rooms = {}
  Vouchers = {}
  Macs = {m1, m2}
  Accts = {a1, a2}
  Requests = {r1}
  DeviceLimit = 1
  InterimGap = 1
  ReopenWindow = 1
  StaleAfter = 2
  ReauthWindow = 3
  MaxNow = 3
  MaxSessions = 2
  None = None
SPECIFICATION Spec
SYMMETRY Symmetry
INVARIANTS
  WithinDeviceLimit
