CONSTANTS
  Phones = {}
  Rooms = {}
  Vouchers = {v1}
  Macs = {m1, m2}
  Accts = {a1}
  Requests = {r1}
  DeviceLimit = 1
  InterimGap = 1
  ReopenWindow = 1
  StaleAfter = 1
  ReauthWindow = 1
  MaxNow = 1
  MaxSessions = 2
  Limits = {1}
  Lifetimes = {0}
  None = None
SPECIFICATION PortalSpec
SYMMETRY Symmetry
INVARIANTS
  VoucherGuestsWereLetThrough
