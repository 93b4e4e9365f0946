CONSTANTS
  Phones = {p1}
  Rooms = {}
  Vouchers = {}
  Macs = {m1, m2}
  Accts = {a1, a2}
  Requests = {r1}
  DeviceLimit = 1
  InterimGap = 1
  ReopenWindow = 1
  StaleAfter = 1
  ReauthWindow = 1
  MaxNow = 2
  MaxSessions = 2
  None = None
SPECIFICATION Spec
SYMMETRY Symmetry
INVARIANTS
  TypeOK
  ActiveIffNotEnded
  AcctIdsAreUnique
  GuestWasAdmittedOnDevice
  
