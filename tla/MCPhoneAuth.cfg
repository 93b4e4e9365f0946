CONSTANTS
  Phones = {p1, p2}
  Macs = {m1}
  Requests = {r1, r2}
  PendingTtl = 0
  ReauthWindow = 1
  MaxNow = 2
  MaxPending = 2
  MaxCrashes = 1
  None = None
SPECIFICATION Spec
SYMMETRY Symmetry
INVARIANTS
  TypeOK
  ExpiredAfterDeadline
  VerifiedIsBacked
  CallRenewsGuest
PROPERTIES
  ImplementsAdmission
