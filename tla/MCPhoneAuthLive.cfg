CONSTANTS
  Phones = {p1}
  Macs = {m1}
  Requests = {r1, r2}
  PendingTtl = 0
  ReauthWindow = 1
  MaxNow = 2
  MaxPending = 2
  MaxCrashes = 1
  None = None
SPECIFICATION FairSpec
PROPERTIES
  PendingIsResolved
  MatchedCallAdmits
