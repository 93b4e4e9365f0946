CONSTANTS
  None = None
  MaxRuns = 3
  Addresses = {a1}
  Bootstrap = n1
  MaxFailures = 2
  Window = 2
  Lock = 3
  Keep = 3
  LockNames = {n1}
  LockLogins = {l1, l2}
  LockPosts = {}
  LockRows = 4
  LockUsers = 1
  PageNames = {n1, n2}
  PageLogins = {l1}
  PagePosts = {p1}
  PageRows = 0
  PageUsers = 3
  Workers = {w1, w2}
  SessionRows = {r1}
  MaxCrashes = 1
  SettingForms = {f1}
  MaxSaves = 1
  Hotels = {h1}
  Guests = {g1}
  Requests = {q1, q2}
  SiteForms = {s1}
  MaxSites = 1
  Subnets = {t1, t2}
  NetworkForms = {f1, f2}
  MaxNetworks = 2
  MaxTime = 6
  Keeps = {1, 2}
  MaxSessions = 3
  Limit = 1
  Batch = 1
  Interval = 2
  Devices = {d1, d2}
  NamedDevices = {d1, d2}
  Ips = {i1}
  MaxFails = 1
SPECIFICATION FairSpec
INVARIANTS
  TypesOK
  GuessesAreBounded
  OriginalsAreKept
  CompleteIsInForce
  ServingIsMigrated
  RoomGuestsStayed
  TwinsAreBounded
  GoodBackupRemains
PROPERTIES
  LockEnds
  IdsAreForGood
  LastSuperadminIsNotDeleted
  SecretsAreForGood
  AllServe
  KeysAreKept
  OldRowsGo
  SavedSurvivesStarts
  NamesComeRight
CHECK_DEADLOCK FALSE
