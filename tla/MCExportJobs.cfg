CONSTANTS
  Retention = 1
  CleanupInterval = 1
  BatchSize = 1
  MaxJobs = 2
  MaxFaults = 2
  None = None
SPECIFICATION FairSpec
INVARIANTS
  TypeOK
  DownloadFindsFile
PROPERTIES
  NeverOfferedAgain
  DoneJobExpires
  TempIsSwept
