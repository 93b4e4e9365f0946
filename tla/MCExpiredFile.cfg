CONSTANTS
  Retention = 1
  CleanupInterval = 1
  BatchSize = 1
  MaxJobs = 1
  MaxFaults = 1
  None = None
SPECIFICATION Spec
INVARIANTS
  ExpiredFileIsGone
