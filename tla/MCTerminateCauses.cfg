CONSTANTS
  None = None
  Workers = {w1}
  Rows = {r1}
  MaxCrashes = 1
SPECIFICATION Spec
PROPERTIES
  CausesSurviveStart
CHECK_DEADLOCK FALSE
