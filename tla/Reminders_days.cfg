SPECIFICATION Spec
CONSTANTS
  None = None
  v1 = v1
  v2 = v2
  Workers = {v1, v2}
  Ids = {1}
  LastDay = 14
  BookingDays = {0, 4}
  Deadlines = {1, 6}
SYMMETRY Alike
CHECK_DEADLOCK FALSE
PROPERTIES
  SpacingKept
  EarlyByTheWait
