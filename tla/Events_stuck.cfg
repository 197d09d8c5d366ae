SPECIFICATION FairSpec
CONSTANTS
  None = None
  Keep = Keep
  v1 = v1
  v2 = v2
  Workers = {v1}
  MaxEvents = 1
  Names = {"yoga"}
  MaxClock = 1
  NewEvents <- Running
  Changes = {}
  Jobs = {v1}
  Ops = {"create"}
CHECK_DEADLOCK FALSE

PROPERTIES
  FinishedIsClosed
