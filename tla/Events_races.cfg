SPECIFICATION FairSpec
CONSTANTS
  None = None
  Keep = Keep
  v1 = v1
  v2 = v2
  Workers = {v1, v2}
  MaxEvents = 2
  Names = {"yoga"}
  MaxClock = 1
  NewEvents <- Running
  Changes <- FewChanges
  Jobs = {v1}
  Ops = {"create", "update", "delete", "book"}
CHECK_DEADLOCK FALSE
INVARIANTS
  BookedIsKept
PROPERTIES
  NoLostUpdate
  DueIsFinished
