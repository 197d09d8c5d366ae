SPECIFICATION Spec
CONSTANTS
  None = None
  Keep = Keep
  v1 = v1
  v2 = v2
  Workers = {v1}
  MaxEvents = 2
  Names = {"yoga", "run"}
  MaxClock = 3
  NewEvents <- AllDrafts
  Changes <- AllChanges
  Jobs = {}
  Ops = {"create", "update", "delete", "book", "prebook"}
CHECK_DEADLOCK FALSE
INVARIANTS
  DebitsHaveIbans
PROPERTIES
  ClosingLeavesOne
