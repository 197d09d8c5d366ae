SPECIFICATION Spec
CONSTANTS
  None = None
  v1 = v1
  v2 = v2
  Workers = {v1, v2}
  Ids = {1, 2}
  Seats = 1
  Schedules <- Plans
  Soon = {1, 2}
  MaxWork = 3
  Ops = {"book", "cancel", "update", "dates", "remind"}
SYMMETRY Alike
CHECK_DEADLOCK FALSE
INVARIANTS
  PeopleAreTold
  DatesAreOfOneSave
  RemindersAreBounded
  AttendeesAreReminded
