SPECIFICATION Spec
CONSTANTS
  None = None
  n1 = n1
  n2 = n2
  events = events
  fitness = fitness
  Workers = {n1, n2}
  Emails = {"ann", "bob"}
  Topics = {events, fitness}
  MaxIds = 3
  Requests <- AllRequests
SYMMETRY Alike
CHECK_DEADLOCK FALSE
INVARIANTS
  ConfirmedStands
  RowsHaveTopics
PROPERTIES
  CommitsAreSerial
