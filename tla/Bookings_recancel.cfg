SPECIFICATION Spec
CONSTANTS
  None = None
  ann = ann
  bob = bob
  cem = cem
  w1 = w1
  w2 = w2
  Workers = {w1}
  People = {ann, bob, cem}
  Known = {bob}
  MaxBookings = 3
  PidRange = 3
  Limits <- SmallLimits
  MaxSeats = 2
  MaxQueue = 2
  Requests = {"book", "recancel"}
  MemberFlags <- WithFlag
CHECK_DEADLOCK FALSE
PROPERTIES
  CancelAddsNoAttendee
