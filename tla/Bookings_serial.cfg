SPECIFICATION Spec
CONSTANTS
  None = None
  ann = ann
  bob = bob
  cem = cem
  w1 = w1
  w2 = w2
  Workers = {w1}
  People = {ann, bob, cem}
  Known = {bob}
  MaxBookings = 4
  PidRange = 3
  Limits <- AllLimits
  MaxSeats = 2
  MaxQueue = 2
  Requests = {"book", "prebook", "cancel", "update"}
  MemberFlags <- WithFlag
CHECK_DEADLOCK FALSE
INVARIANTS
  PaymentIdsDistinct
  OneBookingPerPerson
PROPERTIES
  ImplementsSeats
  OnlyLimitsIdleSeats
