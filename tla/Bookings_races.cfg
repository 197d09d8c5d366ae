SPECIFICATION FairSpec
CONSTANTS
  None = None
  ann = ann
  bob = bob
  cem = cem
  w1 = w1
  w2 = w2
  Workers = {w1, w2}
  People = {ann, bob, cem}
  Known = {bob}
  MaxBookings = 3
  PidRange = 3
  Limits <- OneSeat
  MaxSeats = 1
  MaxQueue = 1
  Requests = {"book", "prebook", "cancel"}
  MemberFlags <- WithFlag
CHECK_DEADLOCK FALSE
INVARIANTS
  OneBookingPerSubscriber
  AnswersAreTrue
  NoLockCycle
  LimitsBounded
PROPERTIES
  HistoryIsKept
  PromotionFillsFreedSeat
  EveryRequestEnds
