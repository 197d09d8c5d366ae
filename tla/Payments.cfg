SPECIFICATION FairSpec
CONSTANTS
  None = None
  Unknown = Unknown
  v1 = v1
  v2 = v2
  Workers = {v1, v2}
  Ids = {1, 2, 4}
  Sepa <- LastIsDebit
  Base <- Prices
  Answers <- Given
  Fields = {1, 2}
  Relevant = {2}
  Tables <- OneTable
  Columns <- Orders
  Dates <- Days
  PageSize = 1
  NameRows = 2
  DateColumns = 1
  Ibans = {"ann"}
  Files <- Statements
  Ops = {"verify", "update", "cancel", "fields"}
  MaxWork = 3
CHECK_DEADLOCK FALSE
INVARIANTS
  DebitsUntouched
  EveryIdIsReported
  PricesAgree
  DocumentsAreComplete
  PaidOnce
PROPERTIES
  PaidHasSeat
  EveryRequestEnds
