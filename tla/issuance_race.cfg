SPECIFICATION Spec
CONSTANTS
  r1 = r1
  r2 = r2
  r3 = r3
  c1 = c1
  c2 = c2
  p1 = p1
  p2 = p2
  p3 = p3
  Requests = {r1, r2}
  Customers = {c1}
  CustomerOf <- OneCustomer
  RequestedCeiling <- OneEach
  Windows <- TwoDays
  DayLen = 4
  OpenAt = 1
  CloseAt = 2
  WeekDays = 2
  Cap24H = 1
  Cap7D = 2
  GrantTTL = 1
  MerchantBudget = 1
  CustomerBudget <- OneEachCustomer
  Instants <- SecondMidnight
  Callers = {p1, p2}
  MaxAttempts = 2
SYMMETRY Interchangeable
INVARIANTS AnswersHold CacheCoversLedger
PROPERTIES ImplementsLedger
CHECK_DEADLOCK FALSE
