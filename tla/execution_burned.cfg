SPECIFICATION Spec
CONSTANTS
  r1 = r1
  r2 = r2
  r3 = r3
  c1 = c1
  c2 = c2
  NoRequest = NoRequest
  DayLen = 4
  OpenAt = 1
  CloseAt = 2
  WeekDays = 2
  Cap24H = 1
  Cap7D = 2
  GrantTTL = 1
  MaxAttempts = 2
  ScriptedWindow = 0
  CustomerOf <- TwoCustomers
  RequestedCeiling <- OneEach
  Requests = {r1, r2, r3}
  Customers = {c1, c2}
  Windows <- FirstDay
  MerchantBudget = 1
  CustomerBudget <- OneEachCustomer
  Instants <- Never
INVARIANTS NoBurnedBudget
CHECK_DEADLOCK FALSE
