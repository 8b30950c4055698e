SPECIFICATION Spec
CONSTANTS
  r1 = r1
  r2 = r2
  r3 = r3
  c1 = c1
  c2 = c2
  Requests = {r1, r2, r3}
  Customers = {c1, c2}
  CustomerOf <- TwoCustomers
  RequestedCeiling <- TwoEach
  Windows <- TwoDays
  DayLen = 4
  OpenAt = 1
  CloseAt = 3
  WeekDays = 2
  Cap24H = 2
  Cap7D = 3
  GrantTTL = 1
  MerchantBudget = 3
  CustomerBudget <- Tight
  Instants <- Midnights
INVARIANTS SlotExclusive PoolsExact CustomerPoolExact NotOverdrawn
PROPERTIES SettledForGood
CHECK_DEADLOCK FALSE
