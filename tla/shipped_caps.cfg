SPECIFICATION Spec
CONSTANTS
  r1 = r1
  r2 = r2
  r3 = r3
  c1 = c1
  c2 = c2
  Requests = {r1, r2, r3}
  Customers = {c1}
  CustomerOf <- OneCustomer
  RequestedCeiling <- OneEach
  Windows <- FourDays
  DayLen = 4
  OpenAt = 1
  CloseAt = 3
  WeekDays = 3
  Cap24H = 1
  Cap7D = 2
  GrantTTL = 1
  MerchantBudget = 2
  CustomerBudget <- Roomy
  Instants <- Midnights
SYMMETRY SameCustomer
INVARIANTS TypeOK RollingCap24H RollingCap7D CustomerPoolNeverBinds
CHECK_DEADLOCK FALSE
