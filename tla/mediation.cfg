SPECIFICATION Spec
CONSTANTS
  Requests = {1, 2, 3, 4}
  Customers = {1, 2}
  CustomerOf <- Owners
  RequestedCeiling <- OneEach
  DayLen = 4
  OpenAt = 1
  CloseAt = 2
  WeekDays = 3
  Cap24H = 1
  Cap7D = 1
  GrantTTL = 1
  MerchantBudget = 1
  CustomerBudget <- Two
  RiskOf <- Items
  Arrival <- FirstDays
  WhatsApp = {1, 3}
  Scores = {0, 1, 2}
  AgingBonus = 1
  MaxDeferrals = 3
  MayOptOut = {1}
  MayDispute = {2}
  MaxKills = 2
INVARIANTS HorizonSuffices AgedOncePerWindow VerdictsStayTrue OptOutHonoured NoneStranded
