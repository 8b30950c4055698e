SPECIFICATION Spec
CONSTANTS
  Credentials <- SameOrOther
  References <- TwoLinks
  Payments <- ThreePayments
  HashesOf <- SharedInTurn
  ArrivalOf <- AfternoonEveningNext
  Cap24H = 1
  Cap7D = 2
  WeekDays = 7
  MaxWindows = 4
  MaxAttempts = 2
  Modes = {"accept_then_timeout", "hard_down"}
  LinkOf <- FirstAndThird
  Troubled = {1}
  Sessions = 2
  Anonymous = {1}
INVARIANTS OneMessagePerPayment OutcomesHold ContactBudgetHolds RowsKeptApart TestModeOnly
CHECK_DEADLOCK FALSE
