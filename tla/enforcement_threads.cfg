SPECIFICATION Spec
CONSTANTS
  rogue = rogue
  honest = honest
  NoOne = NoOne
  Agents = {rogue, honest}
  Requests <- Script
  AgentOf <- Author
  IssuedAt <- Issued
  InScope <- Declared
  MaxRequestsPerHour <- OneAnHour
  Hour = 2
  StrikeThreshold = 3
PROPERTIES RevocationPermanent
CHECK_DEADLOCK FALSE
