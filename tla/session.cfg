SPECIFICATION FairSpec
CONSTANTS
  Runs <- TwoRuns
  Windows <- OneWindow
  Schemas <- RunsAndPublic
  Appenders <- RunnersAndPanel
  Facts <- EventIds
  Public = 3
  Panel = 3
  Nobody = 0
  Genesis = Genesis
  BatchLimit = 2
  Troubled <- SecondRun
INVARIANTS ChainVerifies GrantsExplained ExplanationsHold StreamFaithful EndIsComplete PublicUntouched SchemasAccountedFor
CHECK_DEADLOCK FALSE
PROPERTIES StreamEnds
