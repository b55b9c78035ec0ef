SPECIFICATION Spec
CONSTANTS
  WindowSteps = 2
  Gated = TRUE
  MaxCalls = 1
  MinConfidence = 50
  StepTypes = {"NO_OP", "CLICK", "TYPE"}
  RawNumbers <- MCRawNumbers
  MaxSteps = 3
  MaxEpisodes = 2
INVARIANTS
  TypeOK
  WindowIsRecent
  BudgetRespected
  OnlyConfidentBugsPay
  CallsAccountedFor
CHECK_DEADLOCK FALSE
