SPECIFICATION Spec
CONSTANTS
  WindowSteps = 2
  Gated = TRUE
  MaxCalls = 0
  MinConfidence = 50
  StepTypes = {"NO_OP", "CLICK", "TYPE"}
  RawNumbers <- MCRawNumbers
  MaxSteps = 2
  MaxEpisodes = 1
INVARIANTS
  TriggerIsJudged
CHECK_DEADLOCK FALSE
