SPECIFICATION Spec
CONSTANTS
  Scripts <- MCScripts
  MaxRetries = 1
  Pages = {"home", "form"}
  Triggers = {"console_error"}
  Stranding = {TRUE, FALSE}
INVARIANTS
  TypeOK
  EveryStepAccountedFor
  TraceIsChained
  LabelsCoverTrace
  ReportMatchesTrace
PROPERTY
  CaptureEnds
CHECK_DEADLOCK FALSE
