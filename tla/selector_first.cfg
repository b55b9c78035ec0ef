SPECIFICATION Spec
CONSTANTS
  N = 2
  Pages <- MCPages
  ElementsOf <- RadioElementsOf
  MaxActions = 12
  NoName = NoName
  Inputs <- MCPages
  KeyOf <- Exact
  CacheSize = 1
  LearningStarts = 1
  MaxSteps = 2
  MaxCalls = 2
INVARIANT ActsOnScannedElement
CHECK_DEADLOCK FALSE
