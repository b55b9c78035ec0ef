SPECIFICATION Spec
CONSTANTS
  N = 2
  Pages <- MCPages
  ElementsOf <- MCElementsOf
  MaxActions = 12
  NoName = NoName
  Inputs <- MCPages
  KeyOf <- Exact
  CacheSize = 1
  LearningStarts = 1
  MaxSteps = 2
  MaxCalls = 2
INVARIANTS TypeOK ChoiceIsOffered PairedModalities ActsOnScannedElement
CHECK_DEADLOCK FALSE
