SPECIFICATION Spec
CONSTANTS
  WindowSteps = 2
  SkipIdle = TRUE
  Controls = {"name"}
  TextMax = 2
  ListMax = 2
  Pages <- MenuPages
  Landings <- MenuLandings
  Acts <- MenuActs
  Bugs = {"bug1"}
  Answers <- MCAnswers
  Gate = TRUE
  Limit = 0
  IgnoreIssues = FALSE
  MaxSteps = 1
  MaxEpisodes = 1
INVARIANTS
  GoneIsGone
CHECK_DEADLOCK FALSE
