SPECIFICATION Spec
CONSTANTS
  WindowSteps = 2
  SkipIdle = TRUE
  Controls = {"name"}
  TextMax = 1
  ListMax = 1
  Pages <- MCPages
  Landings <- MCLandings
  Acts <- MCActs
  Bugs = {"bug1"}
  Answers <- MCAnswers
  Gate = TRUE
  Limit = 0
  IgnoreIssues = FALSE
  MaxSteps = 3
  MaxEpisodes = 2
INVARIANTS
  TypeOK
  WindowsAreUnbroken
  RenderingIsHonest
  StepsAccountedFor
  OutageIsNoMiss
CHECK_DEADLOCK FALSE
