SPECIFICATION Spec
CONSTANTS
  AppPages <- MCAppPages
  AwayPages <- MCAwayPages
  Landing = "landing"
  MaxEvents = 2
  MaxTabs = 2
INVARIANTS
  TypeOK
  NoForeignConsoleError
  NothingLost
  ReportedAtMostOnce
PROPERTY
  StepsReportOwnEpisode
