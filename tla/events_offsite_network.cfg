SPECIFICATION Spec
CONSTANTS
  AppPages <- MCAppPages
  AwayPages <- MCAwayPages
  Landing = "landing"
  MaxEvents = 1
  MaxTabs = 1
PROPERTY
  NoOffsiteHttpError
