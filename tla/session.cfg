SPECIFICATION Spec
CONSTANTS
  Urls <- MCUrls
  HttpUrls <- MCHttpUrls
  DomainOf <- MCDomainOf
  BaseUrl = "home"
  AboutBlank = "about:blank"
  ErrorPage = "error"
  Landings = {"page"}
  LandsAt <- MCLandsAt
  Unreliable = TRUE
  MaxSteps = 2
INVARIANTS
  TypeOK
  TerminatedOnlyIfStranded
  HistoryStaysInApp
  RestoredIsInside
PROPERTY
  EpisodeEnds
