SPECIFICATION Spec
CONSTANTS
  Pages <- MCPages
  UrlOf <- MCUrlOf
  KeyOf <- MCKeyOf
  Actions <- MCActions
  IdentityOf <- MCIdentityOf
  ElementOf <- MCElementOf
  NavActions = {"submit"}
  ErrorKeys = {"document"}
  DocumentErrors = {"document"}
  JudgeBases = {0}
  Window = 2
  MaxSteps = 3
INVARIANTS
  TypeOK
  PaidOncePerEpisode
  NoveltyOncePerEpisode
  NothingNewCosts
PROPERTIES
  SlowOncePerHang
  PayoutSpec
