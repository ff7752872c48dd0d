SPECIFICATION Spec
CONSTANTS
  Nil = Nil
  Unit = 2
  GameNames <- MCGameNames
  Default <- MCDefault
  Groups <- MCGroups
  Templates <- MCTemplates
  PlanOrder <- MCPlanOrder
  Zones <- MCZones
  FixedGroups <- MCFixedGroups
  PlanNames <- MCPlanNames
  BaseURL <- MCBaseURL
  TokenNames <- MCTokenNames
  Public <- MCPublic
  Explicit <- MCExplicit
  Defaults <- MCDefaults
  StandardKind <- MCStandardKind
  Tiers <- MCTiers
  Tokens <- MCTokens
  Own <- MCOwn
  Alphabet <- MCAlphabet
  Signs <- MCSigns
  DrawCases <- MCDrawCases
  ConfigCases <- MCConfigCases
  PrizeCases <- MCPrizeCases
  TitleCases <- MCTitleCases
  SceneCases <- MCSceneCases
  SaleCases <- MCSaleCases
  MergeCases <- MCMergeCases
  TraceCases <- MCTraceCases
  TokenCases <- MCTokenCases
  SiteCases <- MCSiteCases
  StatusCases <- MCStatusCases
INVARIANTS
  GamesPayFairly
  SavedConfigWorks
  TitlesAreRead
  MergesAreFair
  TokensAreFound
  TableAddsUp
CHECK_DEADLOCK FALSE
