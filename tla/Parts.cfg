SPECIFICATION SpecAll
CONSTANTS
  Processes = {p1, p2}
  MaxCalls = 2
  MaxFaults = 1
  Writers = {p1, p2}
  SessionIds = {"a1", "a2"}
  GroupOf <- SameGroup
  MaxEntries = 2
  MaxCuts = 1
  Connections = {p1, p2}
  Sessions = {"s1", "s2"}
  MaxAppends = 4
  MaxCrashes = 1
  MaxIds = 3
  MaxTexts = 4
  MaxRestarts = 1
  Interactive = TRUE
  Catalogs <- SomeCatalogs
  Providers = {"p", "q"}
  Defaults <- SomeDefaults
  Patterns <- SomePatterns
  ScopeLists <- SomeScopes
  Levels = {"hi"}
  TokenRank <- InAsciiOrder
  MaxStarts = 2
  ProjectDir <- InProject
  GlobalDir <- InHome
  Configured <- InSettings
  EntryPoints <- SomeEntryPoints
  BaseTools <- TwoBaseTools
  MaxRewrites = 1
  MaxToolCalls = 2
  Texts <- SomeTexts
  Needles <- SomeNeedles
  PageSize = 1
  ExitCodes <- SomeExitCodes
  MaxOps = 3
  SkillNames = {"x", "y"}
  TopK = 1
  MaxScore = 1
  MaxCandidates = 2
  MaxUses = 2
  Typed <- Inputs
  SuggestionsFor <- Suggested
  ModelCount = 2
  MaxSubmissions = 2
  MaxShortcuts = 1
  MaxEdit = 2
  History <- Typewritten
  MenuSize = 3
  MaxKeys = 4
SYMMETRY Symmetry
INVARIANTS
  TrustDecides
  SavesMerge
  EntriesHonest
  ForkWhole
  EntriesDense
  MemoriesKept
  SearchSound
  
  ExtensionsContained
  ToolsHonest
  SkillsAudited
  TuiSound
  LineIsShown
CHECK_DEADLOCK FALSE
