SPECIFICATION Spec
CONSTANTS
    None = None
    Dir = {d1}
    Task = {t1}
    Policies <- SixPolicies
    MaxRuntimes = 3
    Name = {e1, e2}
    Tool = {read}
    Other = {}
    Builtin = {read}
    MaxFound = 1
    MaxSlots = 2
    Place <- ElevenPlaces
    Version = {"v1", "v2", "v3"}
    Described <- TwoDescriptions
    Reserved = {"tools"}
    Extension <- ThreeExtensions
    Config <- FourConfigs
    MaxEdits = 2
    Sizes = {1, 2}
    Density = 2
    SummarySize = 1
    KeepRecent = 3
    Threshold = 5
    MaxRows = 5
    MaxMade = 6
    MaxTime = 3
    ProviderOf <- ThreeModels
    Levels <- SomeLevels
    Default <- SomeDefaults
    Configured <- OneIsPinned
    Router = "router"
    Route = {"route"}
CHECK_DEADLOCK FALSE
INVARIANTS SwapIsSafe ToolRunsOnlyIfPassed PromptIsCurrent   ClientIsShown
