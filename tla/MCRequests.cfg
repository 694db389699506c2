CONSTANTS
    FailureThreshold = 1
    RecoveryTimeout = 0
    HalfOpenMaxCalls = 1
    Requests = {r1, r2}
    Models <- ModelsThree
    Providers <- ProvidersTwo
    ProviderOf <- ProviderOfThree
    Group <- GroupThree
    APIs = {"chat", "stream", "anthropic"}
    NoModel = NoModel
    Clients = {c1, c2}
    Names = {x, y}
    MaxRows = 3
    MaxRequests = 3
    Chosen = {"role", "scope", "rule", "dictType", "dictData", "config",
              "notice", "dept", "menu", "user", "task", "provider", "model",
              "group", "limit", "key", "business", "column"}
    Calls = {k1, k2, k3}
    DefaultDaily = 3
    Limits = {1, 2}
    MaxTokens = 2
SYMMETRY Alike
INIT RequestsInit
NEXT RequestsNext
INVARIANTS
    ChargedOnceAndLogged
    OpenAIAnswersAreCharged
    OutcomesAgree
    
    ParentsExist
    TreeShowsAll
    KeyOvershootsOnce
CHECK_DEADLOCK FALSE
