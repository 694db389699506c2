SPECIFICATION Spec
CONSTANTS
    FailureThreshold = 1
    RecoveryTimeout = 0
    HalfOpenMaxCalls = 1
    Requests = {r1, r2}
    Models <- ModelsOne
    Providers <- ProvidersOne
    ProviderOf <- ProviderOfOne
    Group <- GroupOne
    APIs = {"chat", "stream", "anthropic"}
    NoModel = NoModel
INVARIANTS
    AnswersAreCharged
