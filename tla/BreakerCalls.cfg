SPECIFICATION FairSpec
CONSTANTS
    FailureThreshold = 3
    RecoveryTimeout = 1
    HalfOpenMaxCalls = 3
    Calls = {c1, c2, c3, c4}
INVARIANTS
    CountersOfOnePeriod
    TrialsFollowQuiet
PROPERTIES
    OpenIsRetried
    HalfOpenResolvesOrLoses
