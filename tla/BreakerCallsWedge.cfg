SPECIFICATION FairSpec
CONSTANTS
    FailureThreshold = 2
    RecoveryTimeout = 1
    HalfOpenMaxCalls = 2
    Calls = {c1, c2, c3}
PROPERTIES
    HalfOpenResolves
