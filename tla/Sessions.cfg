SPECIFICATION Spec
CONSTANTS
    Users = {12}
    Others = {1}
    Parallel = 2
    MaxRequests = 3
    MaxFaults = 1
INVARIANTS
    CredentialChangesEndSessions
    StaleUserOverlapped
    SingleLoginOvershoot
    ForkedByOverlapOnly
CHECK_DEADLOCK FALSE
