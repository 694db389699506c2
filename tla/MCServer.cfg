CONSTANTS
    SequenceSize = 2
    Workers = 2
    Datacenters = 3
    Tolerance = 2
    datacenter_id = 2
    worker_id = 1
    MaxClock = 5
    Nodes = {n1, n2}
    Readers = {r1, r2}
    LocalTTL = 1
    RedisTTL = 1
    Hold = 1
    MaxWrites = 1
    MaxFaults = 1
    Requests = {q1, q2, q3}
    QueueSize = 2
    BatchSize = 2
    MaxStops = 1
    MaxFailures = 1
    Plugins = {"plugin"}
    Apps = {"app"}
    Processes = {p1, p2}
    Jobs = {j1, j2}
    Toggles = {1}
    MaxStarts = 1
SYMMETRY Alike
INIT ServerInit
NEXT ServerNext
INVARIANTS
    IdsIncrease
    CopiesAgree
    LoggedOnce
    ChangesAreFlagged
    TogglesCount
PROPERTIES
    ReadsLag
    WritersAreSpared
CHECK_DEADLOCK FALSE
