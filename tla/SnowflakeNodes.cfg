SPECIFICATION FairSpec
CONSTANTS
    Procs = {p1, p2, p3}
    NodeCount = 2
    TTL = 2
    Interval = 1
    NoProc = NoProc
INVARIANTS
    NodesExclusive
    LeaseHeld
PROPERTIES
    NodesComeBack
