CONSTANTS
    b1 = b1
    b2 = b2
    Beats = {b1, b2}
    Tasks <- TasksOfBothKinds
    PerSecond = 2
    Interval = 1
    LockTimeout = 1
    MaxTime = 2
    MaxRuns = 2
    MaxChanges = 1
    MaxFaults = 1
    Executors = {w1, w2}
    MaxRetries = 2
    StoreTries = 1
    MaxAgain = 1
    MaxErrors = 1
    MaxDeletions = 1
SPECIFICATION TasksSpec
SYMMETRY Alike
INVARIANTS
    OneBeatTicks
    RunsAreCounted
    
    OutcomeIsTold
CHECK_DEADLOCK FALSE
