CONSTANTS
    b1 = b1
    b2 = b2
    Beats = {b1}
    Tasks <- OnePeriodic
    PerSecond = 2
    Interval = 1
    LockTimeout = 2
    MaxTime = 2
    MaxRuns = 1
    MaxChanges = 1
    MaxFaults = 0
SPECIFICATION FairSpec
PROPERTY ChangesArrive
