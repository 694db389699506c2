SPECIFICATION FairSpec
CONSTANTS
    Requests = {r1, r2}
    RpmLimit = 1
    DailyLimit = 1
    MonthlyLimit = 2
    MaxTokens = 1
    Window = 3
    DaysPerMonth = 1
    Days = 1
INVARIANTS
    DailyOvershootBounded
    BooksBalance
    TwoWindowsAtMost
    OrphanedByDeath
PROPERTIES
    LimitIsLifted
