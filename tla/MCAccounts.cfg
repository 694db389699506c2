SPECIFICATION AccountsSpec
CONSTANTS
    Attempts = {a1, a2}
    Threshold = 3
    LockSeconds = 2
    MaxDeaths = 1
    Phones = {"phone"}
    Sids = {"s1", "s2", "s3"}
    NoMail = "none"
    NoPhone = "none"
    Member = "first"
    MaxCodes = 2
    Simultaneous = 2
    MaxSignUps = 3
    Words = {"u", "v", "w"}
    CheckCount = 2
    AtOnce = 2
    MaxChanges = 4
    Users = {"user"}
    Roles = {"role1", "role2"}
    Menus = {"menu"}
    Scopes = {"scope"}
    Rules = {"rule"}
    Loads = {1, 2}
    Changes = {1, 2}
    MaxAlterations = 2
INVARIANTS
    GuessesBounded
    
    NoRecentReuse
    CopiesDecideAsRows
PROPERTIES
    LockRemovedByOvertaken
    LockIsLifted
CHECK_DEADLOCK FALSE
