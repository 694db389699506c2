CONSTANTS
    Clients = {c1}
    Names = {x}
    MaxRows = 1
    MaxRequests = 1
    Chosen = {"group", "limit", "key"}
SPECIFICATION Spec
INVARIANT CreatedRowsExist
CHECK_DEADLOCK FALSE
