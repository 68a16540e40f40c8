SPECIFICATION Spec
CONSTANTS
    Item <- Items
    Request <- Requests
    Owner = "owner"
    Anonymous = "anonymous"
    Limit = 1
    MaxChanges = 2
CHECK_DEADLOCK FALSE
INVARIANTS
    PageTypeOK
    OnlyReadableByBranch
    HeardAsAsked
    PagesComplete
    PagesOrdered
