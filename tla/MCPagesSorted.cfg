SPECIFICATION Spec
CONSTANTS
    Item <- Items
    Request <- SortedRequests
    Owner = "owner"
    Anonymous = "anonymous"
    Limit = 1
    MaxChanges = 1
CHECK_DEADLOCK FALSE
INVARIANT PagesComplete
