SPECIFICATION Spec
CONSTANTS
    Item <- UnpublishedItems
    Request <- NoBranchRequests
    Owner = "owner"
    Anonymous = "anonymous"
    Limit = 1
    MaxChanges = 1
CHECK_DEADLOCK FALSE
INVARIANT OnlyReadable
