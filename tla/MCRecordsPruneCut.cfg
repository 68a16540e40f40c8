CONSTANTS
    a = a
    b = b
    c = c
    none = none
    noData = noData
    big1 = big1
    big2 = big2
    small = small
    NoRecord = none
    NoData = noData
    DataCid <- DataCids
    Large <- LargeData
    Record <- Pair
    Message <- PruneMessages
    Procs = {p1}
    Streams = {"good"}
    MaxCrashes = 1
SPECIFICATION Spec
INVARIANTS PruneComplete
