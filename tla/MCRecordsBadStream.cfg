CONSTANTS
    a = a
    b = b
    c = c
    none = none
    noData = noData
    big1 = big1
    big2 = big2
    small = small
    NoRecord = none
    NoData = noData
    DataCid <- DataCids
    Large <- LargeData
    Record <- Single
    Message <- RaceMessages
    Procs = {p1}
    Streams = {"good", "bad"}
    MaxCrashes = 0
SPECIFICATION Spec
INVARIANTS NewestHasData
