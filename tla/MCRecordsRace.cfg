CONSTANTS
    a = a
    b = b
    c = c
    none = none
    noData = noData
    big1 = big1
    big2 = big2
    small = small
    NoRecord = none
    NoData = noData
    DataCid <- DataCids
    Large <- LargeData
    Record <- Single
    Message <- RaceMessages
    Procs = {p1, p2}
    Streams = {"good", "bad"}
    MaxCrashes = 1
SPECIFICATION Spec
SYMMETRY Symmetry
INVARIANTS NewestSurvives StoreInv
