CONSTANTS
    a = a
    b = b
    c = c
    none = none
    noData = noData
    big1 = big1
    big2 = big2
    small = small
    NoRecord = none
    NoData = noData
    DataCid <- DataCids
    Large <- LargeData
    Record <- Single
    Message <- ReadMessages
    Procs = {p1}
    Streams = {"none", "good"}
    MaxCrashes = 0
    Readers = {q1}
    MaxReads = 1
SPECIFICATION RSpec
INVARIANTS InitialAttached
