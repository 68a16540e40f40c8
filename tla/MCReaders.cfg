CONSTANTS
    a = a
    b = b
    c = c
    none = none
    noData = noData
    big1 = big1
    big2 = big2
    small = small
    NoRecord = none
    NoData = noData
    DataCid <- DataCids
    Large <- LargeData
    Record <- Pair
    Message <- StopMessages
    Procs = {p1}
    Streams = {"none", "good"}
    MaxCrashes = 1
    Readers = {q1}
    MaxReads = 2
SPECIFICATION RSpec
CONSTRAINT ReadScope
INVARIANTS ReadIsFresh DeletedStaysHidden
    TypeOK NewestHasData CleanOnReply ImmutableKept
PROPERTIES DeleteFinal
