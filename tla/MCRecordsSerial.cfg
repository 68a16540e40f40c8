CONSTANTS
    a = a
    b = b
    c = c
    none = none
    noData = noData
    big1 = big1
    big2 = big2
    small = small
    NoRecord = none
    NoData = noData
    DataCid <- DataCids
    Large <- LargeData
    Record <- Tree
    Message <- SerialMessages
    Procs = {p1}
    Streams = {"none", "good"}
    MaxCrashes = 0
SPECIFICATION FairSpec
INVARIANTS RecordsTidy EventsMatch DataMatch ChainComplete LatestEmitted PruneComplete
PROPERTIES EmittedInOrder ImplementsHistory Answered
