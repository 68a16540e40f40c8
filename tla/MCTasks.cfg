SPECIFICATION FairSpec
CONSTANTS
    Process = {p, q}
    Task = {s, t}
    BatchSize = 1
    MaxTime = 4
    MaxRuns = 3
    MaxFailures = 1
    MaxStops = 1
INVARIANTS TasksTypeOK NoTaskLost RunningHeld ResumedOnOpen
PROPERTIES OpenReturns
CHECK_DEADLOCK FALSE
