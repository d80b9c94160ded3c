SPECIFICATION FairSpec
CONSTANTS
    Req = {r1}
    Handler = {h1}
    Dataset = {d1}
    MaxTime = 1
    MaxTries = 2
    MaxFaults = 1
    MaxCopies = 1
    Resolution = 1
    MaxBus = 1
INVARIANTS
    IInv
PROPERTIES
    FailedLaunchIsReported
    LaunchIsRecorded
CHECK_DEADLOCK FALSE
