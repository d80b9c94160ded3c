SPECIFICATION Spec
CONSTANTS
    Req = {r1, r2}
    Handler = {h1, h2}
    Dataset = {d1, d2}
    MaxTime = 0
    MaxTries = 2
    MaxFaults = 0
    MaxCopies = 0
    Resolution = 1
    MaxBus = 1
SYMMETRY Symmetry
INVARIANTS
    NoStatusBeforeInstance
    TerminateAckMeansStarted
    UnmountedOnlyInTermination
    TerminatedIsTrue
    RolesLinkedBeforeInstance
PROPERTIES
    ImplementsRecord
CHECK_DEADLOCK FALSE
