SPECIFICATION Spec
CONSTANTS
    Req = {}
    Handler = {h1, h2}
    Dataset = {d1}
    MaxTime = 1
    MaxTries = 2
    MaxFaults = 0
    MaxCopies = 0
    Resolution = 1
    MaxBus = 2
SYMMETRY Symmetry
INVARIANTS
    CompletedIsConnectable

CHECK_DEADLOCK FALSE
