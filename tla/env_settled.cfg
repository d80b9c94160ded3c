SPECIFICATION Spec
CONSTANTS
    Req = {}
    Handler = {h1, h2}
    Dataset = {d1}
    MaxTime = 2
    MaxTries = 2
    MaxFaults = 0
    MaxCopies = 0
    Resolution = 1
    MaxBus = 1
SYMMETRY Symmetry
INVARIANTS
    SettledStatusIsTrue

CHECK_DEADLOCK FALSE
