SPECIFICATION FairSpec
CONSTANTS
    root = root
    researcher = researcher
    User = {root, researcher}
    Root = root
    Role = {"Admin", "Researcher"}
    Cases <- SomeCases
    MaxDirect = 1
    MaxFaults = 1
    MaxAttempts = 2
    MaxTokens = 3
INVARIANTS
    IInv
    AdminsAreAppointed
    ExchangePaired
    LoggedOutStaysOut
PROPERTIES
    SetupEnds
CHECK_DEADLOCK FALSE
