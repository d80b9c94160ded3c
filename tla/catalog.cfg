SPECIFICATION Spec
CONSTANTS
    Undefined = Undefined
    Id = {1, 2, 3}
    FewIds = {1, 2}
    Label = {1}
    Product = {"p", "q"}
    Person = {1, 2}
    PageSize = {1, 2}
    MaxNow = 2
    MaxFaults = 1
    MaxRestarts = 1
    MaxReloads = 1
    MaxPages = 3
    Slot = {1, 2}
    DataSetCall = {1, 2, 3}
    DataSetName = {1, 2}
    Path = {"a", "b"}
INVARIANTS
    IInv
    ListedOnce
    OwnEnvironmentsOnly
    ConfigOfParent
    TokensOfView
    SpinnerMeansRequest
    ConfigOfType
    OneDataSetPerName
CHECK_DEADLOCK FALSE
