SPECIFICATION FairSpec
CONSTANTS
    a1 = a1
    a2 = a2
    d1 = d1
    d2 = d2
    Deployer = {d1, d2}
    EnvType = {sagemakerNotebook}
    First = sagemakerNotebook
    Content = {old, new}
    EtagIsMd5 = FALSE
    MaxRuns = 3
    Accounts <- SomeAccounts
    Roles <- SomeRoles
    Custom = {"custom"}
    Parties <- SomeParties
INVARIANTS
    IInv
    VersionsDistinct
    PublishedAndConstrained
    NewestIsPublished
    CloneIsExact
PROPERTIES
    StatusFollowsStack
CHECK_DEADLOCK FALSE
