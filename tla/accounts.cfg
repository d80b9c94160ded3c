SPECIFICATION Spec
CONSTANTS
    a1 = a1
    a2 = a2
    c1 = c1
    c2 = c2
    r1 = r1
    r2 = r2
    r3 = r3
    Account = {a1, a2}
    Main = main
    Caller = {c1, c2}
    Role = {r1, r2}
    RoleAccount <- SomeRoleAccount
    Nobody = Nobody
    Chars <- CharsOfTwo
    MaxFaults = 1
INVARIANTS
    IInv
    StoredIsAdmitted
    MainKeepsKey
    GrantedOrTakenFor
    WholeGrants
    OneRowPerAccount
    AnswersAreTrue
CHECK_DEADLOCK FALSE
