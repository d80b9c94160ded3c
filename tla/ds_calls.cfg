SPECIFICATION Spec
CONSTANTS
    Client = {c1, c2, c3, c4}
    Name = {n1, n2}
    Role = {ro1, ro2}
    RoleOf <- MCRoleOf
    Nobody = Nobody
SYMMETRY Symmetry
INVARIANTS
    IInv
    RecordedRolesHaveAccess
    EndpointNamesUnique
    ListedIsStored
PROPERTIES
    ListedWithAccessPoint
CHECK_DEADLOCK FALSE
