SPECIFICATION Spec
CONSTANTS
    Client = {c1, c2, c3}
    Name = {n1, n2}
    Role = {ro1, ro2}
    RoleOf <- MCRoleOf
    Nobody = Nobody
SYMMETRY Symmetry
INVARIANTS
    RemovedIsNotListed
CHECK_DEADLOCK FALSE
