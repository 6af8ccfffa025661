SPECIFICATION Spec
CONSTANTS
    r1 = r1
    r2 = r2
    u1 = u1
    u2 = u2
    Request <- Requests2
    User <- Users2
    Nobody = Nobody
    Free = Free
    AuthDisabled = FALSE
SYMMETRY Symmetry2
INVARIANTS
    StoredFileLoads
