SPECIFICATION Spec
CONSTANTS
    Mac = {ma, mb}
    User = {u}
    Group = {g}
    None = none
    Handler = {h1, h2}
    MaxAttempts = 1
    MaxId = 2
    MaxEdits = 4
    MaxForms = 3
INVARIANTS
    TypeOK
    AccessIsVouched
    AssignedIsAuthenticated
    LimitHolds
PROPERTY
    LoginKeepsAssignment
CHECK_DEADLOCK FALSE
SYMMETRY Symmetric
