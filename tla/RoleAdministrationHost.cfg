\* Two instances over a host index, with a role the guard does not cover; every
\* running revocation takes its next step.
SPECIFICATION AdminFairSpec
CONSTANTS
    Instance = {n1, n2}
    Worker = {}
    HostIndex = TRUE
    SeedId = {}
    Jobs = {}
    Id = {a, b, c, d}
    Principal = {p, q}
    Scope = {app}
    Role = {admin, viewer}
    Admin = admin
    Event = {e1}
    Actor = {x}
    Time = {1}
    None = None
PROPERTIES
    AdministratorReturns
CHECK_DEADLOCK FALSE
