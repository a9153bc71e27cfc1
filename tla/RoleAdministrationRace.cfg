\* Two instances over the index of the store: administrators revoked at once.
SPECIFICATION AdminSpec
CONSTANTS
    Instance = {n1, n2}
    Worker = {w1}
    HostIndex = FALSE
    SeedId = {s1}
    Jobs = {"assign", "seed"}
    Id = {a, b, c, d, s1}
    Principal = {p, q}
    Scope = {app}
    Role = {admin}
    Admin = admin
    Event = {e1}
    Actor = {x}
    Time = {1}
    None = None
SYMMETRY Symmetric
INVARIANTS
    AdministratorRemains
PROPERTIES
    HolderNeverOverlooked
    SeedRespectsHistory
CHECK_DEADLOCK FALSE
