\* A seed beside an operator.
SPECIFICATION AdminSpec
CONSTANTS
    Instance = {n1}
    Worker = {w1, w2}
    HostIndex = FALSE
    SeedId = {s1}
    Jobs = {"assign", "seed"}
    Id = {a, b, c, s1}
    Principal = {p}
    Scope = {app}
    Role = {admin, viewer}
    Admin = admin
    Event = {e1}
    Actor = {x}
    Time = {1}
    None = None
SYMMETRY Symmetric
PROPERTIES
    SeedNeverResurrects
