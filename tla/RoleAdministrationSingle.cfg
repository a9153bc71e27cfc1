\* One instance beside an assignment, a view or a seed, over a host index: two
\* scopes, and clocks that disagree.
SPECIFICATION AdminSpec
CONSTANTS
    Instance = {n1}
    Worker = {w1}
    HostIndex = TRUE
    SeedId = {s1}
    Jobs = {"assign", "view", "seed"}
    Id = {a, b, c, s1}
    Principal = {p, q}
    Scope = {app, org}
    Role = {admin}
    Admin = admin
    Event = {e1}
    Actor = {x}
    Time = {1, 2}
    None = None
SYMMETRY Symmetric
INVARIANTS
    SingleInstanceNeverEmpty
    ViewHeals
    HostIndexCovers
