\* Liveness, without symmetry, and the implementation of RoleLifecycle.
SPECIFICATION FairSpec
CONSTANTS
    Client = {c1, c2}
    Id = {a, b}
    Principal = {p}
    Scope = {app}
    Role = {admin}
    Event = {e1}
    Actor = {x}
    Time = {1, 2}
    None = None
PROPERTIES
    CallsAnswered
    RefinesLifecycle
