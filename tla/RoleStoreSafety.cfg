\* Two callers over two ids, principals, roles and events: ids used in two
\* places, tuples raced by two ids, commands that differ in their evidence.
SPECIFICATION Spec
CONSTANTS
    Client = {c1, c2}
    Id = {a, b}
    Principal = {p, q}
    Scope = {app}
    Role = {admin, viewer}
    Event = {e1, e2}
    Actor = {x}
    Time = {1}
    None = None
SYMMETRY Symmetric
INVARIANTS
    OneActivePerTuple
    SingleWinner
    RefusalNeedsCompetitor
    LifecycleLocated
    NeverCorrupt
    IInv
    AuditMatchesLifecycle
    GrantRepliesTruthful
    RevokeRepliesTruthful
PROPERTIES
    LifecycleIrreversible
    RevocationIsTheCallers
