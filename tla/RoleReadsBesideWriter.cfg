\* Every read against a writer: two ids over two principals, some of them
\* granted by an earlier release.
SPECIFICATION ReadSpec
CONSTANTS
    Client = {c1}
    OldId = {a, b}
    Reader = {r1}
    Op = {"active", "history", "byrole", "rebuild", "get", "audit"}
    Id = {a, b}
    Principal = {p, q}
    Scope = {app}
    Role = {admin}
    Event = {e1}
    Actor = {x}
    Time = {1}
    None = None
SYMMETRY Symmetric
INVARIANTS
    RoleReportedOnce
    RevokedBeforeIsAbsent
    HistoryIsComplete
    RetryIsEarned
    ActiveThroughoutIsReported
    ListingsNeverCorrupt
    RebuildCovers
    PointReadIsCurrent
