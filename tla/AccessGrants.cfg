\* Two ticks to a second, grants of at most two seconds, a source good
\* for just over three seconds: every rounding of the three clocks, to the last tick.
SPECIFICATION Spec
CONSTANTS
    Issuer = {0, 3}
    Session = {s1, s2}
    Jti = {j1}
    Verify = {v1, v2}
    Second = 2
    MaxLifetime = 2
    Offset = 1
    Lifetime = {7}
    Lead = {0, 1, 3}
    Stall = 1
    Start = 2
    Last = 9
    None = None
SYMMETRY Symmetric
INVARIANTS
    GrantDiesWithItsSource
    ConsumedOnce
    IdentifiersAreUnique
PROPERTIES
    DeadClockIssuesNothing
CHECK_DEADLOCK FALSE
