\* Two principals, one of them an administrator from the start.
SPECIFICATION Spec
CONSTANTS
    Principal = {p, q}
    Role = {"administrator"}
    Scope = {"application", "organization"}
    Id = {i1, i2}
    Key = {k1, k2}
    Feature = {"feature"}
    Application = "application"
    Manage = "manage"
    Guarded = "read"
    Seed = seed
    Founder = p
    Admin = "administrator"
    Subscriber = {q}
    Input <- MCInput
    Request = {r1, r2}
    Last = 2
    None = None
    Defaults = {}
    RolePermissions <- MCRolePermissions
    EntitlementPermissions <- MCEntitlementPermissions
    FeatureEntitlements <- MCFeatureEntitlements
    MaxStateAge = 1
SYMMETRY Symmetric
INVARIANTS OneLifecyclePerKey AllowedWasGranted
CHECK_DEADLOCK FALSE
