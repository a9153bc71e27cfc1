\* An audit listing beside a writer.
SPECIFICATION ReadSpec
CONSTANTS
    Client = {c1}
    OldId = {a}
    Reader = {r1}
    Op = {"audit"}
    Id = {a}
    Principal = {p}
    Scope = {app}
    Role = {admin}
    Event = {e1}
    Actor = {x}
    Time = {1}
    None = None
SYMMETRY Symmetric
INVARIANTS
    CorruptMeansCorrupt
