\* Two commits and two versions; a name of the three still to be reserved.
SPECIFICATION Spec
CONSTANTS
    Package = {"contracts", "storage", "admin"}
    Named = {1, 2}
    Version = {1}
    Commit = {c1, c2}
    Text = {x, y}
    Reserved = {"contracts", "storage"}
    MaxBuilds = 2
    MaxFaults = 1
    None = None
INVARIANTS Installable
PROPERTIES PublishesIntoItsOwnRelease RerunCompletes
CHECK_DEADLOCK FALSE
