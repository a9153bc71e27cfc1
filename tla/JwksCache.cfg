\* Two verifiers whose ages differ, an endpoint that rotates two keys, fetches
\* that outlast an age and a cooldown.
SPECIFICATION Spec
CONSTANTS
    Kid = {k1, k2}
    Verifier = {v1, v2}
    Age = {1, 2}
    Cooldown = 2
    Last = 4
    None = None
SYMMETRY Symmetric
INVARIANTS
    HeldSetIsYoung
PROPERTIES
    UnknownKidsSpaced
    DeadDomainIsSilent
CHECK_DEADLOCK FALSE
