CONSTANTS
    v0 = v0
    v1 = v1
    a = a
    b = b
    u = u
    Vids = {v0, v1}
    Tags = {a, b, u}
    Universal = u
    InitialTags <- MCInitialTags
    MaxOps = 3

SPECIFICATION InvSpec

INVARIANTS
    RecoveryInv
    RecoveryExact
    QueriesExact

PROPERTIES
    ImplementsFilter
