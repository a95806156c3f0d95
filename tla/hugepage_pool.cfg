SPECIFICATION PoolSpec
CONSTANTS
    v1 = v1
    v2 = v2
    v3 = v3
    Vm = {v1, v2, v3}
    Need <- SmallNeed
    Mem = 4
    MarkerRemovable = TRUE
    MaxCrashes = 1
INVARIANTS
    PoolTypeOK
    PoolDrained
PROPERTIES
    ForeignMountKept
