\* A restored checkpoint that does not open is refused and stays.
CONSTANTS
    w1 = w1
    w2 = w2
    w3 = w3
    r1 = r1
    i1 = i1
    i2 = i2
    t1 = t1
    t2 = t2
    Tenants = {t1, t2}
    Reads = {}
    Writes = {w1}
    Imports = {i1, i2}
    TenantOf <- MCTenantOf
    NoRequest = NoRequest
    QueueCapacity = 1
    MaxEngines = 1
    MaxDrops = 0
    MaxPanics = 0
SPECIFICATION Spec
INVARIANTS
    RefusedImportLeavesNothing
CHECK_DEADLOCK FALSE
