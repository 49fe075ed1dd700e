\* Two tenants' requests and an import race for one place in the registry, while
\* a client hangs up and an actor panics.
CONSTANTS
    w1 = w1
    w2 = w2
    w3 = w3
    r1 = r1
    i1 = i1
    i2 = i2
    t1 = t1
    t2 = t2
    Tenants = {t1, t2}
    Reads = {r1}
    Writes = {w1, w3}
    Imports = {i1}
    TenantOf <- MCTenantOf
    NoRequest = NoRequest
    QueueCapacity = 1
    MaxEngines = 1
    MaxDrops = 1
    MaxPanics = 1
SPECIFICATION FairSpec
INVARIANTS
    RegistryIsSound
    RefusedWriteNeverHappens
PROPERTIES
    RestoreHidesNoWrite
    RequestsAreAnswered
CHECK_DEADLOCK FALSE
