CONSTANTS
    sA = sA
    sB = sB
    gX = gX
    Tenants = {t1, t2}
    SpecTenant <- MCSpecTenant
    Services = {sA}
    NamespaceOf <- MCNamespaceOf
    Storages = {}
    StorageName <- MCStorageName
    Local = Local
    Default = Default
    NoLabel = NoLabel
    None = None
    Absent = Absent
    Labelings <- SharedOrOwn
    Cap = 2
    MaxSlot = 0
    MaxUserOps = 2
    MaxFailures = 0
    MaxStale = 1
SPECIFICATION FairSpec
INVARIANTS TypeOK ExclusiveIsolation Settled
PROPERTIES UnboundBeforeRelease Quiesces
\* Once the users have stopped, the controllers come to rest.
CHECK_DEADLOCK FALSE
