CONSTANTS
    sA = sA
    sB = sB
    gX = gX
    Tenants = {t1, t2}
    SpecTenant <- MCSpecTenant
    Services = {sA, sB}
    NamespaceOf <- MCNamespaceOf
    Storages = {gX}
    StorageName <- MCStorageName
    Local = Local
    Default = Default
    NoLabel = NoLabel
    None = None
    Absent = Absent
    Labelings <- AnyPlacement
    Cap = 1
    MaxSlot = 1
    MaxUserOps = 3
    MaxFailures = 1
    MaxStale = 0
SPECIFICATION FairSpec
INVARIANT Capacity
PROPERTY Reclaimed
\* Once the users have stopped, the controllers come to rest.
CHECK_DEADLOCK FALSE
