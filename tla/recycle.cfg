CONSTANTS
    sA = sA
    sB = sB
    gX = gX
    Tenants = {t1}
    SpecTenant <- MCSpecTenant
    Services = {sA}
    NamespaceOf <- MCNamespaceOf
    Storages = {}
    StorageName <- MCStorageName
    Local = Local
    Default = Default
    NoLabel = NoLabel
    None = None
    Absent = Absent
    Labelings <- SharedOrOwn
    Cap = 1
    MaxSlot = 1
    MaxUserOps = 4
    MaxFailures = 0
    MaxStale = 0
SPECIFICATION Spec
PROPERTY RecycleOnlyUnused
\* Once the users have stopped, the controllers come to rest.
CHECK_DEADLOCK FALSE
