CONSTANTS
    sA = sA
    sB = sB
    gX = gX
    Tenants = {t1}
    SpecTenant <- MCSpecTenant
    Services = {sA}
    NamespaceOf <- MCNamespaceOf
    Storages = {gX}
    StorageName <- MCStorageName
    Local = Local
    Default = Default
    NoLabel = NoLabel
    None = None
    Absent = Absent
    Labelings <- Unlabelled
    Cap = 1
    MaxSlot = 1
    MaxUserOps = 2
    MaxFailures = 0
    MaxStale = 0
SPECIFICATION Spec
INVARIANT DefaultStorageFollowed
\* Once the users have stopped, the controllers come to rest.
CHECK_DEADLOCK FALSE
