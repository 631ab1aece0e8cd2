CONSTANTS
  Tenants = {"t1", "t2"}
  Services = {"s1", "s2"}
  NoService = NoService
  Storages = {"st1"}
  Local = "local"
  Default = "default"
  Labelings <- MCLabelings
  ServiceStorages = {"st1", "local"}
  FirstStorage <- MCFirstStorage
  MaxNames = 3
  None = None
  Absent = Absent
  MaxUserOps = 1
  MaxFailures = 1
  MaxStale = 1
SPECIFICATION FairSpec
INVARIANTS TypeOK Kept
PROPERTIES Arrives
CHECK_DEADLOCK FALSE
