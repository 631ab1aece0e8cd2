CONSTANTS
  Tenants = {"t1", "t2"}
  SpecTenant <- MCSpecTenant
  Services = {"svc"}
  Storages = {"st1", "st2"}
  Local = "local"
  Default = "default"
  Labelings <- MCLabelings
  ServiceStorages = {"st1", "local"}
  None = None
  Unnamed = Unnamed
  Absent = Absent
  Cap = 2
  MaxMade = 3
  MaxUserOps = 3
  MaxFailures = 1
  MaxStale = 1
SPECIFICATION FairSpec
INVARIANTS TypeOK Bound Accounted
PROPERTIES Assigned
CHECK_DEADLOCK FALSE
