SPECIFICATION FairSpec
CONSTANTS
  k1 = k1
  k2 = k2
  k3 = k3
  v1 = v1
  v2 = v2
  Threads = {"heartbeat", "snapshot"}
  Keys <- MCKeys
  Versions <- MCVersions
  Listings <- MCListings
  Absent = Absent
  NoSnapshot = NoSnapshot
  Nobody = Nobody
  Faults = {"lost", "invalid", "identity", "credential_persist_failed", "mutation", "restore"}
  MaxFaults = 2
INVARIANTS
  TypeOK
  JobsMatchSnapshot
PROPERTIES
  SyncConverges
CHECK_DEADLOCK FALSE
