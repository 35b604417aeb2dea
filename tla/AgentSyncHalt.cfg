SPECIFICATION Spec
CONSTANTS
  k1 = k1
  k2 = k2
  k3 = k3
  v1 = v1
  v2 = v2
  Threads = {"heartbeat", "snapshot", "sender"}
  Keys <- MCKeys
  Versions <- MCVersions
  Listings <- MCListings
  Absent = Absent
  NoSnapshot = NoSnapshot
  Nobody = Nobody
  Faults = {"invalid"}
  MaxFaults = 1
INVARIANTS
  HaltIsHandled
CHECK_DEADLOCK FALSE
