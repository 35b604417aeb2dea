SPECIFICATION FairSpec
CONSTANTS
  m1 = m1
  m2 = m2
  c1 = c1
  c2 = c2
  c3 = c3
  Manuals = {m1}
  Claims = {c1, c2, c3}
  NoClaim = NoClaim
  NoSnapshot = NoSnapshot
  Capacity = 1
  Faults = {"busy", "lost", "misfire", "halt"}
  MaxFaults = 2
  MaxEdits = 1
INVARIANTS
  TypeOK
  SlotsMatchWork
  MarkedWasClaimed
  PendingIsManaged
PROPERTIES
  SkippedIsRetried
CHECK_DEADLOCK FALSE
