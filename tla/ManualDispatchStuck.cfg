SPECIFICATION FairSpec
CONSTANTS
  m1 = m1
  m2 = m2
  c1 = c1
  c2 = c2
  c3 = c3
  Manuals = {m1}
  Claims = {c1, c2}
  NoClaim = NoClaim
  NoSnapshot = NoSnapshot
  Capacity = 1
  Faults = {"busy"}
  MaxFaults = 1
  MaxEdits = 0
PROPERTIES
  WaitingIsClaimed
CHECK_DEADLOCK FALSE
