SPECIFICATION FairSpec
CONSTANTS
  Channels = {heartbeat, sender}
  Tokens = {c1, c2, c3, c4, c5}
  Enrollments = {e1, e2}
  NoFile = NoFile
  Corrupt = Corrupt
  NoToken = NoToken
  Nobody = Nobody
  heartbeat = heartbeat sender = sender
  c1 = c1 c2 = c2 c3 = c3 c4 = c4 c5 = c5 e1 = e1 e2 = e2
  Faults <- AllFaults
  MaxFaults = 1
INVARIANTS
  TypeOK
  UsableIsStored
  LiveIsStored
PROPERTIES
  DiscardOnlyDead
  RotatesOnlyWhenStale
  AccessRegained
CHECK_DEADLOCK FALSE
