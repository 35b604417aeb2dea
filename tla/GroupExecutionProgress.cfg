SPECIFICATION FairSpec
CONSTANTS
  d1 = d1
  d2 = d2
  d3 = d3
  Details = {d1, d2, d3}
  SequenceOf <- TwoSequences
  MaxContexts = 1
  Faults = {"misfire", "unclassified"}
  MaxFaults = 2
INVARIANTS
  SlotsMatchWork
  ErrorStopEndsContext
PROPERTIES
  GroupEnds
CHECK_DEADLOCK FALSE
