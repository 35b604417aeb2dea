SPECIFICATION FairSpec
CONSTANTS
  d1 = d1
  d2 = d2
  d3 = d3
  Details = {d1, d2, d3}
  SequenceOf <- TwoSequences
  MaxContexts = 1
  Faults = {}
  MaxFaults = 0
PROPERTIES
  ActiveIsRegistered
CHECK_DEADLOCK FALSE
