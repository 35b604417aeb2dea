SPECIFICATION Spec
CONSTANTS
  d1 = d1
  d2 = d2
  d3 = d3
  Details = {d1, d2, d3}
  SequenceOf <- TwoSequences
  MaxContexts = 1
  Faults = {"lost"}
  MaxFaults = 1
INVARIANTS
  ErrorStopEndsContext
CHECK_DEADLOCK FALSE
