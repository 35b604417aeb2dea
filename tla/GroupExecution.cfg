SPECIFICATION Spec
CONSTANTS
  d1 = d1
  d2 = d2
  d3 = d3
  Details = {d1, d2, d3}
  SequenceOf <- TwoSequences
  MaxContexts = 2
  Faults = {"misfire", "failure", "lost", "unclassified"}
  MaxFaults = 1
INVARIANTS
  TypeOK
  SequenceBarrier
  ContextsDoNotOverlap
PROPERTIES
  RunsOnce
  ImplementsRuns
SYMMETRY Symmetry
CHECK_DEADLOCK FALSE
