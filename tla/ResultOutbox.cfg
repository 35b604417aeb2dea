SPECIFICATION FairSpec
CONSTANTS
  gA = gA
  Groups = {gA}
  Jobs = {j1, j2}
  JobGroup <- OneGroup
  Workers = {w1, w2}
  Capacity = 2
  High = 2
  Low = 1
  MaxMishaps = 1
  None = None
INVARIANTS
  TypeOK
  SlotAccounting
  NothingLost
  StoredInOrder
  HandedOverOnce
PROPERTIES
  EventuallyAnswered
  ImplementsDelivery
CHECK_DEADLOCK FALSE
