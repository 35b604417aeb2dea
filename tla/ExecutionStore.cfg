SPECIFICATION FairSpec
CONSTANTS
  d1 = d1
  Manuals = {m1}
  Details = {d1}
  Devices = {devA, devB}
  MaxExecutions = 2
  StatusChoices = {"active"}
  None = None
  ManualDetail <- MCManualDetail
INVARIANTS
  TypeOK
  CompletionMatchesLog
  RefusedIsNeverLogged
PROPERTIES
  ErrorStopOnlyOnce
  NoClaimHoldsForever
  ImplementsLease
CHECK_DEADLOCK FALSE
