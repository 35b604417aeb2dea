SPECIFICATION Spec
CONSTANTS
  NoRow = NoRow
  Groups = {1, 2}
  Details = {1, 2, 3}
  Low = 0
  High = 59
  TriggerHigh = 59
  GroupForms <- TheGroupForms
  TaskForms <- TheTaskForms
  Stored <- TheStored
  MaxEdits = 2
INVARIANTS
  TypeOK
  NeverInconsistent
  TakenAsListed
  RefusedForCause
