SPECIFICATION Spec
CONSTANTS
  Writers = 3
  Suite <- AllCases
  Deviations <- AssertedOn
  Unasserted <- NotAsserted
INVARIANTS
  TypeOK
  NoFalseAlarm
  DeviationsAreCaught
  OneWriterStores
CHECK_DEADLOCK FALSE
