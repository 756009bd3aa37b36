SPECIFICATION Spec
CONSTANTS
  k1 = k1
  k2 = k2
  k3 = k3
  r1 = r1
  r2 = r2
  Keys <- MCKeys
  Records <- MCRecords
  RecordOf <- MCRecordOf
  GiveUp = 2
  Batches <- OneOrTwo
  Troubles <- AllTroubles
  MaxTrouble = 2
SYMMETRY SameRecord
INVARIANTS
  NoOvertaking
  NoChangeLost
PROPERTIES
  DeliveredInOrder
CHECK_DEADLOCK FALSE
