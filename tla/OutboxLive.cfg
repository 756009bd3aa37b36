SPECIFICATION FairSpec
CONSTANTS
  k1 = k1
  k2 = k2
  k3 = k3
  r1 = r1
  r2 = r2
  Keys <- MCKeys
  Records <- MCRecords
  RecordOf <- MCRecordOf
  GiveUp = 2
  Batches <- OneOnly
  Troubles <- CrashesAndResends
  MaxTrouble = 1
PROPERTIES
  EveryChangeSettles
CHECK_DEADLOCK FALSE
