SPECIFICATION MCSpec
CONSTANTS
  None = None
  Threads = {t1, t2, t3}
  Readers = {q1}
  MaxTickets = 3
  Tables = {"t"}
  Keys <- TwoKeys
  Columns = {"c", "d"}
  Cells <- CellsOf
  Inputs <- SomeInputs
  Byte <- Letters
  Lower <- Small
  Queries <- Asks
  Builds <- ThreeBuilds
  MostRuns = 4
INVARIANTS
  NewerRefused
CHECK_DEADLOCK FALSE
