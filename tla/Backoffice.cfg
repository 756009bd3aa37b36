CONSTANTS
  MaxTime = 2
  None = None
  OrderIds = {o1}
  r1 = r1
  r2 = r2
  OrderLineIds <- TwoRows
  Answers <- OneAnswer
  Quoted = {}
  Promises = {0}
  c1 = c1
  c2 = c2
  Conversions <- TwoRequests
  JobIds <- AllJobs
  SourceOrders = {o1, o2}
  SourceLines <- TwoRows
  t1 = t1
  t2 = t2
  Tickets <- TwoTickets
  Stages <- TwoStages
  MaxJobs = 2
  Products = {p1}
  Parties <- TwoRows
  RateIds = {1, 2}
  OverrideIds = {1, 2}
  PricedLines = {x1}
  Prices = {1}
  Suppliers = {s1}
  Materials = {m1, m2}
  Names = {N1, N2}
  Purchases = {u1, u2}
  Tasks <- TwoRows
  e1 = e1
  e2 = e2
  e3 = e3
  Keys <- ThreeKeys
  SourceKeys = {z1}
  MonthDays <- ShortMonths
  MaxCount = 2
  Parts = {"work", "pricing", "sourcing", "companion"}
SPECIFICATION BackofficeSpec
SYMMETRY Interchangeable
INVARIANTS
  PricesResolve
  LedgersTell
PROPERTIES
  WorkStands
CHECK_DEADLOCK FALSE
