SPECIFICATION Spec
CONSTANTS
  i1 = i1
  i2 = i2
  i3 = i3
  d1 = d1
  d2 = d2
  b1 = b1
  b2 = b2
  p1 = p1
  p2 = p2
  x1 = x1
  x2 = x2
  a1 = a1
  l1 = l1
  None = None
  Invoices = {i1, i2, i3}
  Slots = {1, 2}
  Rates = {1}
  Devices = {d1, d2}
  Blocks = {b1, b2}
  Ranges <- SomeRanges
  Payments = {}
  Allocations = {}
  Amounts = {}
  Agreements = {a1}
  AgreementLines = {l1}
  InvoiceLines <- AllLines
  Terms <- AgreedTerms
  Quantities = {1}
  Periods <- OnePeriod
  FreshLines = TRUE
  MaxTime = 1
SYMMETRY InterchangeableDevices
INVARIANTS
  NumbersGapless
  UsageAccounted
CHECK_DEADLOCK FALSE
