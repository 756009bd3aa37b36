SPECIFICATION Spec
CONSTANTS
  i1 = i1
  i2 = i2
  i3 = i3
  d1 = d1
  d2 = d2
  b1 = b1
  b2 = b2
  p1 = p1
  p2 = p2
  x1 = x1
  x2 = x2
  a1 = a1
  l1 = l1
  None = None
  Invoices = {i1, i2, i3}
  Slots = {1}
  Rates = {1}
  Devices = {d1}
  Blocks = {b1}
  Ranges <- OneTwo
  Payments = {p1, p2}
  Allocations = {x1, x2}
  Amounts = {1, 2}
  Agreements = {}
  AgreementLines = {}
  InvoiceLines <- AllLines
  Terms = {}
  Quantities = {2}
  Periods = {}
  FreshLines = TRUE
  MaxTime = 2
SYMMETRY Interchangeable
INVARIANTS
  MoneyConserved
  StatementsReconcile
PROPERTIES
  InvoicesStand
CHECK_DEADLOCK FALSE
