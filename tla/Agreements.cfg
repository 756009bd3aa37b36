SPECIFICATION Spec
CONSTANTS
  a1 = a1
  a2 = a2
  a3 = a3
  l1 = l1
  l2 = l2
  l3 = l3
  x1 = x1
  None = None
  Agreements = {a1, a2, a3}
  AgreementLines = {l1, l2, l3}
  InvoiceLines = {x1}
  Terms <- SomeTerms
  Quantities = {2}
  Periods <- OnePeriod
  FreshLines = TRUE
  MaxTime = 2
SYMMETRY Interchangeable
INVARIANTS
  CapsStand
PROPERTIES
  SupersessionHolds
CHECK_DEADLOCK FALSE
