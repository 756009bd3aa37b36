CONSTANTS
  MaxTime = 2
  None = None
  Quotes = {q1}
  r1 = r1
  r2 = r2
  Revisions <- TwoRevisions
  l1 = l1
  l2 = l2
  l3 = l3
  Lines <- ThreeLines
  Offers <- TwoOffers
  n1 = n1
  n2 = n2
  Numbers <- TwoNumbers
  Validities = {0, 1}
  FreshLines = TRUE
  MaxMinor = 4
  o1 = o1
  o2 = o2
  OrderIds <- TwoOrders
  OrderLineIds <- ThreeLines
  Answers <- OneAnswer
  Quoted <- QuotedPrices
  Promises = {0}
SPECIFICATION SalesSpec
SYMMETRY Interchangeable
PROPERTIES
  QuotesStand
  BargainHonoured
CHECK_DEADLOCK FALSE
