------------------------------- MODULE MCSales -------------------------------
(* One quotation with two revisions and three lines, which two orders, or  *)
(* direct order lines of the same identities, contend for.                 *)
EXTENDS Sales, TLC

CONSTANTS l1, l2, l3, r1, r2, n1, n2, o1, o2

ThreeLines == {l1, l2, l3}
TwoRevisions == {r1, r2}
TwoNumbers == {n1, n2}
TwoOrders == {o1, o2}

TwoOffers ==
  {[amount |-> 1, product |-> TRUE, origin |-> "catalog", reason |-> ""],
   [amount |-> 2, product |-> TRUE, origin |-> "manual", reason |-> "asked"]}

OneAnswer ==
  {[found |-> TRUE, product |-> TRUE, amount |-> 1, source |-> "default",
    overridden |-> FALSE, reason |-> ""]}

QuotedPrices == {CopiedPrice(offer) : offer \in TwoOffers}

Interchangeable ==
  UNION {Permutations(ids) : ids \in 
    {ThreeLines, TwoRevisions, TwoNumbers, TwoOrders}}
=============================================================================
