--------------------------- MODULE MCReceivables ---------------------------
(* Three invoices are the fewest for a replacement that is itself replaced *)
(* or discarded and tried again.  Two payments can compete for one         *)
(* invoice, and two allocations for one payment.  The two ranges let two   *)
(* devices hold blocks, or one device two, that end and go on.             *)
EXTENDS Receivables, TLC

CONSTANTS i1, i2, i3, d1, d2, b1, b2, p1, p2, x1, x2, a1, l1

AllLines == Invoices \X Slots
OneTwo == {[first |-> 1, last |-> 2]}
SomeRanges == {[first |-> 1, last |-> 1], [first |-> 2, last |-> 3]}
Interchangeable == Permutations({i1, i2, i3}) \cup Permutations({x1, x2}) \cup Permutations({p1, p2})
InterchangeableDevices == Permutations({i1, i2, i3}) \cup Permutations({d1, d2}) \cup Permutations({b1, b2})

(* A restatement changes the rate; the cap is reached by one invoice.      *)
AgreedTerms ==
  {[product |-> "p1", rate |-> 1, cap |-> 2, reason |-> FALSE],
   [product |-> "p1", rate |-> 2, cap |-> 2, reason |-> FALSE]}
OnePeriod == {[from |-> 1, until |-> 0]}
=============================================================================
