---------------------------- MODULE MCAgreements ----------------------------
(* Three agreements can form a chain and a loop of two or of three, each   *)
(* with a line of its own; a line may be capped at one or at two, may be   *)
(* past its cap with a reason, and may be for another product.  Every      *)
(* agreement has lapsed at the second moment.                              *)
EXTENDS Agreements, TLC

CONSTANTS a1, a2, a3, l1, l2, l3, x1

T(p, cap, reason) == [product |-> p, rate |-> 1, cap |-> cap, reason |-> reason]
SomeTerms == {T("p1", 2, FALSE), T("p1", 1, TRUE), T("p2", 1, FALSE)}
OnePeriod == {[from |-> 1, until |-> 1]}
Interchangeable == Permutations({a1, a2, a3}) \cup Permutations({l1, l2, l3})
=============================================================================
