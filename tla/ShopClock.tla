------------------------------ MODULE ShopClock ------------------------------
(***************************************************************************)
(* The wall clock every service is constructed with (Clock clock_), in     *)
(* whole moments.  It is the machine's clock, so it may be set back.       *)
(***************************************************************************)
EXTENDS Integers

CONSTANTS
  MaxTime,  \* bound on the clock
  None      \* no row, or an empty reference

ASSUME ClockAssumption == MaxTime \in Nat \ {0}

VARIABLE now

ClockInit == now = 1

SetClock == \E t \in 1..MaxTime : now # t /\ now' = t
=============================================================================
