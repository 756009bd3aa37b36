------------------------------ MODULE MCOutbox ------------------------------
(* The smallest interesting queue: two changes to one record, whose order  *)
(* matters, and one to another record, which must not wait for them.       *)
EXTENDS Outbox, TLC

CONSTANTS k1, k2, k3, r1, r2

MCKeys == {k1, k2, k3}
MCRecords == {r1, r2}
MCRecordOf == [k \in MCKeys |-> IF k = k3 THEN r2 ELSE r1]
OneOrTwo == {1, 2}
OneOnly == {1}

AllTroubles == {"crash", "refusal", "resend"}
CrashesAndResends == {"crash", "resend"}

(* The two changes to r1 are interchangeable until one of them is made.    *)
SameRecord == Permutations({k1, k2})
=============================================================================
