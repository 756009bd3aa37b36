--------------------------- MODULE ChangeDelivery ---------------------------
(***************************************************************************)
(* What the outbox promises to the rest of the program and to the server,  *)
(* with no rows, attempts, timers or messages: changes are made one after  *)
(* another, each is delivered at most once, and a change is delivered only *)
(* when every earlier change to the same record has been delivered or has  *)
(* been given up on.  Changes to different records do not wait for each    *)
(* other.                                                                  *)
(***************************************************************************)
EXTENDS Naturals, Sequences

CONSTANTS Keys,      \* the changes, by idempotency key
          Records,   \* the records they are about
          RecordOf   \* the record each change is about

VARIABLES made,      \* the changes made on this device, in order
          delivered, \* the changes the server has applied
          abandoned  \* the changes taken out of the queue without delivery

vars == <<made, delivered, abandoned>>

Made == {made[i] : i \in DOMAIN made}

(* j was made before k and is about the same record.                       *)
Before(j, k) ==
  /\ RecordOf[j] = RecordOf[k]
  /\ \E a, b \in DOMAIN made : a < b /\ made[a] = j /\ made[b] = k

Init ==
  /\ made = <<>>
  /\ delivered = {}
  /\ abandoned = {}

Make(k) ==
  /\ k \notin Made
  /\ made' = Append(made, k)
  /\ UNCHANGED <<delivered, abandoned>>

(* A change given up on may still arrive: a copy of it may be on the wire. *)
Deliver(k) ==
  /\ k \in Made \ delivered
  /\ \A j \in Keys : Before(j, k) => j \in delivered \cup abandoned
  /\ delivered' = delivered \cup {k}
  /\ abandoned' = abandoned \ {k}
  /\ UNCHANGED made

Abandon(k) ==
  /\ k \in Made \ (delivered \cup abandoned)
  /\ abandoned' = abandoned \cup {k}
  /\ UNCHANGED <<made, delivered>>

Next == \E k \in Keys : Make(k) \/ Deliver(k) \/ Abandon(k)

Spec == Init /\ [][Next]_vars
=============================================================================
