--------------------------- MODULE HonouredBargain ---------------------------
(***************************************************************************)
(* What quoting and ordering promise a customer: once an offer is agreed,  *)
(* what was agreed never changes, and it is ordered at most once, as it    *)
(* was agreed.                                                             *)
(***************************************************************************)
CONSTANTS Quotes, Bargains, None

VARIABLES
  bargain,   \* what was agreed for each quotation, or None
  honoured   \* what each of the orders made of it carries

Agree(q) ==
  /\ bargain[q] = None
  /\ \E b \in Bargains : bargain' = [bargain EXCEPT ![q] = b]
  /\ UNCHANGED honoured

Honour(q) ==
  /\ bargain[q] # None
  /\ honoured[q] = {}
  /\ honoured' = [honoured EXCEPT ![q] = {bargain[q]}]
  /\ UNCHANGED bargain

Init ==
  /\ bargain = [q \in Quotes |-> None]
  /\ honoured = [q \in Quotes |-> {}]

Next == \E q \in Quotes : Agree(q) \/ Honour(q)

Spec == Init /\ [][Next]_<<bargain, honoured>>
=============================================================================
