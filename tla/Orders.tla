------------------------------- MODULE Orders -------------------------------
(***************************************************************************)
(* Orders: modules/orders (service, domain, data).  An order is open or    *)
(* cancelled; a line is priced once, when it is added, by what pricing     *)
(* answers at that moment (module Pricing), and never asked again.         *)
(*                                                                         *)
(* There is one customer; positions, texts and people are left out.        *)
(***************************************************************************)
EXTENDS ShopClock, FiniteSets

CONSTANTS
  OrderIds,     \* identities of orders
  OrderLineIds, \* identities of order lines
  Answers,      \* answers of pricing: [found, amount, source, overridden, reason]
  Quoted,       \* what a converted line may cost: the same record with found TRUE
  Promises      \* promised dates; 0 is none

OrderLineRows == [of : OrderIds, price : Answers \cup Quoted]

ASSUME OrderAssumption ==
  /\ Answers \cup Quoted \subseteq
       [found : BOOLEAN, product : BOOLEAN, amount : Nat, source : STRING,
        overridden : BOOLEAN, reason : STRING]
  /\ Promises \subseteq Nat
  /\ None \notin OrderIds \cup OrderLineIds \cup OrderLineRows

VARIABLES
  order,  \* the table order: [state, source, promised]
  line    \* the table order_line: [of, price]

orderVars == <<order, line>>

OrderRows == [state : {"open", "cancelled"}, promised : Promises, source : STRING \cup {None}]

(* validate(OrderLine): a price has an origin, and a reason exactly when   *)
(* it was changed by hand.                                                 *)
ValidPrice(price) ==
  /\ price.source = "none" => price.overridden
  /\ price.overridden <=> price.reason # ""

IsOpen(o) == order[o] # None /\ order[o].state = "open"

LinesForOrder(o) == {l \in OrderLineIds : line[l] # None /\ line[l].of = o}

OrderForRevision(r) == {o \in OrderIds : order[o] # None /\ order[o].source = r}

CreateOrder(o, promised) ==
  /\ order[o] = None
  /\ order' = [order EXCEPT ![o] = [state |-> "open", source |-> None, promised |-> promised]]
  /\ UNCHANGED line

UpdateOrder(o, promised) ==
  /\ IsOpen(o)
  /\ order' = [order EXCEPT ![o].promised = promised]
  /\ UNCHANGED line

AddLine(o, l, answer) ==
  /\ IsOpen(o)
  /\ line[l] = None
  /\ answer.found
  /\ ValidPrice(answer)
  /\ line' = [line EXCEPT ![l] = [of |-> o, price |-> answer]]
  /\ UNCHANGED order

CancelOrder(o) ==
  /\ IsOpen(o)
  /\ order' = [order EXCEPT ![o].state = "cancelled"]
  /\ UNCHANGED line

OrderInit ==
  /\ order = [o \in OrderIds |-> None]
  /\ line = [l \in OrderLineIds |-> None]

OrderNext ==
  \E o \in OrderIds :
    \/ \E promised \in Promises : CreateOrder(o, promised) \/ UpdateOrder(o, promised)
    \/ \E l \in OrderLineIds, answer \in Answers : AddLine(o, l, answer)
    \/ CancelOrder(o)
=============================================================================
