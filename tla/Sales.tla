-------------------------------- MODULE Sales --------------------------------
(***************************************************************************)
(* From an offer to an order: quotations and orders in one store, with the *)
(* workflow that carries the lines of an accepted offer over,              *)
(* workflows/quote_to_order.cpp.  A workflow is one transaction, so it is  *)
(* one action.                                                             *)
(***************************************************************************)
EXTENDS Quotations, Orders

salesVars == <<quotationVars, orderVars, now>>

(* copy_price_origin: what was agreed or changed by hand is an override    *)
(* with a reason; a catalog price keeps its source and has none.           *)
CopiedPrice(offer) ==
  [found |-> TRUE, product |-> offer.product, amount |-> offer.amount,
   source |-> CASE offer.origin = "catalog" -> "default"
                [] offer.origin = "party" -> "party_rate"
                [] OTHER -> "none",
   overridden |-> offer.origin \notin {"catalog", "party"},
   reason |-> CASE offer.origin \in {"catalog", "party"} -> ""
                [] offer.origin = "agreement" -> "agreement"
                [] offer.origin = "manual" -> offer.reason
                [] OTHER -> IF offer.reason = "" THEN "off-catalog" ELSE offer.reason]

(* An order as conversions make them, and orders taken directly.           *)
SoldRows ==
  [state : {"open", "cancelled"}, source : Revisions \cup {None}, promised : Promises]

Bargains == SUBSET (Lines \X {CopiedPrice(offer) : offer \in Offers})

ASSUME SalesAssumption ==
  /\ Lines \subseteq OrderLineIds
  /\ {CopiedPrice(offer) : offer \in Offers} \subseteq Quoted
  /\ None \notin SoldRows /\ \A b \in Bargains : b # None

LinesTotal(o) ==
  LET carried == {l \in OrderLineIds : line'[l] # None /\ line'[l].of = o}
  IN  SumOver([l \in carried |-> line'[l].price.amount], carried)

QuoteToOrderAgain(o, q, promised) ==
  /\ quote[q] # None /\ quote[q].state = "accepted"
  /\ \E r \in RevisionNumbered(q, quote[q].accepted) :
       /\ revision[r].issued
       /\ LinesForRevision(r) # {}
       /\ RevisionTotal(OffersOf(r)) = revision[r].total
       /\ order[o] = None
       /\ order' = [order EXCEPT ![o] = [state |-> "open", source |-> r, promised |-> promised]]
       /\ line' = [l \in OrderLineIds |->
            IF l \in LinesForRevision(r)
            THEN [of |-> o, price |-> CopiedPrice(offered[l].offer)] ELSE line[l]]
       /\ LinesTotal(o) = revision[r].total
  /\ UNCHANGED <<quotationVars, now>>

(* quote_to_order.                                                         *)
QuoteToOrder(o, q, promised) ==
  /\ quote[q] # None /\ quote[q].state = "accepted"
  /\ \E r \in RevisionNumbered(q, quote[q].accepted) :
       /\ revision[r].issued
       /\ LinesForRevision(r) # {}
       /\ RevisionTotal(OffersOf(r)) = revision[r].total
       /\ order[o] = None
       /\ OrderForRevision(r) = {}
       /\ \A l \in LinesForRevision(r) : line[l] = None
       /\ \A l \in LinesForRevision(r) : ValidPrice(CopiedPrice(offered[l].offer))
       /\ order' = [order EXCEPT ![o] = [state |-> "open", source |-> r, promised |-> promised]]
       /\ line' = [l \in OrderLineIds |->
            IF l \in LinesForRevision(r)
            THEN [of |-> o, price |-> CopiedPrice(offered[l].offer)] ELSE line[l]]
       /\ LinesTotal(o) = revision[r].total
  /\ UNCHANGED <<quotationVars, now>>

SalesInit == ClockInit /\ QuotationInit /\ OrderInit

SalesNext ==
  \/ SetClock /\ UNCHANGED <<quotationVars, orderVars>>
  \/ QuotationNext /\ UNCHANGED <<orderVars, now>>
  \/ OrderNext /\ UNCHANGED <<quotationVars, now>>
  \/ \E o \in OrderIds, q \in Quotes, promised \in Promises : QuoteToOrder(o, q, promised)

SalesSpec == SalesInit /\ [][SalesNext]_salesVars

-----------------------------------------------------------------------------
(* Every row is one the tables can hold.                                   *)
SalesTypeOK ==
  /\ quote \in [Quotes -> QuotationRows \cup {None}]
  /\ revision \in [Revisions -> RevisionRows \cup {None}]
  /\ offered \in [Lines -> LineRows \cup {None}]
  /\ order \in [OrderIds -> SoldRows \cup {None}]
  /\ line \in [OrderLineIds -> OrderLineRows \cup {None}]
  /\ now \in 1..MaxTime

(* A quotation's revisions are numbered without a gap, only the last may   *)
(* be a draft and is one exactly while the quotation is, and what is       *)
(* accepted was issued and had not lapsed when it was accepted, whatever   *)
(* revisions and changes of clock came between; no number is on two        *)
(* revisions, and every total is that of its lines                         *)
(* (quotations_service.cpp, revise, issue and accept).                     *)
StackStands ==
  /\ \A q \in Quotes : quote[q] # None =>
       /\ {revision[r].revision : r \in RevisionsOf(q)} = 1..quote[q].current
       /\ Cardinality(RevisionsOf(q)) = quote[q].current
       /\ \A r \in RevisionsOf(q) : revision[r].revision < quote[q].current => revision[r].issued
       /\ quote[q].state = "draft" => ~revision[LatestRevision(q)].issued
       /\ quote[q].state \in {"issued", "accepted"} => revision[LatestRevision(q)].issued
       /\ quote[q].state = "accepted" =>
            \E r \in RevisionNumbered(q, quote[q].accepted) :
              revision[r].issued /\ (revision[r].valid > 0 => quote[q].settled <= revision[r].valid)
  /\ \A r, other \in Revisions :
       revision[r] # None /\ revision[other] # None /\ revision[r].number = revision[other].number
         => r = other \/ revision[r].number = None
  /\ \A r \in Revisions : revision[r] # None => revision[r].total = RevisionTotal(OffersOf(r))

(* An issued revision and the lines under it are never changed: the        *)
(* customer holds them on paper (quotation.hpp, QuotationRevision).        *)
IssuedKept ==
  \A r \in Revisions :
    revision[r] # None /\ revision[r].issued =>
      /\ revision'[r] = revision[r]
      /\ LinesForRevision(r)' = LinesForRevision(r)
      /\ \A l \in LinesForRevision(r) : offered'[l] = offered[l]

IssuedIsFrozen == [][IssuedKept]_salesVars

AcceptedRevision(q) ==
  CHOOSE r \in RevisionsOf(q) : revision[r].revision = quote[q].accepted

PricesOf(r) == {<<l, CopiedPrice(offered[l].offer)>> : l \in LinesForRevision(r)}

PricesOrdered(o, r) ==
  {<<l, line[l].price>> :
     l \in {x \in LinesForRevision(r) : line[x] # None /\ line[x].of = o}}

Bargain(q) ==
  IF quote[q] = None THEN None
  ELSE IF quote[q].state # "accepted" THEN None ELSE PricesOf(AcceptedRevision(q))

Honoured(q) ==
  IF Bargain(q) = None THEN {}
  ELSE LET r == AcceptedRevision(q) IN {PricesOrdered(o, r) : o \in OrderForRevision(r)}

B == INSTANCE HonouredBargain WITH
       Bargains <- Bargains,
       bargain <- [q \in Quotes |-> Bargain(q)],
       honoured <- [q \in Quotes |-> Honoured(q)]

(* What was agreed is what is ordered, once: quotations and orders         *)
(* implement HonouredBargain, where the bargain of an accepted quotation   *)
(* is the priced lines of its revision, and it is honoured by the lines of *)
(* these that an order made from it carries, to which others may be added. *)
BargainHonoured == B!Spec

(* A quotation stands as a stack of revisions of which what was issued is  *)
(* frozen (quotations_service.cpp, revise and issue).                      *)
QuotesStand == [](SalesTypeOK /\ StackStands) /\ IssuedIsFrozen
=============================================================================
