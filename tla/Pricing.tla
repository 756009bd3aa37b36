------------------------------- MODULE Pricing -------------------------------
(***************************************************************************)
(* Pricing: modules/pricing (service, domain, data).  Rates for a product, *)
(* for one customer or for all, inside a window; a standard price behind   *)
(* them; and changes of one line's price.  Whoever needs a price asks for  *)
(* it inside its own transaction.                                          *)
(***************************************************************************)
EXTENDS ShopClock, FiniteSets, SequencesExt

CONSTANTS
  Products,     \* identities of products
  Parties,      \* identities of customers
  RateIds,      \* identities of rates, which are compared
  OverrideIds,  \* identities of price changes, which are compared
  PricedLines,  \* identities of the lines a price change names
  Prices        \* amounts in minor units that are not absurd

ASSUME PricingAssumption ==
  /\ RateIds \subseteq Nat
  /\ OverrideIds \subseteq Nat
  /\ Prices \subseteq Nat

VARIABLES
  rate,      \* the table rate
  standard,  \* the table default_rate: an amount, or None
  override   \* the table rate_override

pricingVars == <<rate, standard, override>>

RateRows ==
  [id : RateIds, product : Products, party : Parties \cup {None}, amount : Prices,
   from : Nat, until : Nat, created : Nat]

OverrideRows == [id : OverrideIds, line : PricedLines, amount : Prices, applied : Nat]

(* validate(Rate).                                                         *)
ValidRate(row) == row.from # 0 /\ row.until # 0 => row.until > row.from

-----------------------------------------------------------------------------
(* Resolution.                                                             *)

(* How specific a rate is; 0 does not apply.                               *)
Specificity(row, party) ==
  IF row.party = None THEN 1 ELSE IF row.party = party THEN 2 ELSE 0

(* A window open at its end, and 0 for no bound.                           *)
Covers(row, at) ==
  /\ row.from # 0 => at >= row.from
  /\ row.until # 0 => at < row.until

BeatsTied(row, best, party) ==
  LET mine == Specificity(row, party)
      its == Specificity(best, party)
  IN  mine > its \/ (mine = its /\ row.from >= best.from)

Beats(row, best, party) ==
  LET mine == Specificity(row, party)
      its == Specificity(best, party)
  IN  \/ mine > its
      \/ mine = its /\ row.from > best.from
      \/ mine = its /\ row.from = best.from /\ row.created > best.created
      \/ mine = its /\ row.from = best.from /\ row.created = best.created /\ row.id > best.id

(* choose_rate: one pass over the rows as they come, the best so far.      *)
ChooseRate(rows, party, at) ==
  LET best[n \in 0..Len(rows)] ==
        IF n = 0 THEN None
        ELSE IF Specificity(rows[n], party) = 0 \/ ~Covers(rows[n], at) THEN best[n - 1]
        ELSE IF best[n - 1] = None THEN rows[n]
        ELSE IF Beats(rows[n], best[n - 1], party) THEN rows[n] ELSE best[n - 1]
  IN  best[Len(rows)]

RatesForProduct(p) ==
  {rate[r] : r \in {x \in RateIds : rate[x] # None /\ rate[x].product = p}}

(* resolve_rate, with the rows in some order.                              *)
ResolveRate(rows, p, party, at) ==
  LET chosen == ChooseRate(rows, party, at)
  IN  IF chosen # None
      THEN [source |-> IF chosen.party # None THEN "party_rate" ELSE "catch_all",
            amount |-> chosen.amount, id |-> chosen.id]
      ELSE IF standard[p] # None THEN [source |-> "default", amount |-> standard[p], id |-> None]
      ELSE [source |-> "none", amount |-> 0, id |-> None]

(* latest_override_for_line: the last by moment, then by identity.         *)
OverridesForLine(l) == {o \in OverrideIds : override[o] # None /\ override[o].line = l}

LatestOverride(l) ==
  CHOOSE o \in OverridesForLine(l) : \A other \in OverridesForLine(l) :
    \/ override[other].applied < override[o].applied
    \/ override[other].applied = override[o].applied /\ other <= o

EffectivePrice(l, rows, p, party, at) ==
  LET resolved == ResolveRate(rows, p, party, at)
  IN  IF OverridesForLine(l) = {}
      THEN [found |-> resolved.source # "none", amount |-> resolved.amount,
            source |-> resolved.source, overridden |-> FALSE]
      ELSE [found |-> TRUE, amount |-> override[LatestOverride(l)].amount,
            source |-> resolved.source, overridden |-> TRUE]

-----------------------------------------------------------------------------
(* The handlers.                                                           *)

(* A rate may be corrected but not moved to another product; it keeps the  *)
(* moment it was first recorded.                                           *)
SetRate(r, p, party, amount, from, until) ==
  LET row == [id |-> r, product |-> p, party |-> party, amount |-> amount, from |-> from,
              until |-> until, created |-> IF rate[r] = None THEN now ELSE rate[r].created]
  IN  /\ rate[r] # None => rate[r].product = p
      /\ ValidRate(row)
      /\ rate' = [rate EXCEPT ![r] = row]
      /\ UNCHANGED <<standard, override>>

(* Already gone is success.                                                *)
RemoveRate(r) ==
  /\ rate' = [rate EXCEPT ![r] = None]
  /\ UNCHANGED <<standard, override>>

OverrideRate(o, l, amount) ==
  /\ override[o] = None
  /\ override' = [override EXCEPT ![o] =
       [id |-> o, line |-> l, amount |-> amount, applied |-> now]]
  /\ UNCHANGED <<rate, standard>>

SetDefaultRate(p, amount) ==
  /\ standard' = [standard EXCEPT ![p] = amount]
  /\ UNCHANGED <<rate, override>>

PricingInit ==
  /\ rate = [r \in RateIds |-> None]
  /\ standard = [p \in Products |-> None]
  /\ override = [o \in OverrideIds |-> None]

PricingNext ==
  \/ \E r \in RateIds :
       \/ \E p \in Products, party \in Parties \cup {None}, amount \in Prices,
             from \in 0..MaxTime, until \in 0..MaxTime :
            SetRate(r, p, party, amount, from, until)
       \/ RemoveRate(r)
  \/ \E o \in OverrideIds, l \in PricedLines, amount \in Prices : OverrideRate(o, l, amount)
  \/ \E p \in Products, amount \in Prices : SetDefaultRate(p, amount)

-----------------------------------------------------------------------------
(* What a rate answers, said without an order of rows: a party's own rate  *)
(* before one for all, then the later start, the later record, the greater *)
(* identity, among those whose window holds the moment.                    *)
Rank(row) == <<IF row.party = None THEN 0 ELSE 1, row.from, row.created, row.id>>

Above(a, b) ==
  \E i \in 1..4 : a[i] > b[i] /\ \A j \in 1..(i - 1) : a[j] = b[j]

InWindow(row, at) == at \in row.from..(IF row.until = 0 THEN MaxTime ELSE row.until - 1)

Applicable(p, party, at) ==
  {row \in RatesForProduct(p) : row.party \in {None, party} /\ InWindow(row, at)}

(* Whoever asks for a price, at whatever moment and for a line changed by  *)
(* hand or not, is told the same whichever order the table hands out its   *)
(* rows in, and is told the one best applicable rate; the standard price   *)
(* only when no rate applies, nothing when there is neither; and two       *)
(* windows that meet never both hold (rate.hpp, choose_rate and Rate;      *)
(* pricing_service.hpp, effective_price).                                  *)
PricesResolve ==
  \A p \in Products, party \in Parties, at \in 1..MaxTime, l \in PricedLines :
    LET best == {row \in Applicable(p, party, at) :
                   \A other \in Applicable(p, party, at) \ {row} : Above(Rank(row), Rank(other))}
    IN  /\ \A rows \in SetToSeqs(RatesForProduct(p)) :
             LET price == EffectivePrice(l, rows, p, party, at)
                 resolved == ResolveRate(rows, p, party, at)
             IN  /\ price.overridden <=> \E o \in OverrideIds : override[o] # None /\ override[o].line = l
                 /\ ~price.overridden => price.amount = resolved.amount
                 /\ price.found <=> price.overridden \/ best # {} \/ standard[p] # None
                 /\ best # {} => \E row \in best : resolved.id = row.id
                 /\ best = {} => resolved.id = None
        /\ Applicable(p, party, at) # {} => Cardinality(best) = 1
        /\ \A a, b \in RatesForProduct(p) : a.until # 0 /\ a.until = b.from =>
             ~(Covers(a, at) /\ Covers(b, at))
=============================================================================
