----------------------------- MODULE Quotations -----------------------------
(***************************************************************************)
(* Quotations: modules/quotations (service, domain, data).  A quotation is *)
(* a stack of revisions, each with lines of its own; issuing numbers a     *)
(* revision, accepting pins one of the issued ones.                        *)
(*                                                                         *)
(* A handler runs in one transaction and is one action; a RuleViolation    *)
(* rolls it back, so a refusal is no step.  There is one customer, and the *)
(* texts, the person and the position recorded with a line are left out.   *)
(***************************************************************************)
EXTENDS ShopClock, FiniteSets, Sums

CONSTANTS
  Quotes,      \* identities of quotations
  Revisions,   \* identities of revisions
  Lines,       \* identities of lines, of quotations and of orders alike
  Offers,      \* what a line may say: [amount, product, origin, reason]
  Numbers,     \* pairs of series and number, as one value each
  Validities,  \* dates an offer may be valid until; 0 is no date
  FreshLines,  \* TRUE: no caller names a line of another revision
  MaxMinor     \* the largest total that can be stored

QuotationRows ==
  [state : {"draft", "issued", "accepted", "expired"}, current : Nat, accepted : Nat,
   created : Nat, settled : Nat]

RevisionRows ==
  [of : Quotes, revision : Nat, issued : BOOLEAN, number : Numbers \cup {None},
   valid : Nat, total : Nat, created : Nat]

LineRows == [of : Revisions, offer : Offers]

(* Identities are of a fixed length, so there are finitely many.           *)
ASSUME QuotationAssumption ==
  /\ Offers \subseteq [amount : Nat, product : BOOLEAN, origin : STRING, reason : STRING]
  /\ Validities \subseteq Nat
  /\ FreshLines \in BOOLEAN
  /\ MaxMinor \in Nat
  /\ IsFiniteSet(Lines)
  /\ None \notin Revisions \cup QuotationRows \cup RevisionRows \cup LineRows

VARIABLES
  quote,     \* the table quotation
  revision,  \* the table quotation_revision
  offered    \* the table quotation_line: [of, offer]

quotationVars == <<quote, revision, offered>>

-----------------------------------------------------------------------------
(* Domain rules.                                                           *)

QuotationTransitions ==
  {<<"draft", "issued">>, <<"draft", "expired">>, <<"issued", "issued">>,
   <<"issued", "accepted">>, <<"issued", "expired">>}

CanRevise(q) == quote[q] # None /\ quote[q].state \in {"draft", "issued"}

ExpiredAtMoment(r) == revision[r].valid > 0 /\ now > revision[r].valid

(* validate(QuotationLine): an off-catalog line is exactly one without a   *)
(* product, and an agreed or changed price keeps its reason.               *)
ValidOffer(offer) ==
  /\ offer.origin = "off_catalog" <=> ~offer.product
  /\ offer.origin \in {"agreement", "manual"} => offer.reason # ""

RevisionTotal(offers) == SumOver([l \in DOMAIN offers |-> offers[l].amount], DOMAIN offers)

-----------------------------------------------------------------------------
(* Readers.                                                                *)

RevisionsOf(q) == {r \in Revisions : revision[r] # None /\ revision[r].of = q}

(* The revision with the highest number.                                   *)
LatestRevision(q) ==
  CHOOSE r \in RevisionsOf(q) :
    \A other \in RevisionsOf(q) : revision[other].revision <= revision[r].revision

RevisionNumbered(q, n) == {r \in RevisionsOf(q) : revision[r].revision = n}

LinesForRevision(r) == {l \in Lines : offered[l] # None /\ offered[l].of = r}

OffersOf(r) == [l \in LinesForRevision(r) |-> offered[l].offer]

NumberTaken(number, r) ==
  \E other \in Revisions \ {r} : revision[other] # None /\ revision[other].number = number

-----------------------------------------------------------------------------
(* What a request may say of the lines.                                    *)
OfferedLines == UNION {[ids -> Offers] : ids \in (SUBSET Lines) \ {{}}}

(* read_lines: at least one line, every one valid, and the total fits.     *)
ReadLines(r, lines) ==
  /\ \A l \in DOMAIN lines : ValidOffer(lines[l])
  /\ RevisionTotal(lines) <= MaxMinor
  /\ FreshLines => {l \in DOMAIN lines : offered[l] # None /\ offered[l].of # r} = {}

(* write_lines after remove_lines_for_revision; a line is saved over       *)
(* whatever row has its identity.                                          *)
WriteLines(r, lines, removed) ==
  offered' = [l \in Lines |->
    IF l \in DOMAIN lines THEN [of |-> r, offer |-> lines[l]]
    ELSE IF l \in removed THEN None ELSE offered[l]]

-----------------------------------------------------------------------------
(* The handlers.                                                           *)

CreateQuotation(q, r, valid, lines) ==
  /\ quote[q] = None
  /\ revision[r] = None
  /\ ReadLines(r, lines)
  /\ quote' = [quote EXCEPT ![q] =
       [state |-> "draft", current |-> 1, accepted |-> 0, created |-> now, settled |-> 0]]
  /\ revision' = [revision EXCEPT ![r] =
       [of |-> q, revision |-> 1, issued |-> FALSE, number |-> None, valid |-> valid,
        total |-> RevisionTotal(lines), created |-> now]]
  /\ WriteLines(r, lines, {})

(* The issued revision is left as it is and another is stacked on it.      *)
ReviseIssued(q, r, valid, lines) ==
  LET current == LatestRevision(q)
      next == revision[current].revision + 1
  IN  /\ CanRevise(q)
      /\ revision[current].issued
      /\ revision[r] = None
      /\ ReadLines(r, lines)
      /\ quote' = [quote EXCEPT ![q].state = "draft", ![q].current = next]
      /\ revision' = [revision EXCEPT ![r] =
           [of |-> q, revision |-> next, issued |-> FALSE, number |-> None, valid |-> valid,
            total |-> RevisionTotal(lines), created |-> now]]
      /\ WriteLines(r, lines, {})

ReviseInPlace(q, valid, lines) ==
  LET r == LatestRevision(q)
  IN  /\ CanRevise(q)
      /\ ReadLines(r, lines)
      /\ quote' = [quote EXCEPT ![q].state = "draft"]
      /\ revision' = [revision EXCEPT ![r].valid = valid, ![r].total = RevisionTotal(lines)]
      /\ WriteLines(r, lines, LinesForRevision(r))

(* A draft is replaced in place, its lines with it.                        *)
ReviseDraft(q, valid, lines) ==
  LET r == LatestRevision(q)
  IN  /\ CanRevise(q)
      /\ ~revision[r].issued
      /\ ReadLines(r, lines)
      /\ quote' = [quote EXCEPT ![q].state = "draft"]
      /\ revision' = [revision EXCEPT ![r].valid = valid, ![r].total = RevisionTotal(lines)]
      /\ WriteLines(r, lines, LinesForRevision(r))

IssueQuotation(q, number, valid) ==
  LET r == LatestRevision(q)
  IN  /\ CanRevise(q)
      /\ ~revision[r].issued
      /\ LinesForRevision(r) # {}
      /\ ~NumberTaken(number, r)
      /\ valid > 0 => valid >= now
      /\ now >= revision[r].created
      /\ <<quote[q].state, "issued">> \in QuotationTransitions
      /\ quote' = [quote EXCEPT ![q].state = "issued"]
      /\ revision' = [revision EXCEPT
           ![r].issued = TRUE, ![r].number = number, ![r].valid = valid]
      /\ UNCHANGED offered

AcceptQuotation(q, n) ==
  /\ quote[q] # None
  /\ <<quote[q].state, "accepted">> \in QuotationTransitions
  /\ \E r \in RevisionNumbered(q, n) : revision[r].issued /\ ~ExpiredAtMoment(r)
  /\ now >= quote[q].created
  /\ quote' = [quote EXCEPT ![q].state = "accepted", ![q].accepted = n, ![q].settled = now]
  /\ UNCHANGED <<revision, offered>>

ExpireQuotation(q) ==
  /\ quote[q] # None
  /\ <<quote[q].state, "expired">> \in QuotationTransitions
  /\ now >= quote[q].created
  /\ quote' = [quote EXCEPT ![q].state = "expired", ![q].settled = now]
  /\ UNCHANGED <<revision, offered>>

-----------------------------------------------------------------------------
QuotationInit ==
  /\ quote = [q \in Quotes |-> None]
  /\ revision = [r \in Revisions |-> None]
  /\ offered = [l \in Lines |-> None]

QuotationNext ==
  \/ \E q \in Quotes, valid \in Validities, lines \in OfferedLines :
       \/ \E r \in Revisions :
            CreateQuotation(q, r, valid, lines) \/ ReviseIssued(q, r, valid, lines)
       \/ ReviseDraft(q, valid, lines)
  \/ \E q \in Quotes :
       \/ \E number \in Numbers, valid \in Validities : IssueQuotation(q, number, valid)
       \/ \E n \in 1..Cardinality(Revisions) : AcceptQuotation(q, n)
       \/ ExpireQuotation(q)
=============================================================================
