---------------------------- MODULE Receivables ----------------------------
(***************************************************************************)
(* Invoices, their numbers and replacements, payments and what they are    *)
(* allocated to, and customer statements: modules/receivables and the      *)
(* workflows apply_agreement, issue_invoice, cancel_and_reissue and        *)
(* take_payment.  The agreements that invoices are priced under are        *)
(* those of Agreements.                                                    *)
(*                                                                         *)
(* A handler or workflow is one transaction and one action; a refusal      *)
(* rolls it back and is no step.  There is one customer and one number     *)
(* series.  Due dates, credit terms, texts and the people recorded with    *)
(* each act are left out, and the counts, totals, rates and numbers that a *)
(* request repeats for confirmation are the current ones.                  *)
(***************************************************************************)
EXTENDS Integers, FiniteSets, Sums

CONSTANTS
  Invoices, Slots, Rates,        \* identities of invoices and of lines in one
  Devices, Blocks, Ranges,       \* owners and identities of number blocks; [first, last]
  Payments, Allocations,         \* identities
  Amounts,                       \* of payments and of allocations
  Agreements, AgreementLines, InvoiceLines, Terms, Quantities, Periods, FreshLines,
  MaxTime,
  None

(* A job an allocation is for is not looked up.                            *)
Jobs == {"job"}

LineRow == [qty : Quantities, rate : Nat, of : Agreements \cup {None},
            line : AgreementLines \cup {None}]
BlockRow == [device : Devices, first : Nat, next : Nat, last : Nat, exhausted : BOOLEAN]
PaymentRow == [amount : Amounts, paid_at : 1..MaxTime]
AllocationRow ==
  [payment : Payments, target : Invoices \cup Jobs, amount : Amounts, active : BOOLEAN,
   allocated_at : 1..MaxTime, released_at : 0..MaxTime]

(* Identities are of a fixed length, so there are finitely many.           *)
ASSUME ReceivablesAssumption ==
  /\ IsFiniteSet(Invoices) /\ IsFiniteSet(InvoiceLines)
  /\ IsFiniteSet(Payments) /\ IsFiniteSet(Allocations)
  /\ InvoiceLines = Invoices \X Slots
  /\ Rates \subseteq Nat /\ Amounts \subseteq Nat \ {0}
  /\ Ranges \subseteq {r \in [first : Nat \ {0}, last : Nat] : r.first <= r.last}
  /\ None \notin Invoices
  /\ None \notin LineRow \cup BlockRow \cup PaymentRow \cup AllocationRow

VARIABLES
  invoice,     \* the table invoice
  line,        \* the table invoice_line: [qty, rate, of, line] or None
  block,       \* the table document_number_block, or None
  payment,     \* the table payment: [amount, paid_at] or None
  allocation,  \* the table payment_allocation, or None
  agreement, agreed, usage, now

receivables == <<invoice, line, block, payment, allocation>>
agreements == <<agreement, agreed, usage>>
money == <<payment, allocation>>
vars == <<receivables, agreements, now>>

A == INSTANCE Agreements

(* What Agreements assumes of the constants it is given.                   *)
ASSUME SharedAssumption == A!AgreementAssumption

Absent == [state |-> "absent", replaces |-> None, replaced_by |-> None,
           number |-> 0, issued_at |-> 0, cancelled_at |-> 0]

Draft(source) == [Absent EXCEPT !.state = "draft", !.replaces = source]

Init ==
  /\ invoice = [i \in Invoices |-> Absent]
  /\ line = [x \in InvoiceLines |-> None]
  /\ block = [b \in Blocks |-> None]
  /\ payment = [p \in Payments |-> None]
  /\ allocation = [x \in Allocations |-> None]
  /\ A!AgreementInit
  /\ now = 1

-----------------------------------------------------------------------------
(* Queries of the repository.                                              *)

LinesOn(i) == {x \in InvoiceLines : x[1] = i /\ line[x] # None}

Total(i) == SumOver([x \in LinesOn(i) |-> line[x].qty * line[x].rate], LinesOn(i))

(* The replacements of an invoice that were not discarded.                 *)
ActiveReplacements(i) ==
  {r \in Invoices : invoice[r].replaces = i /\ invoice[r].state \notin {"absent", "discarded"}}

ActiveOn(i) ==
  {x \in Allocations : allocation[x] # None /\ allocation[x].active /\ allocation[x].target = i}

ActiveOf(p) ==
  {x \in Allocations : allocation[x] # None /\ allocation[x].active /\ allocation[x].payment = p}

Sum(allocations) == SumOver([x \in allocations |-> allocation[x].amount], allocations)

Outstanding(i) == Total(i) - Sum(ActiveOn(i))

Unallocated(p) == payment[p].amount - Sum(ActiveOf(p))

-----------------------------------------------------------------------------
(* Drafts.                                                                 *)

DraftCreate(i) ==
  /\ invoice[i].state = "absent"
  /\ invoice' = [invoice EXCEPT ![i] = Draft(None)]
  /\ UNCHANGED <<line, block, money, agreements, now>>

(* A line priced by an agreement must stay as agreed, so only an ordinary  *)
(* line changes.                                                           *)
LineUpsert(x, qty, rate) ==
  /\ invoice[x[1]].state = "draft"
  /\ line[x] # None => line[x].of = None
  /\ line' = [line EXCEPT ![x] = [qty |-> qty, rate |-> rate, of |-> None, line |-> None]]
  /\ UNCHANGED <<invoice, block, money, agreements, now>>

LineRemove(x) ==
  /\ invoice[x[1]].state = "draft"
  /\ line[x] # None
  /\ line' = [line EXCEPT ![x] = None]
  /\ UNCHANGED <<invoice, block, money, agreements, now>>

DraftDiscard(i) ==
  /\ invoice[i].state = "draft"
  /\ invoice' = [invoice EXCEPT ![i].state = "discarded"]
  /\ UNCHANGED <<line, block, money, agreements, now>>

(* The invoice lines of the model are all for one product.                 *)
Prices(l, product) == agreed[l].terms.product = product

(* The agreed rate is copied to the line; nothing is consumed yet.         *)
ApplyAgreement(x, a, l) ==
  /\ invoice[x[1]].state = "draft"
  /\ line[x] # None
  /\ A!InForce(a) /\ l \in A!LinesOf(a) /\ Prices(l, "p1")
  /\ line' = [line EXCEPT ![x] =
       [qty |-> line[x].qty, rate |-> agreed[l].terms.rate, of |-> a, line |-> l]]
  /\ UNCHANGED <<invoice, block, money, agreements, now>>

-----------------------------------------------------------------------------
(* Numbers.                                                                *)

Overlaps(r, b) == r.first <= block[b].last /\ block[b].first <= r.last

(* The server reserves a range for a device; saving it refuses an overlap. *)
ReceiveBlock(b, d, r) ==
  /\ block[b] = None
  /\ \A other \in Blocks : block[other] # None => ~Overlaps(r, other)
  /\ block' = [block EXCEPT ![b] =
       [device |-> d, first |-> r.first, next |-> r.first, last |-> r.last,
        exhausted |-> FALSE]]
  /\ UNCHANGED <<invoice, line, money, agreements, now>>

Usable(d) == {b \in Blocks : block[b] # None /\ block[b].device = d /\ ~block[b].exhausted}

(* The one with the lowest numbers gives the next number.                  *)
Available(d) ==
  {b \in Usable(d) : \A other \in Usable(d) : block[b].first <= block[other].first}

NumberTakenUntilLast(b) ==
  IF block[b].next = block[b].last THEN block[b] ELSE [block[b] EXCEPT !.next = @ + 1]

(* The block after it gave its next number.                                *)
NumberTaken(b) ==
  IF block[b].next = block[b].last
  THEN [block[b] EXCEPT !.exhausted = TRUE]
  ELSE [block[b] EXCEPT !.next = @ + 1]

-----------------------------------------------------------------------------
(* issue_invoice.                                                          *)

WaitingAlone(i) ==
  LET source == invoice[i].replaces IN
  source # None => /\ invoice[source].state = "cancelled"
                   /\ invoice[source].replaced_by = None
                   /\ ActiveReplacements(source) = {i}

AgreedLines(i) == {x \in LinesOn(i) : line[x].of # None}

(* The rate the line was given is still the agreed one.                    *)
StillAgreed(x) ==
  /\ agreed[line[x].line] # None
  /\ Prices(line[x].line, "p1")
  /\ agreed[line[x].line].terms.rate = line[x].rate

Uses(i) ==
  [x \in AgreedLines(i) |-> [of |-> line[x].of, line |-> line[x].line, qty |-> line[x].qty]]

Issue(i, d) ==
  /\ invoice[i].state = "draft"
  /\ WaitingAlone(i)
  /\ Total(i) > 0
  /\ \A x \in AgreedLines(i) : StillAgreed(x)
  /\ A!Consume(Uses(i))
  /\ \E b \in Available(d) :
       LET number == block[b].next
           source == invoice[i].replaces
           issued == [invoice EXCEPT ![i].state = "issued", ![i].number = number,
                                     ![i].issued_at = now]
       IN  /\ \A j \in Invoices : invoice[j].number # number
           /\ block' = [block EXCEPT ![b] = NumberTaken(b)]
           /\ invoice' = IF source = None THEN issued
                         ELSE [issued EXCEPT ![source].state = "replaced",
                                             ![source].replaced_by = i]
  /\ UNCHANGED <<line, money, agreement, now>>

-----------------------------------------------------------------------------
(* cancel_and_reissue.                                                     *)

MovedOver(i, r) ==
  [x \in InvoiceLines |->
     IF x[1] = r /\ line[<<i, x[2]>>] # None THEN line[<<i, x[2]>>]
     ELSE IF x[1] = i THEN None ELSE line[x]]

(* A draft r with the lines of i, agreed rates and all.                    *)
Copied(i, r) ==
  [x \in InvoiceLines |->
     IF x[1] = r /\ line[<<i, x[2]>>] # None THEN line[<<i, x[2]>>] ELSE line[x]]

KeepOn(i) == allocation

ReleaseOn(i) ==
  [x \in Allocations |->
     IF x \in ActiveOn(i)
     THEN [allocation[x] EXCEPT !.active = FALSE, !.released_at = now]
     ELSE allocation[x]]

Reissuable(i, r) ==
  /\ r # i /\ invoice[r].state = "absent"
  /\ ActiveReplacements(i) = {}
  /\ Total(i) > 0
  /\ now >= invoice[i].issued_at
  /\ line' = Copied(i, r)

CancelKeepingUse(i, r) ==
  /\ invoice[i].state = "issued"
  /\ Reissuable(i, r)
  /\ invoice' = [invoice EXCEPT ![i].state = "cancelled", ![i].cancelled_at = now,
                                ![r] = Draft(i)]
  /\ allocation' = ReleaseOn(i)
  /\ UNCHANGED <<block, payment, agreements, now>>

CancelAndReissue(i, r) ==
  /\ invoice[i].state = "issued"
  /\ Reissuable(i, r)
  /\ invoice' = [invoice EXCEPT ![i].state = "cancelled", ![i].cancelled_at = now,
                                ![r] = Draft(i)]
  /\ allocation' = ReleaseOn(i)
  /\ A!Release(LinesOn(i))
  /\ UNCHANGED <<block, payment, agreement, now>>

(* A later attempt, after the replacement was discarded.                   *)
ReissueAgain(i, r) ==
  /\ invoice[i].state = "cancelled"
  /\ Reissuable(i, r)
  /\ ActiveOn(i) = {}
  /\ invoice' = [invoice EXCEPT ![r] = Draft(i)]
  /\ UNCHANGED <<block, money, agreements, now>>

-----------------------------------------------------------------------------
(* Payments.                                                               *)

TakePayment(p, amount, paid_at) ==
  /\ payment[p] = None
  /\ paid_at <= now
  /\ payment' = [payment EXCEPT ![p] = [amount |-> amount, paid_at |-> paid_at]]
  /\ UNCHANGED <<invoice, line, block, allocation, agreements, now>>

AllocateOverTheInvoice(x, p, amount, target) ==
  /\ payment[p] # None
  /\ allocation[x] = None
  /\ amount <= Unallocated(p)
  /\ target \in Invoices => invoice[target].state = "issued"
  /\ allocation' = [allocation EXCEPT ![x] =
       [payment |-> p, target |-> target, amount |-> amount, active |-> TRUE,
        allocated_at |-> now, released_at |-> 0]]
  /\ UNCHANGED <<invoice, line, block, payment, agreements, now>>

Allocate(x, p, amount, target) ==
  /\ payment[p] # None
  /\ allocation[x] = None
  /\ amount <= Unallocated(p)
  /\ target \in Invoices => invoice[target].state = "issued" /\ amount <= Outstanding(target)
  /\ allocation' = [allocation EXCEPT ![x] =
       [payment |-> p, target |-> target, amount |-> amount, active |-> TRUE,
        allocated_at |-> now, released_at |-> 0]]
  /\ UNCHANGED <<invoice, line, block, payment, agreements, now>>

ReleaseAllocation(x) ==
  /\ allocation[x] # None
  /\ allocation[x].active
  /\ now >= allocation[x].allocated_at
  /\ allocation' = [allocation EXCEPT ![x].active = FALSE, ![x].released_at = now]
  /\ UNCHANGED <<invoice, line, block, payment, agreements, now>>

-----------------------------------------------------------------------------
(* statement_prepare: the facts of the account, and their running totals.  *)

Fact(kind, at, amount, source) ==
  [kind |-> kind, at |-> at, amount |-> amount, source |-> source]

Charged == {i \in Invoices : invoice[i].state \in {"issued", "cancelled", "replaced"}}
Cancelled == {i \in Invoices : invoice[i].state \in {"cancelled", "replaced"}}
OnInvoices == {x \in Allocations : allocation[x] # None /\ allocation[x].target \in Invoices}

StatementEvents ==
  UNION {{Fact("charged", invoice[i].issued_at, Total(i), i) : i \in Charged},
         {Fact("cancelled", invoice[i].cancelled_at, Total(i), i) : i \in Cancelled},
         {Fact("received", payment[p].paid_at, payment[p].amount, p) :
            p \in {q \in Payments : payment[q] # None}},
         {Fact("allocated", allocation[x].allocated_at, allocation[x].amount, x) :
            x \in OnInvoices},
         {Fact("released", allocation[x].released_at, allocation[x].amount, x) :
            x \in {y \in OnInvoices : ~allocation[y].active}}}

(* Order of application at one instant.                                    *)
Rank == [charged |-> 0, received |-> 1, released |-> 2, allocated |-> 3, cancelled |-> 4]

(* All facts up to a kind at an instant.  Facts of one kind at one instant *)
(* move the totals one way, so these are the lowest totals of the replay.  *)
UpTo(at, kind) ==
  {f \in StatementEvents : f.at < at \/ (f.at = at /\ Rank[f.kind] <= Rank[kind])}

Amount(facts, kinds) ==
  SumOver([f \in facts |-> f.amount], {f \in facts : f.kind \in kinds})

RunningOutstanding(facts) ==
  Amount(facts, {"charged", "released"}) - Amount(facts, {"allocated", "cancelled"})

RunningUnallocated(facts) ==
  Amount(facts, {"received", "released"}) - Amount(facts, {"allocated"})

(* prepare_statement refuses a replay in which a total goes below zero.    *)
Reconciles(through) ==
  \A f \in {g \in StatementEvents : g.at <= through} :
    LET before == UpTo(f.at, f.kind) IN
    RunningOutstanding(before) >= 0 /\ RunningUnallocated(before) >= 0

-----------------------------------------------------------------------------
Next ==
  \/ \E i \in Invoices :
       \/ DraftCreate(i) \/ DraftDiscard(i)
       \/ \E d \in Devices : Issue(i, d)
       \/ \E r \in Invoices : CancelAndReissue(i, r) \/ ReissueAgain(i, r)
  \/ \E x \in InvoiceLines :
       \/ \E qty \in Quantities, rate \in Rates : LineUpsert(x, qty, rate)
       \/ LineRemove(x)
       \/ \E a \in Agreements, l \in AgreementLines : ApplyAgreement(x, a, l)
  \/ \E b \in Blocks, d \in Devices, r \in Ranges : ReceiveBlock(b, d, r)
  \/ \E p \in Payments :
       \/ \E amount \in Amounts, paid_at \in 1..MaxTime : TakePayment(p, amount, paid_at)
       \/ \E x \in Allocations, amount \in Amounts, target \in Invoices \cup Jobs :
            Allocate(x, p, amount, target)
  \/ \E x \in Allocations : ReleaseAllocation(x)
  \/ A!AgreementHandlers /\ UNCHANGED <<receivables, now>>
  \/ A!Tick /\ UNCHANGED <<receivables, agreements>>

Spec == Init /\ [][Next]_vars

-----------------------------------------------------------------------------
(* Properties.                                                             *)

States == {"absent", "draft", "issued", "cancelled", "replaced", "discarded"}

(* Rows keep their types and carry the evidence of their state and no      *)
(* other.                                                                  *)
TypeOK ==
  /\ invoice \in [Invoices ->
       [state : States, replaces : Invoices \cup {None}, replaced_by : Invoices \cup {None},
        number : Nat, issued_at : 0..MaxTime, cancelled_at : 0..MaxTime]]
  /\ \A i \in Invoices :
       /\ invoice[i].number > 0 <=> i \in Charged
       /\ invoice[i].issued_at > 0 <=> i \in Charged
       /\ invoice[i].cancelled_at > 0 <=> i \in Cancelled
       /\ invoice[i].replaced_by # None <=> invoice[i].state = "replaced"
  /\ line \in [InvoiceLines -> {None} \cup LineRow]
  /\ block \in [Blocks -> {None} \cup BlockRow]
  /\ payment \in [Payments -> {None} \cup PaymentRow]
  /\ allocation \in [Allocations -> {None} \cup AllocationRow]

Given(b) == {n \in block[b].first..block[b].last : n < block[b].next \/ block[b].exhausted}

(* "Series are gapless per device": the numbers invoices carry are exactly *)
(* those the blocks gave out, each is carried by one invoice, and what was *)
(* cancelled keeps its number.                                             *)
NumbersGapless ==
  /\ UNION {Given(b) : b \in {c \in Blocks : block[c] # None}}
       = {invoice[i].number : i \in Charged}
  /\ \A i, j \in Charged : i # j => invoice[i].number # invoice[j].number

(* The number a device takes next is on no invoice, so the duplicate check *)
(* that runs after the number was consumed never refuses.                  *)
NextNumberUnused ==
  \A d \in Devices : \A b \in Available(d) : \A i \in Invoices :
    invoice[i].number # block[b].next

(* An invoice has one replacement that is not discarded at the most, and   *)
(* only once cancelled; it is replaced exactly when that one is issued,    *)
(* and each names the other.                                               *)
ReplacementsPair ==
  \A i \in Invoices :
    /\ \A r, s \in ActiveReplacements(i) : r = s
    /\ ActiveReplacements(i) # {} => i \in Cancelled
    /\ \A r \in ActiveReplacements(i) :
         IF r \in Charged THEN invoice[i].replaced_by = r ELSE invoice[i].state = "cancelled"
    /\ invoice[i].replaced_by # None => invoice[invoice[i].replaced_by].replaces = i

(* Money rests only on issued invoices and never beyond what they ask; a   *)
(* payment is never given out beyond its amount, whatever was cancelled,   *)
(* reissued or released in between.                                        *)
MoneyConserved ==
  /\ \A i \in Invoices :
       /\ ActiveOn(i) # {} => invoice[i].state = "issued"
       /\ Sum(ActiveOn(i)) <= Total(i)
  /\ \A p \in Payments : payment[p] # None => Unallocated(p) >= 0

(* An invoice uses its agreements exactly while it is issued, by the       *)
(* frozen quantities of its own agreed lines.                              *)
UsedWhileIssued ==
  \A x \in InvoiceLines :
    (x \in A!InUse(InvoiceLines)) <=>
      /\ invoice[x[1]].state = "issued"
      /\ line[x] # None /\ line[x].of # None
      /\ usage[x] # None /\ usage[x].line = line[x].line /\ usage[x].qty = line[x].qty

(* Every agreed line says what issued invoices use of it, and two invoices *)
(* never pass its cap together.                                            *)
ConsumptionAccounted == A!ConsumptionAccounted /\ A!CapKeptOrExplained

(* A statement of any period that ended can be prepared, also when several *)
(* things happened at one instant or a payment was entered late, and the   *)
(* latest one ends with what the invoices have outstanding and what of the *)
(* payments no invoice has.                                                *)
StatementsReconcile ==
  /\ \A through \in 1..now : Reconciles(through)
  /\ RunningOutstanding(StatementEvents) =
       SumOver([i \in Invoices |-> Outstanding(i)], {i \in Invoices : invoice[i].state = "issued"})
  /\ RunningUnallocated(StatementEvents) =
       SumOver([p \in Payments |-> payment[p].amount], {p \in Payments : payment[p] # None})
         - Sum({x \in OnInvoices : allocation[x].active})

(* "Frozen from here on": once issued, an invoice keeps its number and its *)
(* lines for ever, and moves only to cancelled and from there to replaced. *)
IssuedIsFrozen ==
  [][\A i \in Charged :
       /\ invoice'[i].number = invoice[i].number
       /\ \A k \in Slots : line'[<<i, k>>] = line[<<i, k>>]
       /\ <<invoice[i].state, invoice'[i].state>> \in
            {<<s, s>> : s \in States} \cup {<<"issued", "cancelled">>, <<"cancelled", "replaced">>}]_vars

(* An invoice, once issued, stands: it is replaced by at most one other,   *)
(* which points back at it, and is otherwise frozen                        *)
(* (receivables_service.cpp, issue, cancel and replace).                   *)
InvoicesStand == []ReplacementsPair /\ IssuedIsFrozen

(* The agreements say what the issued invoices use of them, no more and no *)
(* less (receivables_service.cpp, issue and cancel).                       *)
UsageAccounted == UsedWhileIssued /\ ConsumptionAccounted
=============================================================================
