----------------------------- MODULE Agreements -----------------------------
(***************************************************************************)
(* Customer agreements: modules/agreements (service, domain, data) and the *)
(* part of the workflows issue_invoice and cancel_and_reissue that takes   *)
(* quantity from an agreed line and gives it back.                         *)
(*                                                                         *)
(* Each handler runs in one transaction, so it is one action, and a        *)
(* RuleViolation rolls it back, so a refusal is no step.  There is one     *)
(* customer: the guards that keep customers apart are left out, and so     *)
(* are the texts, the signature and the people recorded with each act.     *)
(***************************************************************************)
EXTENDS Integers, FiniteSets, Sums

CONSTANTS
  Agreements,      \* identities of agreements
  AgreementLines,  \* identities of agreed lines
  InvoiceLines,    \* identities of invoice lines, which use agreed lines
  Terms,           \* what a line may say: [product, rate, cap, reason]; cap 0 is no cap
  Quantities,      \* quantities of an invoice line
  Periods,         \* [from, until]; until 0 is no end
  FreshLines,      \* TRUE: no caller names a line of another agreement
  MaxTime,         \* bound on the clock
  None             \* no row, or an empty reference

AgreedRow == [of : Agreements, terms : Terms, consumed : Nat]
UsageRow == [of : Agreements, line : AgreementLines, qty : Quantities, active : BOOLEAN]

(* Identities are of a fixed length, so there are finitely many.           *)
ASSUME AgreementAssumption ==
  /\ IsFiniteSet(Agreements) /\ IsFiniteSet(InvoiceLines)
  /\ None \notin Agreements \cup AgreementLines \cup AgreedRow \cup UsageRow
  /\ Quantities \subseteq Nat \ {0}
  /\ Terms \subseteq [product : {"p1", "p2"}, rate : Nat, cap : Nat, reason : BOOLEAN]
  /\ Periods \subseteq [from : Nat, until : Nat]
  /\ FreshLines \in BOOLEAN
  /\ MaxTime \in Nat \ {0}

VARIABLES
  agreement,  \* the table agreement
  agreed,     \* the table agreement_line: [of, terms, consumed] or None
  usage,      \* the table agreement_consumption, by the invoice line that used it
  now         \* the clock the handlers read

agreementVars == <<agreement, agreed, usage>>

Absent == [state |-> "absent", supersedes |-> None, superseded_by |-> None,
           period |-> [from |-> 0, until |-> 0]]

AgreementInit ==
  /\ agreement = [a \in Agreements |-> Absent]
  /\ agreed = [l \in AgreementLines |-> None]
  /\ usage = [x \in InvoiceLines |-> None]

Tick == now < MaxTime /\ now' = now + 1

-----------------------------------------------------------------------------
(* Domain rules.                                                           *)

TransitionAllowed(from, to) ==
  <<from, to>> \in {<<"draft", "open">>, <<"open", "closed">>,
                    <<"open", "superseded">>, <<"closed", "open">>}

CanAmend(a) == agreement[a].state \in {"draft", "open"}

Lapsed(period) == period.until > 0 /\ now > period.until

ValidPeriod(period) == period.until > 0 => period.until >= period.from

LinesOf(a) == {l \in AgreementLines : agreed[l] # None /\ agreed[l].of = a}

(* Past the cap a line must carry a recorded reason.                       *)
ValidLine(line) ==
  line.terms.cap > 0 /\ line.consumed > line.terms.cap => line.terms.reason

(* Where superseded_by leads from a, n steps on.                           *)
Chain(a) ==
  LET follow[n \in 0..Cardinality(Agreements)] ==
        IF n = 0 THEN a
        ELSE IF follow[n - 1] = None THEN None
        ELSE agreement[follow[n - 1]].superseded_by
  IN  follow

CompletesACycle(origin, successor) ==
  \E n \in DOMAIN Chain(successor) : Chain(successor)[n] = origin

-----------------------------------------------------------------------------
(* What a request may say of the lines: nothing, or terms for some.        *)
Proposals == UNION {[ids -> Terms] : ids \in (SUBSET AgreementLines) \ {{}}}

Carried(a, l) == IF l \in LinesOf(a) THEN agreed[l].consumed ELSE 0

RestateAnew(a, proposal) ==
  /\ FreshLines => \A l \in DOMAIN proposal : agreed[l] = None \/ l \in LinesOf(a)
  /\ \A l \in DOMAIN proposal :
       ValidLine([terms |-> proposal[l], consumed |-> Carried(a, l)])
  /\ agreed' = [l \in AgreementLines |->
       IF l \in DOMAIN proposal
       THEN [of |-> a, terms |-> proposal[l], consumed |-> Carried(a, l)]
       ELSE IF l \in LinesOf(a) THEN None ELSE agreed[l]]

RestateForgetting(a, proposal) ==
  /\ FreshLines => \A l \in DOMAIN proposal : agreed[l] = None \/ l \in LinesOf(a)
  /\ \A l \in LinesOf(a) : agreed[l].consumed # 0 =>
       l \in DOMAIN proposal /\ proposal[l].product = agreed[l].terms.product
  /\ agreed' = [l \in AgreementLines |->
       IF l \in DOMAIN proposal
       THEN [of |-> a, terms |-> proposal[l], consumed |-> 0]
       ELSE IF l \in LinesOf(a) THEN None ELSE agreed[l]]

(* read_lines, protect_active_consumption, then every line of the          *)
(* agreement is removed and the proposed ones are saved, each over         *)
(* whatever row has its identity.                                          *)
Restate(a, proposal) ==
  /\ FreshLines => \A l \in DOMAIN proposal : agreed[l] = None \/ l \in LinesOf(a)
  /\ \A l \in DOMAIN proposal :
       ValidLine([terms |-> proposal[l], consumed |-> Carried(a, l)])
  /\ \A l \in LinesOf(a) : agreed[l].consumed # 0 =>
       l \in DOMAIN proposal /\ proposal[l].product = agreed[l].terms.product
  /\ agreed' = [l \in AgreementLines |->
       IF l \in DOMAIN proposal
       THEN [of |-> a, terms |-> proposal[l], consumed |-> Carried(a, l)]
       ELSE IF l \in LinesOf(a) THEN None ELSE agreed[l]]

Restated(a, proposal) ==
  \/ proposal = None /\ UNCHANGED agreed
  \/ proposal # None /\ Restate(a, proposal)

-----------------------------------------------------------------------------
(* The handlers.                                                           *)

Create(a, period, earlier, proposal) ==
  /\ agreement[a].state = "absent"
  /\ ValidPeriod(period)
  /\ earlier # None => earlier # a /\ agreement[earlier].state # "absent"
  /\ agreement' = [agreement EXCEPT ![a] =
       [state |-> "draft", supersedes |-> earlier, superseded_by |-> None, period |-> period]]
  /\ Restate(a, proposal)
  /\ UNCHANGED usage

Amend(a, period, proposal) ==
  /\ CanAmend(a)
  /\ ValidPeriod(period)
  /\ agreement' = [agreement EXCEPT ![a].period = period]
  /\ Restated(a, proposal)
  /\ UNCHANGED usage

(* The predecessor stops in the same transaction.                          *)
Open(a, period, proposal) ==
  /\ agreement[a].state = "draft"
  /\ ValidPeriod(period) /\ ~Lapsed(period)
  /\ LinesOf(a) # {} \/ proposal # None
  /\ LET opened == [agreement EXCEPT ![a].state = "open", ![a].period = period]
         earlier == agreement[a].supersedes
     IN  \/ earlier = None /\ agreement' = opened
         \/ /\ earlier # None
            /\ agreement[earlier].superseded_by \in {None, a}
            /\ TransitionAllowed(agreement[earlier].state, "superseded")
            /\ agreement' = [opened EXCEPT ![earlier].state = "superseded",
                                           ![earlier].superseded_by = a]
  /\ Restated(a, proposal)
  /\ UNCHANGED usage

Supersede(a, successor, period, proposal) ==
  /\ TransitionAllowed(agreement[a].state, "superseded")
  /\ ValidPeriod(period)
  /\ successor # a /\ agreement[successor].state # "absent"
  /\ ~CompletesACycle(a, successor)
  /\ agreement' = [agreement EXCEPT ![a].state = "superseded", ![a].period = period,
                                    ![a].superseded_by = successor]
  /\ Restated(a, proposal)
  /\ UNCHANGED usage

Close(a) ==
  /\ TransitionAllowed(agreement[a].state, "closed")
  /\ agreement' = [agreement EXCEPT ![a].state = "closed"]
  /\ UNCHANGED <<agreed, usage>>

(* transition_allowed lets a draft through as well as a closed agreement.  *)
Reopen(a, period) ==
  /\ TransitionAllowed(agreement[a].state, "open")
  /\ period.from = agreement[a].period.from
  /\ ValidPeriod(period) /\ ~Lapsed(period)
  /\ agreement' = [agreement EXCEPT ![a].state = "open", ![a].period = period]
  /\ UNCHANGED <<agreed, usage>>

-----------------------------------------------------------------------------
(* Issuing an invoice uses agreed lines; uses maps its invoice lines to    *)
(* [of, line, qty].  Cancelling gives everything back.                     *)

InForce(a) ==
  /\ agreement[a].state = "open"
  /\ agreement[a].period.from <= now
  /\ ~Lapsed(agreement[a].period)

Asked(uses, l) ==
  SumOver([x \in DOMAIN uses |-> uses[x].qty], {x \in DOMAIN uses : uses[x].line = l})

Consume(uses) ==
  /\ \A x \in DOMAIN uses :
       /\ InForce(uses[x].of) /\ uses[x].line \in LinesOf(uses[x].of)
       /\ usage[x] = None
  /\ \A l \in {uses[x].line : x \in DOMAIN uses} :
       agreed[l].terms.cap > 0 => agreed[l].consumed + Asked(uses, l) <= agreed[l].terms.cap
  /\ agreed' = [l \in AgreementLines |->
       IF agreed[l] = None THEN None
       ELSE [agreed[l] EXCEPT !.consumed = @ + Asked(uses, l)]]
  /\ usage' = [x \in InvoiceLines |->
       IF x \in DOMAIN uses
       THEN [of |-> uses[x].of, line |-> uses[x].line, qty |-> uses[x].qty, active |-> TRUE]
       ELSE usage[x]]

InUse(lines) == {x \in lines : usage[x] # None /\ usage[x].active}

UsedOf(l, lines) ==
  SumOver([x \in InUse(lines) |-> usage[x].qty], {x \in InUse(lines) : usage[x].line = l})

(* Refused when an agreed line is no longer where the use of it says.      *)
Release(lines) ==
  /\ \A x \in InUse(lines) :
       /\ usage[x].line \in LinesOf(usage[x].of)
       /\ UsedOf(usage[x].line, lines) <= agreed[usage[x].line].consumed
  /\ agreed' = [l \in AgreementLines |->
       IF agreed[l] = None THEN None
       ELSE [agreed[l] EXCEPT !.consumed = @ - UsedOf(l, lines)]]
  /\ usage' = [x \in InvoiceLines |->
       IF x \in InUse(lines) THEN [usage[x] EXCEPT !.active = FALSE] ELSE usage[x]]

-----------------------------------------------------------------------------
AgreementHandlers ==
  \E a \in Agreements, period \in Periods :
    \/ \E earlier \in Agreements \cup {None}, p \in Proposals : Create(a, period, earlier, p)
    \/ \E p \in Proposals \cup {None} :
         \/ Amend(a, period, p)
         \/ Open(a, period, p)
         \/ \E b \in Agreements : Supersede(a, b, period, p)
    \/ Close(a)
    \/ Reopen(a, period)

(* An invoice of one line is issued, and cancelled.                        *)
Charge(x, a, l, q) ==
  /\ Consume([y \in {x} |-> [of |-> a, line |-> l, qty |-> q]])
  /\ UNCHANGED agreement

GiveBack(x) ==
  /\ InUse({x}) # {}
  /\ Release({x})
  /\ UNCHANGED agreement

Init == AgreementInit /\ now = 1

Next ==
  \/ AgreementHandlers /\ UNCHANGED now
  \/ /\ \E x \in InvoiceLines :
          \/ \E a \in Agreements, l \in AgreementLines, q \in Quantities : Charge(x, a, l, q)
          \/ GiveBack(x)
     /\ UNCHANGED now
  \/ Tick /\ UNCHANGED agreementVars

vars == <<agreement, agreed, usage, now>>

Spec == Init /\ [][Next]_vars

-----------------------------------------------------------------------------
(* Properties.                                                             *)

(* Rows keep their types; an agreement is superseded exactly if it says by *)
(* what.                                                                   *)
TypeOK ==
  /\ agreement \in [Agreements ->
       [state : {"absent", "draft", "open", "closed", "superseded"},
        supersedes : Agreements \cup {None}, superseded_by : Agreements \cup {None},
        period : Periods \cup {Absent.period}]]
  /\ agreed \in [AgreementLines -> {None} \cup AgreedRow]
  /\ usage \in [InvoiceLines -> {None} \cup UsageRow]
  /\ now \in 1..MaxTime
  /\ \A a \in Agreements :
       agreement[a].state = "superseded" <=> agreement[a].superseded_by # None

(* What a line says is consumed is what invoices in force used of it, and  *)
(* the line is still where those invoices will look for it to give it      *)
(* back, whatever was restated since.                                      *)
ConsumptionAccounted ==
  /\ \A l \in AgreementLines :
       agreed[l] # None => agreed[l].consumed = UsedOf(l, InvoiceLines)
  /\ \A x \in InUse(InvoiceLines) : usage[x].line \in LinesOf(usage[x].of)

(* "Going past a quantity cap needs a recorded reason", also when the cap  *)
(* is lowered under what was already used.                                 *)
CapKeptOrExplained ==
  \A l \in AgreementLines : agreed[l] # None => ValidLine(agreed[l])

(* Following superseded_by from any agreement comes to an end: a cycle     *)
(* "would hang any screen that reads the chain end to end".                *)
SupersessionEnds ==
  \A a \in Agreements : \E n \in DOMAIN Chain(a) : Chain(a)[n] = None

(* No step rewrites what invoices in force were charged under: the product *)
(* of a line in use stays, and a superseded agreement stays superseded by  *)
(* the same successor and keeps its period.                                *)
BargainsKept ==
  [][/\ \A x \in InUse(InvoiceLines) : LET l == usage[x].line IN
          usage'[x].active =>
            agreed'[l] # None /\ agreed'[l].terms.product = agreed[l].terms.product
     /\ \A a \in Agreements :
          agreement[a].state = "superseded" => agreement'[a] = agreement[a]]_vars

(* A superseded agreement ends for good with the bargains made under it    *)
(* untouched (agreements_service.cpp, supersede and its callers).          *)
SupersessionHolds == []SupersessionEnds /\ BargainsKept

(* What invoices use of an agreed line is what it says was used, and no    *)
(* more than was agreed, or the excess is explained                        *)
(* (agreements_service.cpp, consume and release).                          *)
CapsStand == ConsumptionAccounted /\ CapKeptOrExplained
=============================================================================
