---------------------------- MODULE RecordRules ----------------------------
(***************************************************************************)
(* The rules a record of each module must satisfy before it may be saved:  *)
(* one operator per validate() of the modules' domain files.  A record is  *)
(* a function of its column names; a code is the name of its enumerator,   *)
(* or Unknown where the code keeps a value outside the enumeration.        *)
(*                                                                         *)
(* Text is one of a few values: the empty text, one of blanks only, words, *)
(* and texts of a given length in bytes.  Quantities and prices are small integers that multiply exactly; *)
(* MaxMoney stands for the largest amount the shop can record.             *)
(***************************************************************************)
EXTENDS Integers, Sequences

CONSTANTS
    MaxMoney,   \* the largest amount that can be recorded
    MaxPrice,   \* pricing::kMaxAmountMinor
    Sizes       \* how many bytes the longer texts have

Unknown == "unknown"
Origins == {"CatalogDefault", "PartySpecific", "Agreement", "ManualOverride", "OffCatalog"}

Blank(text) == text \in {"", " "}
AllBlank(texts) == \A text \in texts : Blank(text)
NoneBlank(texts) == \A text \in texts : ~Blank(text)

\* A text whose length is not given is short.
Size(text) == IF text \in DOMAIN Sizes THEN Sizes[text] ELSE 1

\* A moment and a person stand together: both given, or neither.
Given(moment, person) == moment > 0 /\ ~Blank(person)
Absent(moment, person) == moment = 0 /\ Blank(person)

Fits(quantity, price) == quantity * price <= MaxMoney

QuotationIsValid(q) ==
    LET accepted == q.accepted_revision # 0 \/ ~Absent(q.accepted_at, q.accepted_by)
        expired == ~Absent(q.expired_at, q.expired_by) \/ ~Blank(q.expiry_reason)
    IN /\ q.id # "" /\ Given(q.created_at, q.created_by) /\ q.party_id # " "
       /\ q.current_revision >= 1
       /\ q.accepted_revision \in 0 .. q.current_revision
       /\ q.state \in {"Draft", "Issued"} => ~accepted /\ ~expired
       /\ q.state = "Accepted" =>
             /\ q.accepted_revision > 0 /\ Given(q.accepted_at, q.accepted_by)
             /\ q.accepted_at >= q.created_at /\ ~expired
       /\ q.state = "Expired" =>
             /\ Given(q.expired_at, q.expired_by)
             /\ q.expired_at >= q.created_at /\ ~accepted

RevisionIsValid(r) ==
    /\ r.id # "" /\ r.quotation_id # "" /\ r.revision >= 1
    /\ Given(r.created_at, r.created_by)
    /\ r.total_minor >= 0 /\ r.valid_until >= 0
    /\ IF r.issued
       THEN /\ ~Blank(r.series) /\ r.number # 0
            /\ Given(r.issued_at, r.issued_by) /\ r.issued_at >= r.created_at
            /\ r.valid_until > 0 => r.valid_until >= r.issued_at
       ELSE Blank(r.series) /\ r.number = 0 /\ Absent(r.issued_at, r.issued_by)

\* What a priced line must say about where its price came from.
OriginIsKept(line) ==
    /\ line.rate_origin \in Origins
    /\ line.rate_origin \in {"Agreement", "ManualOverride"} => ~Blank(line.rate_reason)

QuotationLineIsValid(l) ==
    /\ l.id # "" /\ l.revision_id # "" /\ l.quotation_id # "" /\ l.position >= 0
    /\ ~Blank(l.description) /\ l.quantity_scaled > 0 /\ l.unit_price_minor >= 0
    /\ Fits(l.quantity_scaled, l.unit_price_minor)
    /\ l.amount_minor = l.quantity_scaled * l.unit_price_minor
    /\ OriginIsKept(l)
    /\ (l.product_id = "") <=> (l.rate_origin = "OffCatalog")

OrderIsValid(o) ==
    LET direct == o.source_quotation_id = "" /\ o.source_revision_id = "" /\ o.source_revision = 0
        converted == o.source_quotation_id # "" /\ o.source_revision_id # "" /\ o.source_revision > 0
    IN /\ o.id # "" /\ Given(o.created_at, o.created_by) /\ o.promised_at >= 0
       /\ direct \/ converted
       /\ IF o.state = "Open"
          THEN Absent(o.cancelled_at, o.cancelled_by) /\ Blank(o.cancel_reason)
          ELSE Given(o.cancelled_at, o.cancelled_by) /\ ~Blank(o.cancel_reason)

OrderLineIsValid(l) ==
    /\ l.id # "" /\ l.order_id # "" /\ (l.product_id = "" => ~Blank(l.description))
    /\ l.position >= 0 /\ l.quantity_scaled > 0 /\ l.unit_price_minor \in 0 .. MaxPrice
    /\ Given(l.added_at, l.added_by)
    /\ l.price_source = "None" => l.price_overridden
    /\ l.price_overridden <=> ~Blank(l.price_reason)
    /\ Fits(l.quantity_scaled, l.unit_price_minor)

\* The evidence each state of a job needs and forbids.
JobEvidence(j) ==
    LET ticket == ~Blank(j.ticket_series) /\ j.ticket_number # 0
        noEnd == Absent(j.done_at, j.done_by)
        noCancel == Absent(j.cancelled_at, j.cancelled_by) /\ Blank(j.cancel_reason)
    IN CASE j.state = "Draft" -> /\ Blank(j.ticket_series) /\ j.ticket_number = 0
                                 /\ Absent(j.started_at, j.started_by) /\ noEnd /\ noCancel
         [] j.state = "InProgress" -> ticket /\ Given(j.started_at, j.started_by) /\ noEnd /\ noCancel
         [] j.state = "Done" -> /\ ticket /\ Given(j.started_at, j.started_by) /\ noCancel
                                /\ Given(j.done_at, j.done_by) /\ j.done_at >= j.started_at
                                /\ j.production = "Produced" /\ j.fulfilment = "Delivered"
         [] j.state = "Cancelled" -> /\ ticket /\ noEnd
                                     /\ Given(j.cancelled_at, j.cancelled_by)
                                     /\ ~Blank(j.cancel_reason)
                                     /\ j.started_at > 0 => j.cancelled_at >= j.started_at

JobIsValid(j) ==
    LET delivery == {j.delivered_by, j.received_by, j.delivery_signature_ref}
    IN /\ j.id # "" /\ Given(j.created_at, j.created_by) /\ j.party_id # " "
       /\ j.quantity_scaled > 0 /\ j.unit_price_minor >= 0
       /\ j.promised_at >= 0 /\ j.deadline_at >= 0
       /\ j.deadline_at > 0 /\ j.promised_at > 0 => j.deadline_at >= j.promised_at
       /\ j.source_order_line_id # "" => j.source_order_id # ""
       /\ ~(Blank(j.title) /\ Blank(j.description))
       /\ IF j.thin THEN Blank(j.specifications) ELSE ~Blank(j.description)
       /\ Fits(j.quantity_scaled, j.unit_price_minor)
       /\ j.total_price_minor = j.quantity_scaled * j.unit_price_minor
       /\ OriginIsKept(j) /\ JobEvidence(j)
       /\ IF j.fulfilment = "Delivered"
          THEN j.delivered_at > 0 /\ NoneBlank(delivery)
          ELSE j.delivered_at = 0 /\ AllBlank(delivery)
       /\ IF j.reprint_of_job_id = "" THEN Blank(j.reprint_reason) ELSE ~Blank(j.reprint_reason)

AgreementIsValid(a) ==
    /\ a.id # "" /\ ~Blank(a.party_id) /\ Given(a.created_at, a.created_by)
    /\ a.valid_from >= 0 /\ a.valid_until >= 0
    /\ a.valid_until > 0 => a.valid_until >= a.valid_from
    /\ a.id \notin {a.superseded_by, a.supersedes, a.renewed_from}
    /\ a.state = "Open" => Given(a.opened_at, a.opened_by)
    /\ a.state = "Closed" => Given(a.closed_at, a.closed_by) /\ ~Blank(a.close_reason)
    /\ a.state = "Superseded" => a.superseded_by # ""
    /\ ~Blank(a.signed_by_name) <=> a.signed_on > 0
    /\ ~Blank(a.signed_artifact) => ~Blank(a.signed_by_name)

AgreementLineIsValid(l) ==
    /\ l.id # "" /\ l.agreement_id # "" /\ l.position >= 0
    /\ NoneBlank({l.product_id, l.agreed_name})
    /\ l.rate_minor >= 0 /\ l.cap_scaled >= 0 /\ l.consumed_scaled >= 0
    /\ l.cap_scaled > 0 /\ l.consumed_scaled > l.cap_scaled => ~Blank(l.rate_reason)
    /\ Fits(l.cap_scaled, l.rate_minor)

ConsumptionIsValid(c) ==
    /\ NoneBlank({c.id, c.agreement_id, c.agreement_line_id, c.invoice_id, c.invoice_line_id})
    /\ c.quantity_scaled > 0 /\ Given(c.consumed_at, c.consumed_by)
    /\ \/ /\ c.state = "Active"
          /\ Absent(c.released_at, c.released_by) /\ Blank(c.release_reason)
       \/ /\ c.state = "Released" /\ c.released_at >= c.consumed_at
          /\ NoneBlank({c.released_by, c.release_reason})

\* The four groups of evidence an invoice carries, of which its state says
\* which are needed and which are forbidden.
InvoiceEvidence(i) ==
    LET numbered == ~Blank(i.number_series) /\ i.number # 0 /\ Given(i.issued_at, i.issued_by)
        notNumbered == Blank(i.number_series) /\ i.number = 0 /\ Absent(i.issued_at, i.issued_by)
        cancelled == Given(i.cancelled_at, i.cancelled_by) /\ ~Blank(i.cancel_reason)
        notCancelled == Absent(i.cancelled_at, i.cancelled_by) /\ Blank(i.cancel_reason)
    IN CASE i.state = "Draft" -> notNumbered /\ notCancelled
         [] i.state = "Issued" -> numbered /\ notCancelled
         [] i.state \in {"Cancelled", "Replaced"} -> numbered /\ cancelled
         [] i.state = "Discarded" -> notNumbered /\ notCancelled

InvoiceIsValid(i) ==
    /\ i.id # "" /\ Given(i.created_at, i.created_by) /\ i.due_at >= 0
    /\ InvoiceEvidence(i)
    /\ IF i.state = "Discarded" THEN Given(i.discarded_at, i.discarded_by)
                                ELSE Absent(i.discarded_at, i.discarded_by)
    /\ (i.replacement_invoice_id # "") <=> (i.state = "Replaced")

InvoiceLineIsValid(l) ==
    LET agreed == l.rate_origin = "Agreement"
    IN /\ l.id # "" /\ l.invoice_id # "" /\ l.position >= 0 /\ ~Blank(l.description)
       /\ l.quantity_scaled > 0 /\ l.rate_minor >= 0 /\ Given(l.added_at, l.added_by)
       /\ OriginIsKept(l)
       /\ agreed <=> NoneBlank({l.agreement_id, l.agreement_line_id})
       /\ IF agreed
          THEN l.agreement_rate_minor = l.rate_minor /\ l.agreement_quantity_scaled = l.quantity_scaled
          ELSE /\ l.agreement_id = "" /\ l.agreement_line_id = ""
               /\ l.agreement_rate_minor = 0 /\ l.agreement_quantity_scaled = 0
       /\ Fits(l.quantity_scaled, l.rate_minor)
       /\ l.amount_minor = l.quantity_scaled * l.rate_minor

PaymentIsValid(p) ==
    /\ ~Blank(p.id) /\ p.party_id # " " /\ p.amount_minor > 0
    /\ p.paid_at > 0 /\ p.recorded_at >= p.paid_at
    /\ NoneBlank({p.method, p.recorded_by})
    /\ ~Blank(p.receipt_series) <=> p.receipt_number # 0

AllocationIsValid(a) ==
    /\ NoneBlank({a.id, a.payment_id}) /\ a.amount_minor > 0
    /\ a.target_module \in {"receivables", "jobs"} /\ a.target_record_id # ""
    /\ Given(a.allocated_at, a.allocated_by)
    /\ \/ /\ a.state = "Active"
          /\ Absent(a.released_at, a.released_by) /\ Blank(a.release_reason)
       \/ /\ a.state = "Released"
          /\ Given(a.released_at, a.released_by) /\ ~Blank(a.release_reason)
          /\ a.released_at >= a.allocated_at

StatementIsValid(s) ==
    /\ NoneBlank({s.id, s.party_id, s.prepared_by})
    /\ s.period_from > 0 /\ s.period_through >= s.period_from
    /\ s.prepared_at >= s.period_through
    /\ \A total \in {s.opening_outstanding_minor, s.opening_unallocated_minor, s.charged_minor,
                     s.cancelled_minor, s.paid_minor, s.allocated_minor, s.released_minor,
                     s.outstanding_minor, s.unallocated_minor} : total >= 0

StatementEntryIsValid(e) ==
    /\ NoneBlank({e.id, e.statement_id, e.source_id}) /\ e.occurred_at > 0 /\ e.amount_minor > 0
    /\ ~AllBlank({e.reference, e.description}) /\ e.kind # Unknown

StatementDeliveryIsValid(d) ==
    /\ NoneBlank({d.id, d.statement_id, d.recipient, d.content_hash, d.transport_reference})
    /\ Given(d.sent_at, d.sent_by)

CreditAccountIsValid(c) ==
    /\ NoneBlank({c.id, c.party_id}) /\ c.credit_limit_minor >= 0 /\ c.credit_period_days >= 0
    /\ c.cycle_day \in 1 .. 31 /\ Given(c.updated_at, c.updated_by)

\* An override keeps the facts it was decided on, and they must still say
\* that there was something to override.
CreditOverrideIsValid(o) ==
    /\ NoneBlank({o.id, o.party_id, o.reason}) /\ Given(o.authorized_at, o.authorized_by)
    /\ o.target_module = "jobs" /\ o.target_record_id # ""
    /\ o.exposure_minor >= 0 /\ o.proposed_minor > 0 /\ o.credit_limit_minor >= 0
    /\ o.oldest_overdue_at >= 0 /\ o.exposure_minor + o.proposed_minor <= MaxMoney
    /\ o.over_limit <=> o.exposure_minor + o.proposed_minor > o.credit_limit_minor
    /\ o.over_period <=> o.oldest_overdue_at \in 1 .. (o.authorized_at - 1)
    /\ o.over_limit \/ o.over_period

\* A number block of a device: what is left of it lies within it.
BlockIsValid(b) ==
    /\ NoneBlank({b.id, b.series, b.assignment_reference}) /\ b.device_id # ""
    /\ b.document_kind = "Invoice" /\ b.assigned_at > 0
    /\ b.first_number > 0 /\ b.next_number \in b.first_number .. b.last_number
    /\ b.exhausted => b.next_number = b.last_number

\* The confirmation token ties the person's confirmation to what is sent, to
\* whom and how: a digest of these columns, here the columns themselves.
Token(d) ==
    d.id \o d.party_id \o d.document_module \o d.document_id \o d.document_version_id
    \o d.channel \o d.transport_profile_id \o d.recipient \o d.subject \o d.message_body
    \o d.attachment_name \o d.content_sha256
    \o (IF d.approval_requested THEN "approval" ELSE "delivery")

DeliveryIsValid(d) ==
    LET request == Given(d.requested_at, d.requested_by) /\ ~Blank(d.request_idempotency_key)
        noResult == d.accepted_at = 0 /\ d.transport_reference = "" /\ d.failure_reason = ""
    IN /\ NoneBlank({d.id, d.party_id, d.document_id, d.transport_profile_id,
                     d.recipient_contact_id, d.recipient, d.attachment_name, d.content_sha256})
       /\ d.document_module # Unknown /\ d.channel # Unknown /\ Given(d.prepared_at, d.prepared_by)
       /\ Size(d.transport_profile_id) <= 128 /\ Size(d.subject) <= 998
       /\ Size(d.message_body) <= 65536 /\ Size(d.attachment_name) <= 255
       /\ d.confirmation_token = Token(d)
       /\ IF d.state = "Prepared"
          THEN /\ d.requested_at = 0 /\ d.requested_by = "" /\ d.request_idempotency_key = ""
               /\ noResult
          ELSE /\ request
               /\ d.state = "Accepted" => /\ d.accepted_at >= d.requested_at
                                          /\ ~Blank(d.transport_reference) /\ d.failure_reason = ""
               /\ d.state = "Failed" => ~Blank(d.failure_reason)
               /\ d.state = "Requested" => noResult

\* The rates of pricing.
RateIsValid(r) ==
    /\ r.id # "" /\ r.product_id # "" /\ r.amount_minor \in 0 .. MaxPrice
    /\ r.valid_from >= 0 /\ r.valid_until >= 0
    /\ r.valid_from # 0 /\ r.valid_until # 0 => r.valid_until > r.valid_from

DefaultRateIsValid(r) == r.product_id # "" /\ r.amount_minor \in 0 .. MaxPrice

OverrideIsValid(o) ==
    o.id # "" /\ o.line_id # "" /\ o.overridden_minor \in 0 .. MaxPrice /\ ~Blank(o.reason)

\* Made and last changed, in that order.
Dated(r) == Given(r.created_at, r.created_by) /\ r.updated_at >= r.created_at /\ ~Blank(r.updated_by)

SupplierIsValid(s) == s.id # "" /\ s.lead_time_days >= 0 /\ Dated(s)

MaterialIsValid(m) == m.id # "" /\ ~Blank(m.name) /\ Dated(m)

PurchaseIsValid(p) ==
    /\ p.id # "" /\ NoneBlank({p.supplier_id, p.material_id}) /\ p.purchased_at > 0
    /\ p.quantity_scaled > 0 /\ p.total_cost_minor >= 0
    /\ Given(p.created_at, p.created_by) /\ p.purchased_at <= p.created_at
    /\ IF p.state = "Owed"
       THEN Absent(p.settled_at, p.settled_by) /\ Blank(p.settlement_note)
       ELSE Given(p.settled_at, p.settled_by) /\ p.settled_at >= p.purchased_at

TaskIsValid(t) ==
    LET pointed == t.target_record # ""
        last == t.last_completed_at > 0 \/ t.last_completed_by # ""
    IN /\ t.id # "" /\ ~Blank(t.title) /\ Dated(t)
       /\ t.due_at >= 0 /\ t.snoozed_until >= 0 /\ t.completion_count >= 0
       /\ pointed => t.target_module # Unknown
       /\ t.kind = "Reminder" => pointed /\ t.due_at > 0
       /\ IF t.kind = "Attention" THEN pointed /\ ~Blank(t.source_key) ELSE t.source_key = ""
       /\ IF t.kind = "Recurring"
          THEN t.due_at > 0 /\ t.recurrence_unit # "None" /\ t.recurrence_interval > 0
          ELSE t.recurrence_unit = "None" /\ t.recurrence_interval = 0
       /\ IF t.snoozed_until > 0 THEN t.state = "Open" /\ ~Blank(t.snooze_reason)
                                 ELSE t.snooze_reason = ""
       /\ IF t.state = "Completed"
          THEN /\ t.kind # "Recurring" /\ Given(t.completed_at, t.completed_by)
               /\ t.snoozed_until = 0
          ELSE t.completed_at = 0 /\ t.completed_by = ""
       /\ last => Given(t.last_completed_at, t.last_completed_by) /\ t.completion_count > 0

TaskEventIsValid(e) ==
    /\ e.id # "" /\ e.task_id # "" /\ Given(e.happened_at, e.happened_by)
    /\ e.previous_due_at >= 0 /\ e.next_due_at >= 0
    /\ e.kind = "Snoozed" => ~Blank(e.reason)

PartyIsValid(p) ==
    p.id # "" /\ ~Blank(p.display_name) /\ (p.is_customer \/ p.is_supplier) /\ p.net_days >= 0

ContactIsValid(c) == "" \notin {c.id, c.party_id, c.label, c.value}

PersonIsValid(p) ==
    /\ p.id # "" /\ ~Blank(p.display_name) /\ p.password_hash # ""
    /\ ~Blank(p.username) /\ Size(p.username) <= 40

DeviceIsValid(d) == d.id # "" /\ ~Blank(d.name)

ProductIsValid(p) == p.id # "" /\ ~Blank(p.name)

AssetIsValid(a) ==
    /\ a.id # "" /\ a.content_hash # "" /\ a.size_bytes >= 0 /\ a.predecessor_id # a.id
    /\ Given(a.created_at, a.created_by)
    /\ IF a.forgotten
       THEN Given(a.forgotten_at, a.forgotten_by) /\ ~Blank(a.forget_reason)
       ELSE a.forgotten_at = 0 /\ a.forgotten_by = "" /\ a.forget_reason = ""

LocationIsValid(l) ==
    /\ "" \notin {l.id, l.device_id, l.volume_id, l.file_id} /\ NoneBlank({l.asset_id, l.path})
    /\ l.modified_at >= 0 /\ l.observed_at > 0 /\ l.scan_generation > 0

LinkIsValid(l) ==
    /\ l.id # "" /\ NoneBlank({l.asset_id, l.role}) /\ l.target_module # Unknown
    /\ l.target_record # "" /\ Given(l.linked_at, l.linked_by)

VolumeIsValid(v) ==
    /\ "" \notin {v.id, v.device_id} /\ ~Blank(v.volume_id)
    /\ v.scan_generation >= 0 /\ v.observed_at > 0
=============================================================================
