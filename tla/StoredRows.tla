----------------------------- MODULE StoredRows -----------------------------
(***************************************************************************)
(* What a record becomes on disk and what it reads back as.  Every record  *)
(* type has its columns, written by to_row and read by from_row; a column  *)
(* is text, an integer, a yes or no, a positive number, or the code of an  *)
(* enumerator.  A column that is absent, of another kind, or a code from   *)
(* outside the enumeration (a damaged row, or one written by a newer       *)
(* build) reads as the column's fallback.                                  *)
(***************************************************************************)
EXTENDS RecordPages, TLC

CONSTANT
    MaxDays  \* the longest credit period a 32-bit column holds

(***************************** columns of a row ****************************)

Text(columns) == [c \in columns |-> [kind |-> "text"]]
Integer(columns) == [c \in columns |-> [kind |-> "integer", missing |-> 0]]
Flag(columns) == [c \in columns |-> [kind |-> "flag", missing |-> FALSE]]
Number(columns) == [c \in columns |-> [kind |-> "number"]]

\* An integer that reads as -1 when it is missing, which no rule accepts.
Amount(columns) == [c \in columns |-> [kind |-> "integer", missing |-> -1]]

\* An integer that reads as missing outside low .. high.
Within(column, low, high, missing) ==
    column :> [kind |-> "bounded", low |-> low, high |-> high, missing |-> missing]

\* Enumerators in the order of their codes, from 0; a missing code reads as
\* the code otherwise, one outside the enumeration as the enumerator fallback.
Code(column, names, otherwise, fallback) ==
    column :> [kind |-> "code", names |-> names, missing |-> otherwise, fallback |-> fallback]

\* The same, stored by name.
Named(column, names, fallback) == column :> [kind |-> "name", names |-> names, fallback |-> fallback]

At(names, code) == names[code + 1]
InTable(names, code) == code + 1 \in DOMAIN names

\* The kinds of value a column may hold on disk.
Null == <<"null">>
IsInteger(cell) == cell[1] = "integer"
IsText(cell) == cell[1] = "text"

IntegerOr(cell, missing) == IF IsInteger(cell) THEN cell[2] ELSE missing
TextOr(cell, missing) == IF IsText(cell) THEN cell[2] ELSE missing

CodeOf(column, value) ==
    IF \E i \in DOMAIN column.names : column.names[i] = value
    THEN (CHOOSE i \in DOMAIN column.names : column.names[i] = value) - 1 ELSE 255

Written(column, value) ==
    CASE column.kind \in {"text", "name"} -> <<"text", value>>
      [] column.kind \in {"integer", "number", "bounded"} -> <<"integer", value>>
      [] column.kind = "flag" -> <<"integer", IF value THEN 1 ELSE 0>>
      [] column.kind = "code" -> <<"integer", CodeOf(column, value)>>


FromCode(column, code) ==
    IF InTable(column.names, code) THEN At(column.names, code) ELSE column.fallback

Bounded(column, n) == IF n \in column.low .. column.high THEN n ELSE column.missing
Positive(n) == IF n > 0 THEN n ELSE 0

ReadAs(column, cell) ==
    CASE column.kind = "text" -> TextOr(cell, "")
      [] column.kind = "integer" -> IntegerOr(cell, column.missing)
      [] column.kind = "bounded" -> Bounded(column, IntegerOr(cell, column.missing))
      [] column.kind = "number" -> Positive(IntegerOr(cell, 0))
      [] column.kind = "flag" -> IF IsInteger(cell) THEN cell[2] # 0 ELSE column.missing
      [] column.kind = "code" -> FromCode(column, IntegerOr(cell, column.missing))
      [] column.kind = "name" -> IF \E i \in DOMAIN column.names : column.names[i] = TextOr(cell, "")
                                 THEN cell[2] ELSE column.fallback

(***************************** the record types ****************************)

OriginNames == <<"CatalogDefault", "PartySpecific", "Agreement", "ManualOverride", "OffCatalog">>
StateNames == <<"Draft", "Issued", "Accepted", "Expired">>

QuotationRows ==
    [quotation |-> Text({"id", "party_id", "customer_reference", "note", "created_by", "accepted_by",
                         "expired_by", "expiry_reason"})
                   @@ Code("state", StateNames, 3, "Expired")
                   @@ "current_revision" :> [kind |-> "integer", missing |-> 1]
                   @@ Integer({"accepted_revision", "created_at", "accepted_at", "expired_at"}),
     revision |-> Text({"id", "quotation_id", "series", "terms", "created_by", "issued_by"})
                  @@ "revision" :> [kind |-> "integer", missing |-> 1]
                  @@ Flag({"issued"}) @@ Number({"number"})
                  @@ Integer({"valid_until", "total_minor", "created_at", "issued_at"}),
     quotationLine |-> Text({"id", "revision_id", "quotation_id", "product_id", "description",
                             "specifications", "rate_reason"})
                       @@ Integer({"position", "quantity_scaled", "unit_price_minor", "amount_minor"})
                       @@ Code("rate_origin", OriginNames, 3, "ManualOverride")]

OrderRows ==
    [order |-> Text({"id", "party_id", "source_quotation_id", "source_revision_id", "note",
                     "created_by", "cancelled_by", "cancel_reason"})
               @@ Integer({"source_revision", "promised_at", "created_at", "cancelled_at"})
               @@ Code("state", <<"Open", "Cancelled">>, 1, "Cancelled"),
     orderLine |-> Text({"id", "order_id", "product_id", "description", "price_reason", "added_by"})
                   @@ Integer({"position", "quantity_scaled", "unit_price_minor", "added_at"})
                   @@ Code("price_source", <<"None", "PartyRate", "CatchAllRate", "Default">>, 0, "None")
                   @@ Flag({"price_overridden"})]

JobAxes ==
    Code("commercial", <<"Open", "Approved", "Closed">>, 2, "Closed")
    @@ Code("design", <<"NotNeeded", "Waiting", "Approved">>, 2, "Approved")
    @@ Code("production", <<"Queued", "Running", "Produced">>, 2, "Produced")
    @@ Code("fulfilment", <<"Waiting", "Ready", "Delivered">>, 2, "Delivered")
    @@ Code("payment", <<"Unbilled", "Invoiced", "PartPaid", "Paid">>, 3, "Paid")

JobRows ==
    [job |-> Text({"id", "party_id", "source_order_id", "source_order_line_id", "source_quotation_id",
                   "ticket_series", "title", "description", "specifications", "rate_reason", "note",
                   "material_reference", "delivered_by", "received_by", "delivery_signature_ref",
                   "proof_approval_ref", "reprint_of_job_id", "reprint_reason", "created_by",
                   "started_by", "done_by", "cancelled_by", "cancel_reason"})
             @@ Integer({"quantity_scaled", "unit_price_minor", "total_price_minor", "promised_at",
                         "deadline_at", "delivered_at", "created_at", "started_at", "done_at",
                         "cancelled_at"})
             @@ Code("state", <<"Draft", "InProgress", "Done", "Cancelled">>, 3, "Cancelled")
             @@ Number({"ticket_number"}) @@ Flag({"thin"})
             @@ Code("rate_origin", OriginNames, 3, "ManualOverride") @@ JobAxes]

AgreementRows ==
    [agreement |-> Text({"id", "party_id", "source_quotation_id", "supersedes", "superseded_by",
                         "renewed_from", "terms", "customer_reference", "note", "signed_by_name",
                         "signed_artifact", "created_by", "opened_by", "closed_by", "close_reason",
                         "reopened_by", "reopen_reason"})
                   @@ Integer({"valid_from", "valid_until", "signed_on", "created_at", "opened_at",
                               "closed_at", "reopened_at"})
                   @@ Code("state", <<"Draft", "Open", "Closed", "Superseded">>, 3, "Superseded")
                   @@ Code("fallback", <<"CatalogPrice", "RefuseOutsideScope">>, 1, "RefuseOutsideScope")
                   @@ Code("close_effect", <<"KeepAgreedRate", "RevertToCatalog">>, 1, "RevertToCatalog"),
     agreementLine |-> Text({"id", "agreement_id", "product_id", "agreed_name", "specifications",
                             "rate_reason"})
                       @@ Integer({"position", "rate_minor", "cap_scaled", "consumed_scaled"})]

\* Columns shared by what an invoice takes and gives back: taken once,
\* released once; a code this build does not know stays unknown.
TakenAndReleased == Code("state", <<"Active", "Released">>, -1, Unknown)
                    @@ Integer({"released_at"}) @@ Text({"released_by", "release_reason"})

ConsumptionRows ==
    [consumption |-> Text({"id", "agreement_id", "agreement_line_id", "invoice_id", "invoice_line_id",
                           "consumed_by"})
                     @@ Integer({"quantity_scaled", "consumed_at"}) @@ TakenAndReleased]

InvoiceRows ==
    [invoice |-> Text({"id", "party_id", "number_series", "note", "created_by", "issued_by",
                       "cancelled_by", "cancel_reason", "discarded_by", "replaces_invoice_id",
                       "replacement_invoice_id"})
                 @@ Code("state", <<"Draft", "Issued", "Cancelled", "Replaced", "Discarded">>,
                         2, "Cancelled")
                 @@ Number({"number"})
                 @@ Integer({"due_at", "created_at", "issued_at", "cancelled_at", "discarded_at"}),
     invoiceLine |-> Text({"id", "invoice_id", "product_id", "description", "rate_reason",
                           "agreement_id", "agreement_line_id", "added_by"})
                     @@ Integer({"position", "quantity_scaled", "rate_minor", "amount_minor",
                                 "agreement_rate_minor", "agreement_quantity_scaled", "added_at"})
                     @@ Code("rate_origin", OriginNames, 3, "ManualOverride")]

\* A module by its number; only those the rules tell apart are named.
Module(column) == Code(column, <<"receivables", "jobs", "another">>, -1, Unknown)

PaymentRows ==
    [payment |-> Text({"id", "party_id", "method", "external_reference", "note", "receipt_series",
                       "recorded_by"})
                 @@ Integer({"amount_minor", "paid_at", "recorded_at"}) @@ Number({"receipt_number"}),
     allocation |-> Text({"id", "payment_id", "target_record_id", "allocated_by"})
                    @@ Module("target_module") @@ Integer({"amount_minor", "allocated_at"})
                    @@ TakenAndReleased]

StatementRows ==
    [statement |-> Text({"id", "party_id", "prepared_by"})
                   @@ Integer({"period_from", "period_through", "prepared_at"})
                   @@ Amount({"opening_outstanding_minor", "opening_unallocated_minor",
                              "charged_minor", "cancelled_minor", "paid_minor", "allocated_minor",
                              "released_minor", "outstanding_minor", "unallocated_minor"}),
     statementEntry |-> Text({"id", "statement_id", "source_id", "reference", "description"})
                        @@ Code("kind", <<"InvoiceCharged", "PaymentReceived", "AllocationReleased",
                                          "PaymentAllocated", "InvoiceCancelled">>, -1, Unknown)
                        @@ Integer({"occurred_at", "amount_minor"}),
     statementDelivery |-> Text({"id", "statement_id", "recipient", "content_hash",
                                 "transport_reference", "sent_by"}) @@ Integer({"sent_at"})]

CreditRows ==
    [creditAccount |-> Text({"id", "party_id", "updated_by"}) @@ Integer({"updated_at"})
                       @@ Within("credit_period_days", 0, MaxDays, -1) @@ Within("cycle_day", 1, 31, 0)
                       @@ Amount({"credit_limit_minor"}),
     creditOverride |-> Text({"id", "party_id", "target_record_id", "reason", "authorized_by"})
                        @@ Code("target_module", <<"other", "jobs">>, -1, Unknown)
                        @@ Amount({"exposure_minor", "credit_limit_minor", "oldest_overdue_at"})
                        @@ Integer({"proposed_minor", "authorized_at"})
                        @@ Flag({"over_limit", "over_period"})]

BlockRows ==
    [block |-> Text({"id", "series", "device_id", "assignment_reference"})
               @@ Code("document_kind", <<"Invoice">>, -1, Unknown)
               @@ Number({"first_number", "next_number", "last_number"})
               @@ Flag({"exhausted"}) @@ Integer({"assigned_at"})]

DeliveryRows ==
    [delivery |-> Text({"id", "party_id", "document_id", "document_version_id",
                        "transport_profile_id", "recipient_contact_id", "recipient", "subject",
                        "message_body", "attachment_name", "content_sha256", "confirmation_token",
                        "prepared_by", "requested_by", "request_idempotency_key",
                        "transport_reference", "failure_reason"})
                  @@ Module("document_module") @@ Code("channel", <<"Email", "WhatsApp">>, -1, Unknown)
                  @@ Code("state", <<"Prepared", "Requested", "Accepted", "Failed">>, -1, Unknown)
                  @@ Flag({"approval_requested"})
                  @@ Integer({"prepared_at", "requested_at", "accepted_at"})]

RateRows ==
    [rate |-> Text({"id", "product_id", "party_id", "created_by"})
              @@ Integer({"amount_minor", "valid_from", "valid_until", "created_at"}),
     defaultRate |-> Text({"product_id", "updated_by"}) @@ Integer({"amount_minor", "updated_at"}),
     rateOverride |-> Text({"id", "line_id", "reason", "applied_by"})
                      @@ Integer({"overridden_minor", "applied_at"})]

CreatedAndUpdated == Text({"created_by", "updated_by"}) @@ Integer({"created_at", "updated_at"})

SourcingRows ==
    [supplier |-> Text({"id", "supplies", "reliability_notes", "sourcing_notes"}) @@ CreatedAndUpdated
                  @@ Integer({"lead_time_days"})
                  @@ Code("kind", <<"LocalDealer", "Importer">>, 0, "LocalDealer"),
     material |-> Text({"id", "name", "description"}) @@ CreatedAndUpdated,
     purchase |-> Text({"id", "supplier_id", "material_id", "bill_file_ref", "settled_by",
                        "settlement_note", "created_by"})
                  @@ Integer({"purchased_at", "quantity_scaled", "total_cost_minor", "settled_at",
                              "created_at"})
                  @@ Code("state", <<"Owed", "Paid">>, 0, "Owed")]

TaskRows ==
    [task |-> Text({"id", "title", "note", "target_record", "source_key", "snooze_reason",
                    "completed_by", "last_completed_by"}) @@ CreatedAndUpdated
              @@ Module("target_module")
              @@ Integer({"due_at", "snoozed_until", "recurrence_interval", "completion_count",
                          "completed_at", "last_completed_at"})
              @@ Code("kind", <<"Personal", "Reminder", "Recurring", "Attention">>, 3, "Attention")
              @@ Code("state", <<"Open", "Completed">>, 1, "Completed")
              @@ Code("recurrence_unit", <<"None", "Day", "Week", "Month", "Year">>, 0, "None"),
     taskEvent |-> Text({"id", "task_id", "happened_by", "reason"})
                   @@ Integer({"happened_at", "previous_due_at", "next_due_at"})
                   @@ Code("kind", <<"Created", "Updated", "Completed", "Snoozed">>, 1, "Updated")]

PartyRows ==
    [party |-> Text({"id", "display_name", "notes", "customer_ref"}) @@ CreatedAndUpdated
               @@ Named("kind", <<"individual", "organisation">>, "individual")
               @@ Named("billing", <<"pay_per_job", "credit_account", "quoted_rate">>, "pay_per_job")
               @@ Flag({"is_supplier", "archived"})
               @@ "is_customer" :> [kind |-> "flag", missing |-> TRUE] @@ Integer({"net_days"}),
     contact |-> Text({"id", "party_id", "label", "value"}) @@ Integer({"added_at"})]

PeopleRows ==
    [person |-> Text({"id", "display_name", "username", "password_hash", "created_by"})
                @@ Flag({"is_owner", "disabled"}) @@ Integer({"created_at", "updated_at"})]

MachineRows ==
    [device |-> Text({"id", "name", "registered_by"}) @@ Flag({"retired"})
                @@ Integer({"registered_at", "retired_at"})]

ProductRows ==
    [product |-> Text({"id", "name", "description"}) @@ CreatedAndUpdated @@ Flag({"archived"})]

FileRows ==
    [asset |-> Text({"id", "content_hash", "extension", "media_type", "predecessor_id",
                     "forgotten_by", "forget_reason", "created_by"})
               @@ Integer({"size_bytes", "forgotten_at", "created_at"}) @@ Flag({"forgotten"}),
     location |-> Text({"id", "device_id", "volume_id", "file_id", "asset_id", "path"})
                  @@ Code("presence", <<"Present", "Missing">>, 1, "Missing")
                  @@ Integer({"modified_at", "observed_at", "scan_generation"}),
     link |-> Text({"id", "asset_id", "target_record", "role", "search_text", "linked_by"})
              @@ Module("target_module") @@ Integer({"linked_at"}),
     volume |-> Text({"id", "device_id", "volume_id", "label"})
                @@ Code("state", <<"Online", "Offline", "Stale">>, 2, "Stale")
                @@ Integer({"scan_generation", "observed_at"})]

Schemas ==
    QuotationRows @@ OrderRows @@ JobRows @@ AgreementRows @@ ConsumptionRows @@ InvoiceRows
    @@ PaymentRows @@ StatementRows @@ CreditRows @@ BlockRows @@ DeliveryRows @@ RateRows
    @@ SourcingRows @@ TaskRows @@ PartyRows @@ PeopleRows @@ MachineRows @@ ProductRows @@ FileRows

ToRow(type, record) == [c \in DOMAIN Schemas[type] |-> Written(Schemas[type][c], record[c])]

\* A target of an unknown module is no target: its record is not read.
WithTarget(record) ==
    IF "target_record" \in DOMAIN record /\ record.target_module = Unknown
    THEN [record EXCEPT !.target_record = ""] ELSE record

FromRow(type, cells) ==
    WithTarget([c \in DOMAIN Schemas[type] |-> ReadAs(Schemas[type][c], cells[c])])

-----------------------------------------------------------------------------
(* One stored record, the handlers that change it, and damage.  A handler  *)
(* reads the row, refuses by the state it reads, changes the record,       *)
(* validates it and writes every column back.  Damage strikes a column at  *)
(* any time: the column is lost, or holds a value this build does not      *)
(* know.                                                                   *)

CONSTANTS
    Now,        \* the moment of every change
    Person,     \* who makes it
    MaxDue,     \* a bound: no task is moved past it
    MaxQuoted,  \* a bound: no quotation has more revisions
    MaxDamage   \* how many columns are struck at most

VARIABLES
    what,     \* the type of the record
    row,      \* its stored row: the cell of every column
    kept,     \* the record last written
    damaged   \* the columns struck

rowVars == <<what, row, kept, damaged>>

(********************************* rules ***********************************)

IsValid(type, r) ==
    CASE type = "quotation" -> QuotationIsValid(r)
      [] type = "revision" -> RevisionIsValid(r)
      [] type = "quotationLine" -> QuotationLineIsValid(r)
      [] type = "order" -> OrderIsValid(r)
      [] type = "orderLine" -> OrderLineIsValid(r)
      [] type = "job" -> JobIsValid(r)
      [] type = "agreement" -> AgreementIsValid(r)
      [] type = "agreementLine" -> AgreementLineIsValid(r)
      [] type = "consumption" -> ConsumptionIsValid(r)
      [] type = "invoice" -> InvoiceIsValid(r)
      [] type = "invoiceLine" -> InvoiceLineIsValid(r)
      [] type = "payment" -> PaymentIsValid(r)
      [] type = "allocation" -> AllocationIsValid(r)
      [] type = "statement" -> StatementIsValid(r)
      [] type = "statementEntry" -> StatementEntryIsValid(r)
      [] type = "statementDelivery" -> StatementDeliveryIsValid(r)
      [] type = "creditAccount" -> CreditAccountIsValid(r)
      [] type = "creditOverride" -> CreditOverrideIsValid(r)
      [] type = "block" -> BlockIsValid(r)
      [] type = "delivery" -> DeliveryIsValid(r)
      [] type = "rate" -> RateIsValid(r)
      [] type = "defaultRate" -> DefaultRateIsValid(r)
      [] type = "rateOverride" -> OverrideIsValid(r)
      [] type = "supplier" -> SupplierIsValid(r)
      [] type = "material" -> MaterialIsValid(r)
      [] type = "purchase" -> PurchaseIsValid(r)
      [] type = "task" -> TaskIsValid(r)
      [] type = "taskEvent" -> TaskEventIsValid(r)
      [] type = "party" -> PartyIsValid(r)
      [] type = "contact" -> ContactIsValid(r)
      [] type = "person" -> PersonIsValid(r)
      [] type = "device" -> DeviceIsValid(r)
      [] type = "product" -> ProductIsValid(r)
      [] type = "asset" -> AssetIsValid(r)
      [] type = "location" -> LocationIsValid(r)
      [] type = "link" -> LinkIsValid(r)
      [] type = "volume" -> VolumeIsValid(r)

(******************************** handlers *********************************)

\* What a handler would make of the record: its name and the record after it.
\* A set, empty where the handler refuses the state it reads.
Does(name, allowed, after) == IF allowed THEN {[op |-> name, after |-> after]} ELSE {}

\* Updated by whom and when.
Touched(r) == [r EXCEPT !.updated_at = Now, !.updated_by = Person]

QuotationSteps(q) ==
    Does("accept", q.state = "Issued",
         [q EXCEPT !.state = "Accepted", !.accepted_revision = q.current_revision,
                   !.accepted_at = Now, !.accepted_by = Person])
    \cup Does("expire", q.state \in {"Draft", "Issued"},
              [q EXCEPT !.state = "Expired", !.expired_at = Now, !.expired_by = Person])
    \cup Does("issue", q.state \in {"Draft", "Issued"}, [q EXCEPT !.state = "Issued"])
    \cup UNION {Does("revise", q.state \in {"Draft", "Issued"},
                     [q EXCEPT !.state = "Draft", !.current_revision = @ + further]) :
                   further \in {0, 1}}

RevisionSteps(r) ==
    Does("issue", ~r.issued,
         [r EXCEPT !.issued = TRUE, !.series = "A", !.number = 1, !.issued_at = Now, !.issued_by = Person])

OrderSteps(o) ==
    Does("update", o.state = "Open", [o EXCEPT !.note = "n"])
    \cup Does("cancel", o.state = "Open",
              [o EXCEPT !.state = "Cancelled", !.cancelled_at = Now, !.cancelled_by = Person,
                        !.cancel_reason = "c"])

JobSteps(j) ==
    LET changes == j.state \in {"Draft", "InProgress"}
        ticketed == ~Blank(j.ticket_series) /\ j.ticket_number # 0
        numbered == IF ticketed THEN j ELSE [j EXCEPT !.ticket_series = "J", !.ticket_number = 1]
    IN Does("update", changes, [j EXCEPT !.note = "n"])
       \cup Does("state_change", j.state = "Draft",
                 [j EXCEPT !.state = "InProgress", !.ticket_series = "J", !.ticket_number = 1,
                           !.started_at = Now, !.started_by = Person,
                           !.production = IF @ = "Queued" THEN "Running" ELSE @])
       \cup Does("state_change", j.state = "InProgress",
                 [j EXCEPT !.state = "Done", !.done_at = Now, !.done_by = Person,
                           !.production = "Produced", !.fulfilment = "Delivered",
                           !.delivered_at = Now, !.delivered_by = "d", !.received_by = "r",
                           !.delivery_signature_ref = "s"])
       \cup Does("cancel", changes,
                 [numbered EXCEPT !.state = "Cancelled", !.cancelled_at = Now,
                                  !.cancelled_by = Person, !.cancel_reason = "c"])

AgreementSteps(a) ==
    Does("update", a.state \in {"Draft", "Open"}, [a EXCEPT !.terms = "n"])
    \cup Does("close", a.state = "Open",
              [a EXCEPT !.state = "Closed", !.closed_at = Now, !.closed_by = Person, !.close_reason = "c"])
    \cup Does("reopen", a.state \in {"Draft", "Closed"},
              [a EXCEPT !.state = "Open", !.reopened_at = Now, !.reopened_by = Person,
                        !.reopen_reason = "c",
                        !.opened_at = IF a.opened_at <= 0 THEN Now ELSE @,
                        !.opened_by = IF a.opened_at <= 0 THEN Person ELSE @])

InvoiceSteps(i) ==
    Does("update", i.state = "Draft", [i EXCEPT !.note = "n"])
    \cup Does("discard", i.state = "Draft",
              [i EXCEPT !.state = "Discarded", !.discarded_at = Now, !.discarded_by = Person])
    \cup Does("issue", i.state = "Draft" /\ InvoiceIsValid(i),
              [i EXCEPT !.state = "Issued", !.number_series = "A", !.number = 1,
                        !.issued_at = Now, !.issued_by = Person])
    \cup Does("cancel", i.state = "Issued" /\ InvoiceIsValid(i),
              [i EXCEPT !.state = "Cancelled", !.cancelled_at = Now, !.cancelled_by = Person,
                        !.cancel_reason = "c"])

\* Cancelling the invoice validates what it releases before it looks.
Release(r) == [r EXCEPT !.state = "Released", !.released_at = Now, !.released_by = Person,
                        !.release_reason = "c"]
ConsumptionSteps(c) == Does("cancel", ConsumptionIsValid(c) /\ c.state # "Released", Release(c))
AllocationSteps(a) ==
    Does("release", a.state = "Active", Release(a))
    \cup Does("cancel", AllocationIsValid(a) /\ a.state # "Released", Release(a))

BlockSteps(b) ==
    Does("allocate", BlockIsValid(b) /\ ~b.exhausted,
         IF b.next_number = b.last_number THEN [b EXCEPT !.exhausted = TRUE]
                                          ELSE [b EXCEPT !.next_number = @ + 1])

PurchaseSteps(p) ==
    Does("settle", p.state = "Owed" /\ Now >= p.purchased_at,
         [p EXCEPT !.state = "Paid", !.settled_at = Now, !.settled_by = Person])

TaskSteps(t) ==
    LET woken == [Touched(t) EXCEPT !.snoozed_until = 0, !.snooze_reason = ""]
    IN Does("update", t.state = "Open", Touched(t))
       \cup Does("snooze", t.state = "Open",
            [Touched(t) EXCEPT !.snoozed_until = Now + 1, !.snooze_reason = "c"])
       \cup Does("complete", t.state = "Open",
                 IF t.kind = "Recurring"
                 THEN [woken EXCEPT !.due_at = @ + t.recurrence_interval, !.completion_count = 1,
                                    !.last_completed_at = Now, !.last_completed_by = Person]
                 ELSE [woken EXCEPT !.state = "Completed", !.completed_at = Now,
                                    !.completed_by = Person, !.completion_count = 1])

\* Whoever disables a person is somebody else.
PersonSteps(p) ==
    LET touched == [p EXCEPT !.updated_at = Now]
    IN Does("update", TRUE, [touched EXCEPT !.display_name = "m"])
       \cup Does("disable", ~p.is_owner /\ ~p.disabled, [touched EXCEPT !.disabled = TRUE])

PartySteps(p) ==
    Does("update", ~p.archived, [Touched(p) EXCEPT !.notes = "n"])
    \cup Does("terms_set", p.is_customer, [Touched(p) EXCEPT !.billing = "credit_account"])
    \cup Does("archive", ~p.archived, [Touched(p) EXCEPT !.archived = TRUE])

ProductSteps(p) ==
    Does("update", ~p.archived, [Touched(p) EXCEPT !.description = "n"])
    \cup Does("archive", ~p.archived, [Touched(p) EXCEPT !.archived = TRUE])

RateSteps(r) == Does("set", TRUE, [r EXCEPT !.amount_minor = 2])

SupplierSteps(s) == Does("update", TRUE, [Touched(s) EXCEPT !.supplies = "n"])

\* Retired from another machine.
DeviceSteps(d) == Does("retire", ~d.retired, [d EXCEPT !.retired = TRUE, !.retired_at = Now])

AssetSteps(a) ==
    Does("forget", ~a.forgotten,
         [a EXCEPT !.forgotten = TRUE, !.forgotten_at = Now, !.forgotten_by = Person,
                   !.forget_reason = "c"])

Steps(type, r) ==
    CASE type = "quotation" -> QuotationSteps(r)
      [] type = "revision" -> RevisionSteps(r)
      [] type = "order" -> OrderSteps(r)
      [] type = "job" -> JobSteps(r)
      [] type = "agreement" -> AgreementSteps(r)
      [] type = "invoice" -> InvoiceSteps(r)
      [] type = "consumption" -> ConsumptionSteps(r)
      [] type = "allocation" -> AllocationSteps(r)
      [] type = "block" -> BlockSteps(r)
      [] type = "purchase" -> PurchaseSteps(r)
      [] type = "task" -> TaskSteps(r)
      [] type = "person" -> PersonSteps(r)
      [] type = "party" -> PartySteps(r)
      [] type = "product" -> ProductSteps(r)
      [] type = "rate" -> RateSteps(r)
      [] type = "supplier" -> SupplierSteps(r)
      [] type = "device" -> DeviceSteps(r)
      [] type = "asset" -> AssetSteps(r)
      [] OTHER -> {}

\* What is asked of the record and leaves it as it is: it reads the record,
\* refuses by its state, and writes to others or to none.
Asked(type, r) ==
    CASE type = "person" -> When(~r.disabled, {"grant"}) \cup When(~r.is_owner, {"revoke"})
      [] type = "party" -> {"contact_add"}
      [] type = "rate" -> {"remove"}
      [] type = "order" -> When(r.state = "Open", {"line_add", "to_jobs"})
      [] type = "invoice" -> When(r.state = "Issued", {"allocate"})
                             \cup When(r.state \notin {"Draft", "Discarded"}, {"print"})
      [] type = "quotation" -> When(r.state = "Accepted", {"to_order"})
      [] type = "supplier" -> {"lookup"}
      [] type = "asset" -> When(~r.forgotten, {"link"})
      [] OTHER -> {}

\* These save the record without validating it.
Unchecked == {<<"person", "disable">>, <<"party", "terms_set">>, <<"party", "archive">>,
              <<"product", "archive">>, <<"device", "retire">>}

\* Any other handler succeeds when the record it would write is valid.
Succeeds(type, r) ==
    {s \in Steps(type, r) : <<type, s.op>> \in Unchecked \/ IsValid(type, s.after)}
Offers(type, r) == {s.op : s \in Succeeds(type, r)} \cup Asked(type, r)

(********************************* actions *********************************)

Handle ==
    \E s \in Succeeds(what, FromRow(what, row)) :
        /\ what = "task" => s.after.due_at <= MaxDue
        /\ what = "quotation" => s.after.current_revision <= MaxQuoted
        /\ row' = ToRow(what, s.after)
        /\ kept' = s.after
        /\ UNCHANGED <<what, damaged>>

\* What damage leaves of a cell: nothing, another kind of value, or a value
\* outside what this build writes there.
Debris(column) ==
    IF column.kind \in {"text", "name"} THEN {Null, <<"integer", 9>>, <<"text", "?">>}
    ELSE IF column.kind \in {"code", "bounded"} THEN {Null, <<"text", "?">>, <<"integer", 99>>}
    ELSE {Null, <<"text", "?">>}

\* All the damage comes before the next change is written over it.
Intact == row = ToRow(what, kept)

Damage ==
    /\ Cardinality(damaged) < MaxDamage /\ (Intact => damaged = {})
    /\ \E c \in DOMAIN Schemas[what] : \E cell \in Debris(Schemas[what][c]) :
        /\ row' = [row EXCEPT ![c] = cell]
        /\ damaged' = damaged \cup {c}
    /\ UNCHANGED <<what, kept>>

RowsNext == Handle \/ Damage

(******************************* properties ********************************)

\* A row that nothing has struck since it was written reads as exactly the
\* record written to it, whatever its type and state: no column is forgotten,
\* swapped, or coded one way and decoded another, through any sequence of
\* changes (the to_row and from_row of every domain file).
ReadsBack == Intact => FromRow(what, row) = kept

\* What damage opens that was closed: the type, the column and what it opens.
\* A purchase says so itself (sourcing.cpp, purchase_state_from).  Most others
\* are flags that read as no when they are lost: an issued revision, a used-up
\* number block, an owner, a disabled person, a retired device, an archived
\* party or product, a forgotten file; and a supplier reads as a customer.  An
\* invoice whose state is lost reads as cancelled, and can be printed.
FailsOpen ==
    {<<"purchase", "state", "settle">>, <<"revision", "issued", "issue">>,
     <<"block", "exhausted", "allocate">>, <<"person", "is_owner", "disable">>,
     <<"person", "is_owner", "revoke">>, <<"person", "disabled", "disable">>,
     <<"person", "disabled", "grant">>, <<"device", "retired", "retire">>,
     <<"party", "archived", "update">>, <<"party", "archived", "archive">>,
     <<"party", "is_customer", "terms_set">>, <<"product", "archived", "update">>,
     <<"product", "archived", "archive">>, <<"asset", "forgotten", "forget">>,
     <<"asset", "forgotten", "link">>, <<"invoice", "state", "print">>}

\* What the damage done may open.
OpenedByDamage == {f[3] : f \in {g \in FailsOpen : g[1] = what /\ g[2] \in damaged}}

\* Damage never makes a record do what the intact record would have refused:
\* a row damaged on disk does not read back as a draft someone can reprice
\* (quotation.cpp, state_from), as an agreement in force, or as money free to
\* be spent again.  A fallback that opens a state is caught, or the rules
\* refuse the evidence that contradicts it.
DamageUnlocksNothing ==
    Offers(what, FromRow(what, row)) \subseteq Offers(what, kept) \cup OpenedByDamage

=============================================================================
