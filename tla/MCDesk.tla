------------------------------- MODULE MCDesk -------------------------------
(***************************************************************************)
(* Four parts of one workstation: its navigation, a list on the screen,    *)
(* the records it stores and shows, and the signed-in workspace.  A        *)
(* behaviour is of one of them, and the others stand still; those of the   *)
(* workspace are either of administration or of trade.                     *)
(*                                                                         *)
(* Three screens, one of them for everybody; a list of four rows in pages  *)
(* of one, of which two are kept; a few records of every type, each in the *)
(* states it can be saved in; two people and two machines, and an          *)
(* operation table with the rights of the real one merged into one, that   *)
(* of granting it, and a module that another needs.                        *)
(***************************************************************************)
EXTENDS Navigation, ListPages, StoredRows, Commands

ThreeRoutes ==
    {s \in Screens : s.id \in {"dashboard.home", "orders.list", "receivables.invoices"}}

\* A new record of a type, as its struct starts out.
Fresh(type) ==
    [c \in DOMAIN Schemas[type] |->
        LET column == Schemas[type][c]
        IN CASE column.kind = "text" -> ""
             [] column.kind \in {"integer", "number", "bounded"} -> 0
             [] column.kind = "flag" -> FALSE
             [] column.kind \in {"code", "name"} -> column.names[1]]

Made(type, given) ==
    [c \in DOMAIN Schemas[type] |-> IF c \in DOMAIN given THEN given[c] ELSE Fresh(type)[c]]

Created == [created_at |-> 1, created_by |-> "p"]
Changed == [updated_at |-> 1, updated_by |-> "p"] @@ Created
Accepted == [state |-> "Accepted", accepted_revision |-> 2, accepted_at |-> 2, accepted_by |-> "p"]
Cancelled == [state |-> "Cancelled", cancelled_at |-> 2, cancelled_by |-> "p", cancel_reason |-> "c"]
Numbered == [number_series |-> "A", number |-> 1, issued_at |-> 2, issued_by |-> "p"]
Issued == [state |-> "Issued"] @@ Numbered
Ticketed == [ticket_series |-> "J", ticket_number |-> 1, started_at |-> 2, started_by |-> "p"]
Delivered == [production |-> "Produced", fulfilment |-> "Delivered", delivered_at |-> 2,
              delivered_by |-> "d", received_by |-> "r", delivery_signature_ref |-> "s"]
Priced == [quantity_scaled |-> 2, rate_minor |-> 1, amount_minor |-> 2]
Opened == [state |-> "Open", opened_at |-> 1, opened_by |-> "p"]
Freed == [state |-> "Released", released_at |-> 2, released_by |-> "p", release_reason |-> "c"]
Requested == [state |-> "Requested", requested_at |-> 2, requested_by |-> "p",
              request_idempotency_key |-> "k"]

QuotationSamples ==
    LET one == [id |-> "q", current_revision |-> 2] @@ Created
        revision == [id |-> "r", quotation_id |-> "q", revision |-> 1, total_minor |-> 2] @@ Created
        line == [id |-> "l", revision_id |-> "r", quotation_id |-> "q", description |-> "d",
                 quantity_scaled |-> 2, unit_price_minor |-> 1, amount_minor |-> 2]
    IN [quotation |-> {one, [state |-> "Issued"] @@ one, Accepted @@ one,
                       [state |-> "Expired", expired_at |-> 2, expired_by |-> "p"] @@ one},
        revision |-> {revision, [issued |-> TRUE, series |-> "A", number |-> 1, issued_at |-> 2,
                                 issued_by |-> "p", valid_until |-> 3] @@ revision},
        quotationLine |-> {[product_id |-> "x"] @@ line, [rate_origin |-> "OffCatalog"] @@ line,
                           [product_id |-> "x", rate_origin |-> "Agreement",
                            rate_reason |-> "c"] @@ line}]

OrderSamples ==
    LET one == [id |-> "o"] @@ Created
        line == [id |-> "l", order_id |-> "o", product_id |-> "x", quantity_scaled |-> 2,
                 unit_price_minor |-> 1, added_at |-> 1, added_by |-> "p"]
    IN [order |-> {one, Cancelled @@ one, [source_quotation_id |-> "q", source_revision_id |-> "r",
                                           source_revision |-> 1] @@ one},
        orderLine |-> {[price_source |-> "Default"] @@ line,
                       [price_overridden |-> TRUE, price_reason |-> "c"] @@ line}]

JobSamples ==
    LET one == [id |-> "j", title |-> "t", thin |-> TRUE, quantity_scaled |-> 2,
                unit_price_minor |-> 1, total_price_minor |-> 2] @@ Created
        started == [state |-> "InProgress"] @@ Ticketed @@ one
    IN [job |-> {one, started, Delivered @@ started, Cancelled @@ started,
                 [state |-> "Done", done_at |-> 3, done_by |-> "p"] @@ Delivered @@ started}]

AgreementSamples ==
    LET one == [id |-> "a", party_id |-> "c", valid_from |-> 1] @@ Created
        going == Opened @@ one
        line == [id |-> "l", agreement_id |-> "a", product_id |-> "x", agreed_name |-> "n",
                 rate_minor |-> 1, cap_scaled |-> 2]
    IN [agreement |-> {one, going, [state |-> "Superseded", superseded_by |-> "b"] @@ going,
                       [state |-> "Closed", closed_at |-> 2, closed_by |-> "p",
                        close_reason |-> "c"] @@ going},
        agreementLine |-> {line, [consumed_scaled |-> 3, rate_reason |-> "c"] @@ line}]

InvoiceSamples ==
    LET one == [id |-> "i"] @@ Created
        line == [id |-> "l", invoice_id |-> "i", description |-> "d", added_at |-> 1,
                 added_by |-> "p"] @@ Priced
        taken == [id |-> "t", agreement_id |-> "a", agreement_line_id |-> "l", invoice_id |-> "i",
                  invoice_line_id |-> "m", quantity_scaled |-> 1, consumed_at |-> 1,
                  consumed_by |-> "p"]
    IN [invoice |-> {one, Issued @@ one, Cancelled @@ Issued @@ one,
                     [state |-> "Replaced", replacement_invoice_id |-> "n"]
                     @@ Cancelled @@ Issued @@ one,
                     [state |-> "Discarded", discarded_at |-> 2, discarded_by |-> "p"] @@ one},
        invoiceLine |-> {line, [rate_origin |-> "Agreement", rate_reason |-> "c",
                                agreement_id |-> "a", agreement_line_id |-> "l",
                                agreement_rate_minor |-> 1,
                                agreement_quantity_scaled |-> 2] @@ line},
        consumption |-> {taken, Freed @@ taken}]

MoneySamples ==
    LET allocation == [id |-> "a", payment_id |-> "y", target_module |-> "receivables",
                       target_record_id |-> "i", amount_minor |-> 1, allocated_at |-> 1,
                       allocated_by |-> "p"]
        override == [id |-> "v", party_id |-> "c", reason |-> "c", authorized_at |-> 3,
                     authorized_by |-> "p", target_module |-> "jobs", target_record_id |-> "j",
                     exposure_minor |-> 2, proposed_minor |-> 1, credit_limit_minor |-> 2,
                     over_limit |-> TRUE]
        block == [id |-> "b", series |-> "A", device_id |-> "d", assignment_reference |-> "r",
                  assigned_at |-> 1, first_number |-> 1, next_number |-> 1, last_number |-> 2]
    IN [payment |-> {[id |-> "y", amount_minor |-> 2, paid_at |-> 1, recorded_at |-> 1,
                      method |-> "m", recorded_by |-> "p", receipt_series |-> "R",
                      receipt_number |-> 1]},
        allocation |-> {allocation, Freed @@ allocation},
        statement |-> {[id |-> "s", party_id |-> "c", prepared_by |-> "p", period_from |-> 1,
                        period_through |-> 2, prepared_at |-> 2, charged_minor |-> 2,
                        outstanding_minor |-> 2]},
        statementEntry |-> {[id |-> "e", statement_id |-> "s", source_id |-> "i", reference |-> "A1",
                             occurred_at |-> 1, amount_minor |-> 2]},
        statementDelivery |-> {[id |-> "d", statement_id |-> "s", recipient |-> "c",
                                content_hash |-> "h", transport_reference |-> "t", sent_at |-> 2,
                                sent_by |-> "p"]},
        creditAccount |-> {[id |-> "k", party_id |-> "c", credit_limit_minor |-> 2,
                            credit_period_days |-> 2, cycle_day |-> 1] @@ Changed},
        creditOverride |-> {override, [over_period |-> TRUE, oldest_overdue_at |-> 1] @@ override},
        block |-> {block, [next_number |-> 2] @@ block,
                   [next_number |-> 2, exhausted |-> TRUE] @@ block},
        rate |-> {[id |-> "r", product_id |-> "x", amount_minor |-> 1, valid_from |-> 1,
                   valid_until |-> 2] @@ Created},
        defaultRate |-> {[product_id |-> "x", amount_minor |-> 1] @@ Changed},
        rateOverride |-> {[id |-> "o", line_id |-> "l", reason |-> "c", overridden_minor |-> 1,
                           applied_by |-> "p", applied_at |-> 1]}]

DeliverySamples ==
    LET draft == Made("delivery",
                      [id |-> "d", party_id |-> "c", document_id |-> "i", transport_profile_id |-> "t",
                       recipient_contact_id |-> "n", recipient |-> "r", attachment_name |-> "f",
                       content_sha256 |-> "h", prepared_at |-> 1, prepared_by |-> "p"])
        prepared == [confirmation_token |-> Token(draft)] @@ draft
    IN [delivery |-> {prepared, Requested @@ prepared,
                      [state |-> "Accepted", accepted_at |-> 3, transport_reference |-> "m"]
                      @@ Requested @@ prepared,
                      [state |-> "Failed", failure_reason |-> "c"] @@ Requested @@ prepared}]

WorkSamples ==
    LET owed == [id |-> "p", supplier_id |-> "s", material_id |-> "m", purchased_at |-> 1,
                 quantity_scaled |-> 1, total_cost_minor |-> 2] @@ Created
        task == [id |-> "t", title |-> "t", target_module |-> "another"] @@ Changed
        pointed == [target_module |-> "jobs", target_record |-> "j"] @@ task
    IN [supplier |-> {[id |-> "s"] @@ Changed}, material |-> {[id |-> "m", name |-> "n"] @@ Changed},
        purchase |-> {owed, [state |-> "Paid", settled_at |-> 2, settled_by |-> "p"] @@ owed},
        task |-> {task, [kind |-> "Reminder", due_at |-> 3] @@ pointed,
                  [kind |-> "Attention", source_key |-> "k"] @@ pointed,
                  [kind |-> "Recurring", due_at |-> 2, recurrence_unit |-> "Day",
                   recurrence_interval |-> 1] @@ task,
                  [snoozed_until |-> 3, snooze_reason |-> "c"] @@ task,
                  [state |-> "Completed", completed_at |-> 2, completed_by |-> "p",
                   completion_count |-> 1] @@ task},
        taskEvent |-> {[id |-> "e", task_id |-> "t", happened_at |-> 2, happened_by |-> "p",
                        kind |-> "Snoozed", reason |-> "c"]}]

PlaceSamples ==
    LET someone == [id |-> "p", display_name |-> "n", username |-> "u", password_hash |-> "h"] @@ Changed
        machine == [id |-> "d", name |-> "n", registered_by |-> "p", registered_at |-> 1]
        asset == [id |-> "a", content_hash |-> "h", size_bytes |-> 1] @@ Created
    IN [party |-> {[id |-> "c", display_name |-> "n", is_customer |-> TRUE] @@ Changed,
                   [id |-> "c", display_name |-> "n", is_supplier |-> TRUE, archived |-> TRUE,
                    billing |-> "quoted_rate", kind |-> "organisation"] @@ Changed},
        contact |-> {[id |-> "n", party_id |-> "c", label |-> "l", value |-> "v", added_at |-> 1]},
        person |-> {someone, [is_owner |-> TRUE] @@ someone, [disabled |-> TRUE] @@ someone},
        device |-> {machine, [retired |-> TRUE, retired_at |-> 2] @@ machine},
        product |-> {[id |-> "x", name |-> "n", archived |-> TRUE] @@ Changed},
        asset |-> {asset, [forgotten |-> TRUE, forgotten_at |-> 2, forgotten_by |-> "p",
                           forget_reason |-> "c"] @@ asset},
        location |-> {[id |-> "l", device_id |-> "d", volume_id |-> "v", file_id |-> "f",
                       asset_id |-> "a", path |-> "w", observed_at |-> 1, scan_generation |-> 1]},
        link |-> {[id |-> "k", asset_id |-> "a", role |-> "r", target_module |-> "jobs",
                   target_record |-> "j", linked_at |-> 1, linked_by |-> "p"]},
        volume |-> {[id |-> "v", device_id |-> "d", volume_id |-> "w", observed_at |-> 1]}]

Samples == QuotationSamples @@ OrderSamples @@ JobSamples @@ AgreementSamples @@ InvoiceSamples
           @@ MoneySamples @@ DeliverySamples @@ WorkSamples @@ PlaceSamples

\* The records that appear on pages, their own or that of a record they are
\* part of, and the page each appears on.
OnPages == {"person", "party", "contact", "product", "rate", "order", "orderLine", "invoice",
          "invoiceLine", "allocation", "job", "quotation", "revision", "quotationLine",
          "agreement", "agreementLine", "supplier", "material", "task", "taskEvent", "asset", "link"}

PageOf(type, r) ==
    LET One(whole, given) == Made(whole, [id |-> "w"] @@ Created @@ given)
        quotation == One("quotation", [current_revision |-> 1])
        latest == One("revision", [quotation_id |-> "w"])
        line == One("invoiceLine", [description |-> "d"] @@ Priced)
    IN CASE type = "person" -> PersonPage(r, {"one right", "another", "a third", "a fourth"})
         [] type = "party" -> PartyPage(r, {})
         [] type = "contact" -> PartyPage(One("party", [display_name |-> "n"]), {r})
         [] type = "product" -> ProductPage(r)
         [] type = "rate" -> RatePage(r)
         [] type = "order" -> OrderPage(r, {})
         [] type = "orderLine" -> OrderPage(One("order", Created), {r})
         [] type = "invoice" -> InvoicePage(r, {}, {})
         [] type = "invoiceLine" -> InvoicePage(One("invoice", Created), {r}, {})
         [] type = "allocation" -> InvoicePage(One("invoice", Issued), {line}, {r})
         [] type = "job" -> JobPage(r)
         [] type = "quotation" -> QuotationPage(r, latest, {})
         [] type = "revision" -> QuotationPage(quotation, r, {})
         [] type = "quotationLine" -> QuotationPage(quotation, latest, {r})
         [] type = "agreement" -> AgreementPage(r, {})
         [] type = "agreementLine" -> AgreementPage(One("agreement", [party_id |-> "c"]), {r})
         [] type = "supplier" -> SupplierPage(r, {})
         [] type = "material" -> SupplierPage(One("supplier", Changed), {r.name})
         [] type = "task" -> TaskPage(r, {})
         [] type = "taskEvent" -> TaskPage(One("task", [title |-> "t"]), {r})
         [] type = "asset" -> AssetPage(r, {})
         [] type = "link" -> AssetPage(One("asset", [content_hash |-> "h"]), {r})

-----------------------------------------------------------------------------
CONSTANTS p1, p2, d1, d2, n1, n2

TwoPeople == {p1, p2}
TwoDevices == {d1, d2}
TwoNames == {n1, n2}

WorkRights == {"rights_grant"}

AdministrationOps ==
  {"person_create", "person_update", "person_disable", "right_grant", "right_revoke",
   "device_register", "device_retire", "shop_setting_update", "module_activation_set"}

SmallTable ==
  [op \in AdministrationOps |->
     [module |-> "administration", right |-> "rights_grant", offline |-> FALSE, staff |-> FALSE]]
  @@ "order_create" :>
       [module |-> "orders", right |-> "rights_grant", offline |-> TRUE, staff |-> FALSE]
  @@ "payment_take" :>
       [module |-> "orders", right |-> "rights_grant", offline |-> TRUE, staff |-> TRUE]
  @@ "order_to_jobs" :>
       [module |-> "orders", right |-> "rights_grant", offline |-> TRUE, staff |-> FALSE]

SmallRequests == 1 :> "order_create" @@ 2 :> "payment_take" @@ 3 :> "order_to_jobs"

SmallNeeded == "payment_take" :> {"orders"} @@ "order_to_jobs" :> {"orders", "jobs"}

SmallModules == {"administration", "orders", "jobs", "files"}
SmallRequires == {<<"jobs", "files">>}

Interchangeable ==
  Permutations(TwoPeople) \cup Permutations(TwoDevices) \cup Permutations(TwoNames)

-----------------------------------------------------------------------------
VARIABLE part

MCVars == <<part, navigationVars, listVars, rowVars, workspaceVars, commandVars>>

\* Texts as long as a place on a page allows, or a byte longer; the first
\* leaves room for a serial number around it.
TextSizes == "serial" :> 491 @@ "title" :> 512 @@ "over title" :> 513 @@ "subtitle" :> 1024
             @@ "over subtitle" :> 1025 @@ "page" :> 4096 @@ "over page" :> 4097

\* The records of the samples, and those with another text in one column.
Sampled(type) == {Made(type, given) : given \in Samples[type]}
Retexted(type) ==
    UNION {{[r EXCEPT ![c] = text] : text \in DOMAIN TextSizes \cup Broken} :
             <<r, c>> \in {<<r, c>> \in Sampled(type) \X DOMAIN Schemas[type] :
                            Schemas[type][c].kind = "text" /\ c # "id"}}

RowsInit(records) ==
    /\ what \in DOMAIN records
    /\ kept \in {r \in records[what] : IsValid(what, r)}
    /\ row = ToRow(what, kept)
    /\ damaged = {}

MCInit ==
    /\ part \in {"navigation", "list", "records", "texts", "administration", "trade"}
    /\ NavigationInit /\ ListInit /\ CommandsInit
    /\ \/ part = "records" /\ RowsInit([type \in DOMAIN Schemas |-> Sampled(type)])
       \/ part = "texts" /\ RowsInit([type \in OnPages |-> Retexted(type)])
       \/ part \notin {"records", "texts"} /\ RowsInit("supplier" :> Sampled("supplier"))
    /\ \/ part # "trade" /\ WorkspaceInit
       \/ part = "trade" /\ \E owner, staff \in TwoPeople, d \in TwoDevices :
            owner # staff /\ TradeInit(owner, staff, d)

MCNext ==
    /\ UNCHANGED part
    /\ \/ /\ part = "navigation" /\ NavigationNext
          /\ UNCHANGED <<listVars, rowVars, workspaceVars, commandVars>>
       \/ /\ part = "list" /\ ListNext
          /\ UNCHANGED <<navigationVars, rowVars, workspaceVars, commandVars>>
       \/ /\ part = "records" /\ RowsNext
          /\ UNCHANGED <<navigationVars, listVars, workspaceVars, commandVars>>
       \/ /\ part = "texts" /\ Handle
          /\ UNCHANGED <<navigationVars, listVars, workspaceVars, commandVars>>
       \/ /\ part = "administration" /\ WorkspaceNext
          /\ UNCHANGED <<navigationVars, listVars, rowVars, commandVars>>
       \/ /\ part = "trade" /\ TradeNext
          /\ UNCHANGED <<navigationVars, listVars, rowVars>>

MCSpec == MCInit /\ [][MCNext]_MCVars

-----------------------------------------------------------------------------
\* How many bytes a text of a record may have for its page to open: it heads
\* a page or a line, alone or in a serial number or a file name; it stands
\* under such a heading; or it is a field or part of the history.
Heading ==
    {<<"person", "display_name">>, <<"party", "display_name">>, <<"contact", "label">>,
     <<"product", "name">>, <<"rate", "product_id">>, <<"orderLine", "description">>,
     <<"orderLine", "product_id">>, <<"invoiceLine", "description">>,
     <<"quotationLine", "description">>, <<"agreement", "customer_reference">>,
     <<"agreementLine", "agreed_name">>, <<"material", "name">>, <<"task", "title">>,
     <<"link", "role">>}
SerialHeading ==
    {<<"invoice", "number_series">>, <<"job", "ticket_series">>, <<"revision", "series">>,
     <<"asset", "extension">>}
Subheading ==
    {<<"contact", "value">>, <<"product", "description">>, <<"orderLine", "price_reason">>,
     <<"invoiceLine", "rate_reason">>, <<"quotationLine", "rate_reason">>,
     <<"agreementLine", "specifications">>, <<"agreementLine", "product_id">>,
     <<"asset", "media_type">>}

Room(type, column) ==
    CASE <<type, column>> \in Heading -> 512
      [] <<type, column>> \in SerialHeading -> 491
      [] <<type, column>> \in Subheading -> 1024
      [] OTHER -> 4096

TextsFit(type, r) ==
    \A c \in DOMAIN r : Schemas[type][c].kind = "text" => SafeText(r[c], Room(type, c))

\* What a handler saved can be opened again: the page of a record whose texts
\* have no line break and fit their places shows every one of its fields,
\* whatever was left blank (the conditions of record_page_service.cpp on what
\* local_record_query.cpp makes of a record that its validate() accepted).
\* The rules set no length but that of a username, so a record may be saved
\* with a longer name, and then its page is refused.
SavedRecordsOpen ==
    part \in {"records", "texts"} /\ damaged = {} /\ what \in OnPages /\ TextsFit(what, kept)
        => Opens(PageOf(what, kept))

\* The records that have a page of their own.
Pages == {"person", "party", "product", "rate", "order", "invoice", "job", "quotation", "agreement",
          "supplier", "task", "asset"}

\* Buttons shown although the record's state refuses them, left to the
\* handler: the owner can be neither disabled nor stripped of rights and a
\* disabled person gets none; an archived party or product, a cancelled order,
\* a job that is done or cancelled and a forgotten file stay as they are; only
\* a customer has terms; and money is allocated to an issued invoice, of which
\* there is nothing to print before.
LeftToTheHandler(type, r) ==
    CASE type = "person" -> When(r.is_owner, {"disable", "revoke"}) \cup When(r.disabled, {"grant"})
      [] type = "party" -> When(r.archived, {"update"}) \cup When(~r.is_customer, {"terms_set"})
      [] type = "product" -> When(r.archived, {"update"})
      [] type = "order" -> When(r.state = "Cancelled", {"update", "line_add", "to_jobs"})
      [] type = "job" -> When(r.state \in {"Done", "Cancelled"}, {"update", "state_change"})
                         \cup When(r.state = "Done", {"cancel"})
      [] type = "invoice" -> When(r.state # "Issued", {"allocate"})
                             \cup When(r.state = "Draft", {"print"})
      [] type = "asset" -> When(r.forgotten, {"link"})
      [] OTHER -> {}

\* A button works: what a page offers of a record, the handler behind it does
\* not refuse for the state the record is in, through any sequence of changes,
\* but for the buttons named above (the conditions of local_record_query.cpp
\* against the guards of the handlers, written apart from each other).
ButtonsWork ==
    part = "records" /\ damaged = {} /\ what \in Pages =>
        PageOf(what, kept).actions \subseteq Offers(what, kept) \cup LeftToTheHandler(what, kept)

\* Every list is read from a table that has the columns it is sorted and
\* filtered by.
ASSUME ListsHaveTheirColumns ==
    \A kind \in Kinds :
        LET profile == Profile[kind]
        IN {StorageField[kind][field] : field \in FieldsOfKind[kind]} \cup {profile.sort}
               \subseteq DOMAIN Schemas[profile.table]

ASSUME SamplesAreValid ==
    \A type \in DOMAIN Schemas : \A given \in Samples[type] : IsValid(type, Made(type, given))
=============================================================================
