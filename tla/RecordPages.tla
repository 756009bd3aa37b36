---------------------------- MODULE RecordPages ----------------------------
(***************************************************************************)
(* What the screen of one record shows: the page local_record_query.cpp    *)
(* makes of a stored record, and what record_page_service.cpp accepts of   *)
(* it.  A page has a title and a subtitle, fields, lines, a history, and   *)
(* the actions it offers as buttons.  Numbers, moments and the names of    *)
(* codes fit every place they are shown in and are left out, and so are    *)
(* the identifiers on a page: fixed words, or record ids, which are        *)
(* canonical since the gateway takes no other (command_gateway.cpp).       *)
(***************************************************************************)
EXTENDS RecordRules, FiniteSets, FiniteSetsExt

CONSTANTS
    Broken,     \* the texts that hold a line break or another control character
    LineLimit,  \* how many lines a page is given
    MostLines   \* how many lines a page may have

AsItIs(text) == text

Or(text, other) == IF text = "" THEN other ELSE text
OrNone(text) == Or(text, "none")
When(condition, set) == IF condition THEN set ELSE {}

\* One entry of the history: what happened, told by a text, at a moment.
Past(detail, moment) == When(moment > 0, {[detail |-> detail, moment |-> moment]})

\* A heading: a text of the record, with so many bytes of fixed words around it.
Joined(text, bytes) == [text |-> text, bytes |-> bytes]
Just(text) == Joined(text, 0)
Fixed == Joined("", 40)

\* A serial number is its series, a dash and at most twenty digits.
Serial(series, number) == IF number > 0 THEN Joined(series, 21) ELSE Fixed

Line(title, subtitle) == [title |-> title, subtitle |-> subtitle]

Safe(text) == text \notin Broken
SafeText(text, most) == Safe(text) /\ Size(text) <= most
SafeHeading(h, most) == Safe(h.text) /\ Size(h.text) + h.bytes <= most
Titled(h) == (h.text # "" \/ h.bytes > 0) /\ SafeHeading(h, 512)

\* A page that cannot be made of the record.
Malformed == [title |-> Just(""), subtitle |-> Fixed, fields |-> {}, lines |-> {}, history |-> {},
              actions |-> {}]

\* The service accepts a page whole or not at all.  Its limits on the number
\* of fields and actions are above what any page has, and that on the history
\* is above what the page is given, like the one on the lines.
Opens(page) ==
    /\ Titled(page.title) /\ SafeHeading(page.subtitle, 1024)
    /\ Cardinality(page.lines) <= MostLines
    /\ \A text \in page.fields : text # "" /\ SafeText(text, 4096)
    /\ \A line \in page.lines : Titled(line.title) /\ SafeHeading(line.subtitle, 1024)
    /\ \A past \in page.history : past.moment > 0 /\ SafeText(past.detail, 4096)

\* Of a record's lines only the first are shown.
Listed(lines) == CHOOSE some \in SUBSET lines :
                    Cardinality(some) = IF Cardinality(lines) < LineLimit THEN Cardinality(lines)
                                                                         ELSE LineLimit

Total(lines, Amount(_)) == MapThenSumSet(Amount, lines)

PersonPage(p, rights) ==
    [title |-> Just(p.display_name), subtitle |-> Just(p.username),
     fields |-> {p.username, p.created_by},
     lines |-> {Line(Just(right), Fixed) : right \in Listed(rights)},
     history |-> Past(p.created_by, p.created_at) \cup Past(p.created_by, p.updated_at),
     actions |-> {"update", "grant", "revoke"} \cup When(~p.disabled, {"disable"})]

PartyPage(p, contacts) ==
    [title |-> Just(p.display_name), subtitle |-> Fixed,
     fields |-> {OrNone(p.customer_ref), OrNone(p.notes)},
     lines |-> {Line(Just(c.label), Just(c.value)) : c \in Listed(contacts)},
     history |-> Past(p.created_by, p.created_at) \cup Past(p.updated_by, p.updated_at),
     actions |-> {"update", "contact_add", "terms_set"} \cup When(~p.archived, {"archive"})]

ProductPage(p) ==
    [title |-> Just(p.name), subtitle |-> Just(OrNone(p.description)),
     fields |-> {OrNone(p.description), p.created_by, p.updated_by},
     lines |-> {},
     history |-> Past(p.created_by, p.created_at) \cup Past(p.updated_by, p.updated_at),
     actions |-> {"update"} \cup When(~p.archived, {"archive"})]

RatePage(r) ==
    [title |-> Just(r.product_id), subtitle |-> Fixed,
     fields |-> {r.product_id, OrNone(r.party_id)},
     lines |-> {},
     history |-> Past(r.created_by, r.created_at),
     actions |-> {"set", "remove"}]

OrderPage(o, lines) ==
    LET Shown(l) == Line(Just(Or(l.description, OrNone(l.product_id))), Just(OrNone(l.price_reason)))
        LineAmount(l) == l.quantity_scaled * l.unit_price_minor
    IN IF Total(lines, LineAmount) > MaxMoney THEN Malformed
       ELSE [title |-> Just(o.id), subtitle |-> Fixed,
             fields |-> {OrNone(text) : text \in {o.party_id, o.source_quotation_id,
                                                  o.source_revision_id, o.note}},
             lines |-> {Shown(l) : l \in Listed(lines)},
             history |-> Past(o.created_by, o.created_at) \cup Past(o.cancel_reason, o.cancelled_at),
             actions |-> {"update", "line_add", "to_jobs"} \cup When(o.state = "Open", {"cancel"})]

\* What an invoice asks for, or nothing when its lines do not add up.
InvoiceTotals(lines) ==
    LET LineAmount(l) == l.quantity_scaled * l.rate_minor
        total == Total(lines, LineAmount)
    IN IF total <= MaxMoney /\ \A l \in lines : LineAmount(l) = l.amount_minor THEN {total} ELSE {}

\* What is left of it cannot be told when an allocation is not as it must be
\* or more has been allocated than is asked for.
OutstandingIsKnown(lines, allocations) ==
    LET active == {a \in allocations : a.state # "Released"}
        Taken(a) == a.amount_minor
    IN /\ \A a \in allocations : AllocationIsValid(a)
       /\ \E total \in InvoiceTotals(lines) : Total(active, Taken) <= total

InvoicePage(i, lines, allocations) ==
    IF ~OutstandingIsKnown(lines, allocations) THEN Malformed
    ELSE [title |-> Serial(i.number_series, i.number), subtitle |-> Fixed,
          fields |-> {OrNone(text) : text \in {i.party_id, i.note, i.replaces_invoice_id,
                                               i.replacement_invoice_id}},
          lines |-> {Line(Just(l.description), Just(OrNone(l.rate_reason))) : l \in Listed(lines)},
          history |-> Past(i.created_by, i.created_at) \cup Past(i.issued_by, i.issued_at)
                      \cup Past(i.cancel_reason, i.cancelled_at)
                      \cup Past(i.discarded_by, i.discarded_at),
          actions |-> When(i.state = "Draft", {"update", "discard", "issue"})
                      \cup When(i.state # "Discarded", {"allocate", "print"})]

JobPage(j) ==
    IF j.quantity_scaled * j.unit_price_minor # j.total_price_minor THEN Malformed
    ELSE [title |-> Serial(j.ticket_series, j.ticket_number), subtitle |-> Fixed,
          fields |-> {OrNone(text) : text \in {j.party_id, j.title, j.description, j.specifications,
                                               j.material_reference}},
          lines |-> {},
          history |-> Past(j.created_by, j.created_at) \cup Past(j.started_by, j.started_at)
                      \cup Past(j.done_by, j.done_at) \cup Past(j.cancel_reason, j.cancelled_at),
          actions |-> {"update", "state_change"} \cup When(j.state # "Cancelled", {"cancel"})]

QuotationActionsEarly(state, issued) ==
    When(state \in {"Draft", "Issued"}, {"revise", "accept", "expire"})
    \cup When(~issued /\ state = "Draft", {"issue"})
    \cup When(state = "Accepted", {"to_order"})

\* A quotation is issued from its page only while it is a draft.
QuotationActions(state, issued) ==
    When(state \in {"Draft", "Issued"}, {"revise"})
    \cup When(~issued /\ state = "Draft", {"issue"})
    \cup When(state = "Issued", {"accept", "expire"})
    \cup When(state = "Accepted", {"to_order"})

\* The page of a quotation shows its latest revision.  Only the lines it
\* lists are held against their amounts.
QuotationPage(q, r, lines) ==
    LET LineAmount(l) == l.quantity_scaled * l.unit_price_minor
    IN IF Total(lines, LineAmount) > MaxMoney
          \/ \E l \in Listed(lines) : LineAmount(l) # l.amount_minor
       THEN Malformed
       ELSE [title |-> IF r.issued THEN Serial(r.series, r.number) ELSE Fixed, subtitle |-> Fixed,
             fields |-> {OrNone(q.party_id), OrNone(q.customer_reference), OrNone(r.terms)},
             lines |-> {Line(Just(l.description), Just(OrNone(l.rate_reason))) : l \in Listed(lines)},
             history |-> Past(q.created_by, q.created_at) \cup Past("", r.created_at)
                         \cup Past(q.accepted_by, q.accepted_at)
                         \cup Past(q.expiry_reason, q.expired_at),
             actions |-> QuotationActions(q.state, r.issued)]

AgreementPage(a, lines) ==
    LET Shown(l) == Line(Just(l.agreed_name), Just(Or(l.specifications, OrNone(l.product_id))))
        Capped(l) == l.cap_scaled * l.rate_minor
    IN IF Total(lines, Capped) > MaxMoney THEN Malformed
       ELSE [title |-> IF a.customer_reference = "" THEN Fixed ELSE Just(a.customer_reference),
             subtitle |-> Fixed,
             fields |-> {a.party_id, OrNone(a.customer_reference), OrNone(a.terms)},
             lines |-> {Shown(l) : l \in Listed(lines)},
             history |-> Past(a.created_by, a.created_at) \cup Past(a.opened_by, a.opened_at)
                         \cup Past(a.close_reason, a.closed_at)
                         \cup Past(a.reopen_reason, a.reopened_at),
             actions |-> When(a.state \in {"Draft", "Open"}, {"update"})
                         \cup When(a.state = "Open", {"close"})
                         \cup When(a.state = "Closed", {"reopen"})]

\* A purchase is a line that bears the name of its material, or its id.
SupplierPage(s, materials) ==
    [title |-> Fixed, subtitle |-> Fixed,
     fields |-> {OrNone(s.supplies), OrNone(s.reliability_notes), OrNone(s.sourcing_notes)},
     lines |-> {Line(Just(material), Fixed) : material \in Listed(materials)},
     history |-> Past(s.created_by, s.created_at) \cup Past(s.updated_by, s.updated_at),
     actions |-> {"update", "lookup"}]

\* The events of a task are shown whatever their moment.
TaskPage(t, events) ==
    [title |-> Just(t.title), subtitle |-> Fixed,
     fields |-> {OrNone(t.note), OrNone(t.target_record), OrNone(t.source_key)},
     lines |-> {},
     history |-> {[detail |-> "", moment |-> e.happened_at] : e \in events},
     actions |-> When(t.state = "Open", {"update", "complete", "snooze"})]

\* The title of a file is the start of its hash and its extension.  The lines
\* of where it lies are fixed words and are left out.
AssetPage(a, links) ==
    [title |-> Joined(a.extension, 18), subtitle |-> Just(OrNone(a.media_type)),
     fields |-> {a.content_hash, OrNone(a.extension), OrNone(a.media_type)}
                \cup When(a.forgotten, {a.forget_reason}),
     lines |-> {Line(Just(OrNone(l.role)), Fixed) : l \in Listed(links)},
     history |-> Past(a.created_by, a.created_at) \cup Past(a.forget_reason, a.forgotten_at),
     actions |-> {"link"} \cup When(~a.forgotten, {"forget"})]
=============================================================================
