----------------------------- MODULE Navigation -----------------------------
(***************************************************************************)
(* The screens of the shell, shell/navigation_manifest.cpp, and who sees   *)
(* which: shell/screen_registry, navigation_controller and the threads'    *)
(* side of navigation_bridge_qt.  A snapshot of what a session may see is  *)
(* published from any thread and applied on the thread of the interface,   *)
(* in the order of its event queue; the controller answers it by rows, one *)
(* current route, one bridge for it, and a history to go back and forward  *)
(* in.  Making a bridge may fail.                                          *)
(***************************************************************************)
EXTENDS Naturals, Sequences, FiniteSets, SequencesExt, TLC

CONSTANT Nil  \* std::nullopt

Screen(owner, id, group, rank, right, columns) ==
  [owner |-> owner, id |-> id, group |-> group, rank |-> rank, right |-> right,
   columns |-> columns]

(* A column of a list: which intents the bridge takes of it.               *)
Both(id) == [id |-> id, sorts |-> TRUE, filters |-> TRUE]
SortOnly(id) == [id |-> id, sorts |-> TRUE, filters |-> FALSE]
ShownOnly(id) == [id |-> id, sorts |-> FALSE, filters |-> FALSE]

NumberCustomerStatus == {Both("number"), Both("customer"), Both("status")}

(* make_navigation_manifest, in the order in which the screens are added.  *)
Manifest ==
  <<Screen("administration", "dashboard.home", 0, 0, Nil, {}),
    Screen("administration", "administration.home", 50, 10, "person_manage",
           {Both("name"), Both("access")}),
    Screen("parties", "parties.list", 10, 10, "party_read", {Both("name"), Both("terms")}),
    Screen("catalog", "catalog.list", 10, 20, "product_read", {Both("name")}),
    Screen("pricing", "pricing.rates", 10, 30, "rate_read", {Both("name"), SortOnly("rate")}),
    Screen("orders", "orders.list", 10, 40, "order_read",
           NumberCustomerStatus \cup {ShownOnly("total")}),
    Screen("orders", "orders.counter_sale", 10, 41, "order_write", {}),
    Screen("receivables", "receivables.invoices", 30, 10, "invoice_read",
           NumberCustomerStatus \cup {ShownOnly("total")}),
    Screen("jobs", "jobs.list", 10, 50, "job_read", NumberCustomerStatus),
    Screen("quotations", "quotations.list", 20, 10, "quotation_read",
           NumberCustomerStatus \cup {ShownOnly("total")}),
    Screen("agreements", "agreements.list", 20, 20, "agreement_read",
           {Both("name"), Both("customer"), Both("status")}),
    Screen("sourcing", "sourcing.suppliers", 40, 10, "supplier_read",
           {Both("supplier"), Both("status")}),
    Screen("companion", "companion.tasks", 10, 60, "task_read",
           {Both("title"), Both("status"), Both("due")}),
    Screen("files", "files.search", 60, 10, "file_search", {Both("name"), Both("location")})>>

Screens == {Manifest[i] : i \in DOMAIN Manifest}

(* right_module of the protocol, for the rights the screens ask for.       *)
RightModule ==
  [right \in {s.right : s \in Screens} \ {Nil} |->
     (CHOOSE s \in Screens : s.right = right).owner]

(* ScreenRegistry::add: a right of the screen's own module, an id once.    *)
Admissible ==
  /\ \A s \in Screens : s.right # Nil => RightModule[s.right] = s.owner
  /\ \A i, j \in DOMAIN Manifest : Manifest[i].id = Manifest[j].id => i = j

(* compiled_modules of the composition.                                    *)
CompiledModules ==
  {"administration", "parties", "catalog", "pricing", "orders", "receivables", "jobs",
   "quotations", "agreements", "sourcing", "companion", "files"}

(* require_navigation_complete.                                            *)
Complete(registered, headless) ==
  LET represented == {s.owner : s \in Screens}
  IN  /\ headless \subseteq registered
      /\ represented \subseteq registered
      /\ headless \cap represented = {}
      /\ registered \subseteq represented \cup headless

ASSUME ManifestAssumption == Admissible /\ Complete(CompiledModules, {})

(* The order of ScreenRegistry::visible.                                   *)
Before(a, b) ==
  \/ a.group < b.group
  \/ a.group = b.group /\ a.rank < b.rank

------------------------------------------------------------------------------
CONSTANTS
  Routes,       \* the screens followed, of those of the manifest
  Grantable,    \* the rights a session may be given
  MaxSession,   \* bound on the generations of a session
  MaxRevision,  \* bound on the revisions under one generation
  MaxHistory,   \* kMaximumHistoryEntries
  MaxPosted     \* bound on the snapshots in the event queue

ASSUME NavigationAssumption ==
  /\ Routes \subseteq Screens
  /\ MaxSession \in Nat /\ MaxRevision \in Nat /\ MaxPosted \in Nat
  /\ MaxHistory \in Nat \ {0}
  /\ Nil \notin Screens /\ Nil \notin [session : 1..MaxSession, revision : 0..MaxRevision,
                                      modules : SUBSET CompiledModules, rights : SUBSET Grantable]
  /\ Nil \notin [route : Routes, session : 1..MaxSession]

VARIABLES
  access,   \* access_: [session, revision, modules, rights], or Nil
  rows,     \* the routes in rows_
  current,  \* current_route_, or Nil
  bridge,   \* what active_bridge_ was made for: [route, session], or Nil
  back, forward,  \* the histories, the newest last
  posted,   \* snapshots in the event queue of the interface
  activation,  \* activation_ of the Qt side: the modules pages are asked under
  over         \* what its list and record bridges were last made over, or Nil

history == <<back, forward>>
navigationVars == <<access, rows, current, bridge, history, posted, activation, over>>

AccessRows ==
  [session : 1..MaxSession, revision : 0..MaxRevision,
   modules : SUBSET CompiledModules, rights : SUBSET Grantable]

(* NavigationAccess::allows; modules are those registered and active.      *)
Allows(a, s) == s.owner \in a.modules /\ (s.right = Nil \/ s.right \in a.rights)

(* ScreenRegistry::visible.                                                *)
Visible(a) == {s \in Routes : Allows(a, s)}

(* The first of them in the order they are shown in.                       *)
FirstOf(shown) == CHOOSE s \in shown : \A other \in shown \ {s} : Before(s, other)

(* An entry more, and the oldest is forgotten when there are too many.     *)
Remember(entries, s) ==
  LET longer == Append(entries, s)
  IN  IF Len(longer) > MaxHistory THEN Tail(longer) ELSE longer

(* prune_history, of one of the histories.                                 *)
Pruned(entries, shown) ==
  LET kept[n \in 0..Len(entries)] ==
        IF n = 0 THEN <<>>
        ELSE IF entries[n] \in shown THEN Append(kept[n - 1], entries[n]) ELSE kept[n - 1]
  IN  kept[Len(entries)]

-----------------------------------------------------------------------------
(* activate: "ok" is that it succeeds.  It succeeds without a change on    *)
(* the route whose bridge is alive; otherwise it needs a new bridge, which *)
(* ScreenRegistry::create makes or fails to make.                          *)
Alive(s) == current = s /\ bridge # Nil

Activates(s, made, ok) == ok = (s \in rows /\ (~Alive(s) => made))

BridgeFor(s) == IF Alive(s) THEN bridge ELSE [route |-> s, session |-> access.session]

(* finish: after a call that succeeded, and only then, synchronize makes   *)
(* the bridges of the interface anew, over the controller's bridge.        *)
Finish(ok) == over' = IF ok THEN bridge' ELSE over

SelectRoute(s, made) ==
  /\ Activates(s, made, TRUE)
  /\ current' = s
  /\ bridge' = BridgeFor(s)
  /\ IF Alive(s) \/ current = Nil THEN UNCHANGED history
     ELSE back' = Remember(back, current) /\ forward' = <<>>
  /\ Finish(TRUE)
  /\ UNCHANGED <<access, rows, posted, activation>>

(* The destination leaves its history before the activation that may fail. *)
GoBack(made) ==
  LET kept == Pruned(back, rows)
      ahead == Pruned(forward, rows)
  IN  /\ kept # <<>>
      /\ \E ok \in BOOLEAN :
           /\ Activates(Last(kept), made, ok)
           /\ back' = Front(kept)
           /\ forward' = IF ok /\ current # Nil THEN Remember(ahead, current) ELSE ahead
           /\ current' = IF ok THEN Last(kept) ELSE current
           /\ bridge' = IF ok THEN BridgeFor(Last(kept)) ELSE bridge
           /\ Finish(ok)
      /\ UNCHANGED <<access, rows, posted, activation>>

GoForward(made) ==
  LET kept == Pruned(back, rows)
      ahead == Pruned(forward, rows)
  IN  /\ ahead # <<>>
      /\ \E ok \in BOOLEAN :
           /\ Activates(Last(ahead), made, ok)
           /\ forward' = Front(ahead)
           /\ back' = IF ok /\ current # Nil THEN Remember(kept, current) ELSE kept
           /\ current' = IF ok THEN Last(ahead) ELSE current
           /\ bridge' = IF ok THEN BridgeFor(Last(ahead)) ELSE bridge
           /\ Finish(ok)
      /\ UNCHANGED <<access, rows, posted, activation>>

-----------------------------------------------------------------------------
StaleInItsSession(a) ==
  /\ access # Nil
  /\ a.session = access.session
  /\ a.revision < access.revision \/ (a.revision = access.revision /\ a # access)

(* apply_access.  A snapshot that is older, or the same one with another   *)
(* content, is refused.                                                    *)
Stale(a) ==
  /\ access # Nil
  /\ \/ a.session < access.session
     \/ a.session = access.session /\ a.revision < access.revision
     \/ a.session = access.session /\ a.revision = access.revision /\ a # access

(* Whatever the new session or the new rights do not keep goes before      *)
(* anything is shown under them; with no route left the first is taken.    *)
TakeAccess(a, made, replaced) ==
  LET shown == Visible(a)
      stays == ~replaced /\ current \in shown
      entered == ~stays /\ shown # {} /\ made
  IN  /\ access' = a
      /\ rows' = shown
      /\ current' = IF stays THEN current ELSE IF entered THEN FirstOf(shown) ELSE Nil
      /\ bridge' = IF stays THEN bridge
                   ELSE IF entered THEN [route |-> FirstOf(shown), session |-> a.session]
                   ELSE Nil
      /\ back' = IF replaced THEN <<>> ELSE Pruned(back, shown)
      /\ forward' = IF replaced THEN <<>> ELSE Pruned(forward, shown)

ApplyAccess(a, made) ==
  /\ ~Stale(a)
  /\ a # access
  /\ TakeAccess(a, made, access # Nil /\ a.session # access.session)

(* publishAccess from another thread: queued, and applied in its turn.     *)
PublishAccess(a) ==
  /\ Len(posted) < MaxPosted
  /\ posted' = Append(posted, a)
  /\ UNCHANGED <<access, rows, current, bridge, history, activation, over>>

(* applyAccessOnGui.  The modules that lists and records are asked under   *)
(* are those of the snapshot before the controller has judged it: they are *)
(* kept of one that is refused.  A snapshot whose first route cannot be    *)
(* made is an error too, with the snapshot taken.                          *)
ApplyPosted(made) ==
  /\ posted # <<>>
  /\ posted' = Tail(posted)
  /\ activation' = Head(posted).modules
  /\ (Stale(Head(posted)) \/ Head(posted) = access) =>
       UNCHANGED <<access, rows, current, bridge, history>>
  /\ ~(Stale(Head(posted)) \/ Head(posted) = access) => ApplyAccess(Head(posted), made)
  /\ Finish(~Stale(Head(posted)) /\ (Head(posted) # access /\ current' = Nil => rows' = {}))

(* stopShell: the bridge of the interface goes with the controller, and    *)
(* what is still in the queue finds nobody.  attachWorkspace of the next   *)
(* start hands over the modules of its first snapshot.                     *)
ShutdownNavigation ==
  /\ access # Nil
  /\ access' = Nil /\ rows' = {} /\ current' = Nil /\ bridge' = Nil
  /\ back' = <<>> /\ forward' = <<>> /\ posted' = <<>>
  /\ activation' = {} /\ over' = Nil

NavigationInit ==
  /\ access = Nil /\ rows = {} /\ current = Nil /\ bridge = Nil
  /\ back = <<>> /\ forward = <<>> /\ posted = <<>>
  /\ activation = {} /\ over = Nil

NavigationNext ==
  \/ \E made \in BOOLEAN :
       \/ \E s \in Routes : SelectRoute(s, made)
       \/ GoBack(made) \/ GoForward(made)
       \/ ApplyPosted(made)
  \/ \E modules \in {CompiledModules, CompiledModules \ {"orders"}}, rights \in SUBSET Grantable,
        session \in 1..MaxSession, revision \in 0..MaxRevision :
       PublishAccess([session |-> session, revision |-> revision,
                      modules |-> modules, rights |-> rights])
  \/ ShutdownNavigation

-----------------------------------------------------------------------------
(* Nothing is shown, kept open or gone back to that the snapshot in force  *)
(* does not allow: the one bridge there is was made for the current route  *)
(* under the session of the snapshot, and the histories hold only visible  *)
(* routes, in bounds (navigation_controller.cpp, apply_access).            *)
ShownIsAllowed ==
  /\ access \in AccessRows \cup {Nil}
  /\ access = Nil => rows = {} /\ current = Nil
  /\ access # Nil => rows = {s \in Routes : s.owner \in access.modules
                                /\ s.right \in access.rights \cup {Nil}}
  /\ bridge # Nil <=> current # Nil
  /\ bridge # Nil => /\ bridge.route = current
                      /\ bridge.session = access.session
                      /\ current \in rows
  /\ ToSet(back) \cup ToSet(forward) \subseteq rows
  /\ Len(back) <= MaxHistory /\ Len(forward) <= MaxHistory

(* Until the shell stops, snapshots only go forward, and the bridge of one *)
(* session and what was visited in it are gone in the next                 *)
(* (navigation_controller.cpp, apply_access).                              *)
SessionsDoNotMix ==
  [][access # Nil /\ access' # Nil =>
       /\ access'.session >= access.session
       /\ access'.session = access.session => access'.revision >= access.revision
       /\ access'.session # access.session =>
            back' = <<>> /\ forward' = <<>> /\ (bridge' # Nil => bridge' # bridge)
    ]_navigationVars

(* The pages of the interface are over the bridge of the controller, of    *)
(* which they keep a reference, unless the snapshot in force has routes    *)
(* and the first of them could not be made: then they stay over a bridge   *)
(* that is gone (navigation_bridge_qt.cpp, finish).                        *)
PagesFollow == over = bridge \/ (bridge = Nil /\ rows # {})

(* Pages are asked under the modules of the snapshot in force from when it *)
(* is taken until one is refused, whose modules they are asked under next  *)
(* although nothing else is shown (applyAccessOnGui).                      *)
AskedUnderTheLast ==
  [][\/ access' = Nil
     \/ activation' = access'.modules
     \/ access' = access /\ activation' = activation
     \/ Stale(Head(posted)) /\ UNCHANGED <<access, rows, current, bridge, history, over>>
    ]_navigationVars

(* The shell shows, session after session, what the snapshot in force      *)
(* allows and nothing of the session before (navigation_controller.cpp).   *)
(* Its pages follow what it shows, but for the two errors above.           *)
ShellSound == [](ShownIsAllowed /\ PagesFollow) /\ SessionsDoNotMix /\ AskedUnderTheLast

-----------------------------------------------------------------------------
(* What a list page is of, decided in four files that have to agree: the   *)
(* manifest's columns, the page kind of a route (navigation_bridge_qt),    *)
(* the fields a page may be asked for and the right it takes               *)
(* (app/primary/primary_page_service), and the column of the store each    *)
(* stands for (app/primary/local_primary_query).                           *)

(* page_kind_for_route; the other routes have no list of their own.        *)
KindOfRoute ==
  "administration.home" :> "Administration" @@ "parties.list" :> "Parties"
  @@ "catalog.list" :> "Catalog" @@ "pricing.rates" :> "Pricing"
  @@ "orders.list" :> "Orders" @@ "receivables.invoices" :> "Receivables"
  @@ "jobs.list" :> "Jobs" @@ "quotations.list" :> "Quotations"
  @@ "agreements.list" :> "Agreements" @@ "sourcing.suppliers" :> "Sourcing"
  @@ "companion.tasks" :> "Companion" @@ "files.search" :> "Files"

(* PrimaryPageService::owner.                                              *)
OwnerOfKind ==
  "Administration" :> "administration" @@ "Parties" :> "parties" @@ "Catalog" :> "catalog"
  @@ "Pricing" :> "pricing" @@ "Orders" :> "orders" @@ "Receivables" :> "receivables"
  @@ "Jobs" :> "jobs" @@ "Quotations" :> "quotations" @@ "Agreements" :> "agreements"
  @@ "Sourcing" :> "sourcing" @@ "Companion" :> "companion" @@ "Files" :> "files"

Kinds == DOMAIN OwnerOfKind

(* PrimaryPageService::read_right.                                         *)
ReadRight ==
  "Administration" :> "person_manage" @@ "Parties" :> "party_read" @@ "Catalog" :> "product_read"
  @@ "Pricing" :> "rate_read" @@ "Orders" :> "order_read" @@ "Receivables" :> "invoice_read"
  @@ "Jobs" :> "job_read" @@ "Quotations" :> "quotation_read"
  @@ "Agreements" :> "agreement_read" @@ "Sourcing" :> "supplier_read"
  @@ "Companion" :> "task_read" @@ "Files" :> "file_search"

(* PrimaryPageService::valid_field, of a field that is named.              *)
NumberedKinds == {"Orders", "Receivables", "Jobs", "Quotations"}

FieldsOfKind ==
  [kind \in NumberedKinds |-> {"number", "customer", "status"}]
  @@ "Administration" :> {"name", "access"} @@ "Parties" :> {"name", "terms"}
  @@ "Catalog" :> {"name"} @@ "Pricing" :> {"name", "rate"}
  @@ "Agreements" :> {"name", "customer", "status"} @@ "Sourcing" :> {"supplier", "status"}
  @@ "Companion" :> {"title", "status", "due"} @@ "Files" :> {"name", "location"}

ValidField(kind, field, filtering) ==
  /\ field \in FieldsOfKind[kind]
  /\ ~(filtering /\ kind = "Pricing" /\ field = "rate")

(* profile: the table a page is read from and its order when none is asked *)
(* for.                                                                    *)
Profile ==
  "Administration" :> [table |-> "person", sort |-> "display_name"]
  @@ "Parties" :> [table |-> "party", sort |-> "display_name"]
  @@ "Catalog" :> [table |-> "product", sort |-> "name"]
  @@ "Pricing" :> [table |-> "rate", sort |-> "product_id"]
  @@ "Orders" :> [table |-> "order", sort |-> "created_at"]
  @@ "Receivables" :> [table |-> "invoice", sort |-> "created_at"]
  @@ "Jobs" :> [table |-> "job", sort |-> "created_at"]
  @@ "Quotations" :> [table |-> "quotation", sort |-> "created_at"]
  @@ "Agreements" :> [table |-> "agreement", sort |-> "created_at"]
  @@ "Sourcing" :> [table |-> "supplier", sort |-> "updated_at"]
  @@ "Companion" :> [table |-> "task", sort |-> "due_at"]
  @@ "Files" :> [table |-> "asset", sort |-> "created_at"]

(* storage_field: the column of that table a field stands for.             *)
StorageField ==
  LET numbered(number) == "number" :> number @@ "customer" :> "party_id" @@ "status" :> "state"
  IN  "Administration" :> ("access" :> "username" @@ "name" :> "display_name")
      @@ "Parties" :> ("terms" :> "billing" @@ "name" :> "display_name")
      @@ "Catalog" :> ("name" :> "name")
      @@ "Pricing" :> ("rate" :> "amount_minor" @@ "name" :> "product_id")
      @@ "Orders" :> numbered("id") @@ "Receivables" :> numbered("number")
      @@ "Jobs" :> numbered("ticket_number") @@ "Quotations" :> numbered("id")
      @@ "Agreements" :> ("customer" :> "party_id" @@ "status" :> "state"
                            @@ "name" :> "customer_reference")
      @@ "Sourcing" :> ("status" :> "kind" @@ "supplier" :> "id")
      @@ "Companion" :> ("status" :> "state" @@ "due" :> "due_at" @@ "title" :> "title")
      @@ "Files" :> ("location" :> "media_type" @@ "name" :> "content_hash")

(* create_operation_for, by the name it looks up.                          *)
CreateOperation ==
  "Administration" :> "person_create" @@ "Parties" :> "party_create"
  @@ "Catalog" :> "product_create" @@ "Pricing" :> "rate_create" @@ "Orders" :> "order_create"
  @@ "Receivables" :> "invoice_create" @@ "Jobs" :> "job_create"
  @@ "Quotations" :> "quotation_create" @@ "Agreements" :> "agreement_create"
  @@ "Sourcing" :> "supplier_create" @@ "Companion" :> "task_create"

(* The operations of the protocol's table that create a record.  Of the    *)
(* names above two are not there, and their pages offer no new record:     *)
(* rates are set with rate_set and drafts made with invoice_draft_create.  *)
CreatingOperations ==
  {"person_create", "party_create", "product_create", "rate_set", "order_create",
   "invoice_draft_create", "job_create", "quotation_create", "agreement_create",
   "supplier_create", "task_create"}

OffersCreation(kind) ==
  kind \in DOMAIN CreateOperation /\ CreateOperation[kind] \in CreatingOperations

-----------------------------------------------------------------------------
(* The four agree: whoever may see a screen may read its page, every       *)
(* intent its columns take is one the page answers, and no two columns of  *)
(* a page stand for the same one of the store.                             *)
ASSUME PagesAgree ==
  \A s \in Screens : s.id \in DOMAIN KindOfRoute =>
    LET kind == KindOfRoute[s.id]
    IN  /\ OwnerOfKind[kind] = s.owner /\ ReadRight[kind] = s.right
        /\ \A c \in s.columns :
             /\ c.sorts => ValidField(kind, c.id, FALSE)
             /\ c.filters => ValidField(kind, c.id, TRUE)
        /\ DOMAIN StorageField[kind] = FieldsOfKind[kind]
        /\ \A f, g \in FieldsOfKind[kind] :
             StorageField[kind][f] = StorageField[kind][g] => f = g

ASSUME ListsWithoutCreation ==
  {kind \in Kinds : ~OffersCreation(kind)} = {"Pricing", "Receivables", "Files"}
=============================================================================
