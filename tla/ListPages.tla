------------------------------ MODULE ListPages ------------------------------
(***************************************************************************)
(* One list of the shell: shell/list_bridge, its paged_list_cache and the  *)
(* Qt side that shows it, with the page service and the query that answer. *)
(* A page is asked for by where it begins, and answered from the table as  *)
(* it is then, perhaps from another thread and long after; at most         *)
(* MaxPages of them are kept, and a further one drops the oldest.          *)
(***************************************************************************)
EXTENDS Naturals, Sequences, FiniteSets, SequencesExt

CONSTANTS
  Rows,          \* the rows there may be, numbers in the order of the query
  Matching,      \* those a filter lets through
  PageRows,      \* kMaximumPageRows, the limit of every request
  MaxPages,      \* kMaximumPages
  MaxGeneration  \* bound on the queries begun

ASSUME ListAssumption ==
  /\ Rows \subseteq Nat /\ IsFiniteSet(Rows) /\ Matching \subseteq Rows
  /\ PageRows \in Nat \ {0} /\ MaxPages \in Nat \ {0} /\ MaxGeneration \in Nat

VARIABLES
  table,     \* the rows of the store
  written,   \* TRUE: it was written since the query began, noted by nobody in the code
  query,     \* current_query_: [generation, offset, descending, filtered]
  inFlight,  \* in_flight_: the query that is asked, or <<>>
  pages,     \* cache_: the pages kept, oldest first, each a sequence of rows
  selected,  \* selected_: at most one row
  hasMore,   \* has_more_
  view,      \* state_: "idle", "loading", "ready" or "failed"
  model,     \* what model_ shows
  asked,     \* requests nobody has answered yet
  answers    \* answers on their way to the thread of the interface

listVars == <<table, written, query, inFlight, pages, selected, hasMore, view, model, asked, answers>>

Requests ==
  [generation : 0..MaxGeneration, offset : 0..Cardinality(Rows),
   descending : BOOLEAN, filtered : BOOLEAN]

Shown == FlattenSeq(pages)

-----------------------------------------------------------------------------
(* PrimaryPageService::list and LocalPrimaryQuery::load.                   *)
InOrder(rows, descending) ==
  LET Before(row) == {other \in rows : IF descending THEN other > row ELSE other < row}
  IN  [i \in 1..Cardinality(rows) |-> CHOOSE row \in rows : Cardinality(Before(row)) = i - 1]

Result(rows, request) ==
  InOrder(IF request.filtered THEN rows \cap Matching ELSE rows, request.descending)

Answer(request) ==
  LET found == Result(table, request)
  IN  [generation |-> request.generation,
       rows |-> SubSeq(found, request.offset + 1,
                       IF request.offset + PageRows < Len(found)
                       THEN request.offset + PageRows ELSE Len(found)),
       more |-> Len(found) > request.offset + PageRows,
       failed |-> FALSE]

Failure(request) ==
  [generation |-> request.generation, rows |-> <<>>, more |-> FALSE, failed |-> TRUE]

-----------------------------------------------------------------------------
(* The bridge.                                                             *)
Ask(request) ==
  /\ query' = request
  /\ inFlight' = <<request>>
  /\ view' = "loading"
  /\ asked' = asked \cup {request}

(* begin_refresh, and refresh of the Qt side: the cache forgets the query  *)
(* before, and so does the screen.                                         *)
Refresh(descending, filtered) ==
  /\ query.generation < MaxGeneration
  /\ Ask([generation |-> query.generation + 1, offset |-> 0,
          descending |-> descending, filtered |-> filtered])
  /\ pages' = <<>> /\ selected' = {} /\ model' = <<>>
  /\ hasMore' = FALSE /\ written' = FALSE
  /\ UNCHANGED <<table, answers>>

(* next_page: from as many rows as are kept.                               *)
NextPage ==
  /\ inFlight = <<>>
  /\ hasMore
  /\ Ask([query EXCEPT !.offset = Len(Shown)])
  /\ UNCHANGED <<table, written, pages, selected, hasMore, model, answers>>

(* PagedListCache::apply, of a page with no row that is kept already.      *)
Kept(rows) ==
  LET longer == Append(pages, rows)
  IN  IF Len(longer) > MaxPages THEN Tail(longer) ELSE longer

ApplyAnyGeneration(a) ==
  /\ inFlight # <<>>
  /\ ~a.failed
  /\ pages' = Kept(a.rows)
  /\ selected' = selected \cap ToSet(FlattenSeq(pages'))
  /\ model' = FlattenSeq(pages')
  /\ inFlight' = <<>>
  /\ hasMore' = a.more
  /\ view' = "ready"
  /\ UNCHANGED <<table, written, query, asked>>

(* apply_page, when it succeeds.                                           *)
ApplyPage(a) ==
  /\ inFlight # <<>>
  /\ a.generation = query.generation
  /\ ~a.failed
  /\ ToSet(a.rows) \cap ToSet(Shown) = {}
  /\ pages' = Kept(a.rows)
  /\ selected' = selected \cap ToSet(FlattenSeq(pages'))
  /\ model' = FlattenSeq(pages')
  /\ inFlight' = <<>>
  /\ hasMore' = a.more
  /\ view' = "ready"
  /\ UNCHANGED <<table, written, query, asked>>

(* fail, when it is about the query that is asked.                         *)
FailPage(a) ==
  /\ inFlight # <<>>
  /\ a.generation = query.generation
  /\ a.failed
  /\ inFlight' = <<>>
  /\ hasMore' = FALSE
  /\ view' = "failed"
  /\ UNCHANGED <<table, written, query, pages, selected, model, asked>>

(* Of an older query, of none, or with a row that is kept already: nothing *)
(* changes, and what is in flight stays so.                                *)
Refused(a) ==
  \/ inFlight = <<>>
  \/ a.generation # query.generation
  \/ ~a.failed /\ ToSet(a.rows) \cap ToSet(Shown) # {}

(* applyPageOnGui or failPageOnGui, in the order the answers came.         *)
Deliver ==
  /\ answers # <<>>
  /\ answers' = Tail(answers)
  /\ \/ ApplyPage(Head(answers))
     \/ FailPage(Head(answers))
     \/ Refused(Head(answers)) /\
          UNCHANGED <<table, written, query, inFlight, pages, selected, hasMore, view, model, asked>>

(* fulfillList, or whoever answers a page from a thread of their own.      *)
Provide(request) ==
  /\ asked' = asked \ {request}
  /\ \E a \in {Answer(request), Failure(request)} : answers' = Append(answers, a)
  /\ UNCHANGED <<table, written, query, inFlight, pages, selected, hasMore, view, model>>

SelectRow(row) ==
  /\ selected' = {row} \cap ToSet(Shown)
  /\ UNCHANGED <<table, written, query, inFlight, pages, hasMore, view, model, asked, answers>>

(* cancel: what is still asked will be answered to nobody.                 *)
Cancel ==
  /\ query.generation < MaxGeneration
  /\ query' = [query EXCEPT !.generation = @ + 1, !.offset = 0]
  /\ pages' = <<>> /\ selected' = {} /\ model' = <<>>
  /\ inFlight' = <<>> /\ hasMore' = FALSE /\ view' = "idle"
  /\ UNCHANGED <<table, written, asked, answers>>

(* Another screen, or the rest of the program, writes.                     *)
ChangeTable(row) ==
  /\ written' = TRUE
  /\ table' = IF row \in table THEN table \ {row} ELSE table \cup {row}
  /\ UNCHANGED <<query, inFlight, pages, selected, hasMore, view, model, asked, answers>>

ListInit ==
  /\ table = Rows /\ written = FALSE
  /\ query = [generation |-> 0, offset |-> 0, descending |-> FALSE, filtered |-> FALSE]
  /\ inFlight = <<>> /\ pages = <<>> /\ selected = {} /\ hasMore = FALSE
  /\ view = "idle" /\ model = <<>> /\ asked = {} /\ answers = <<>>

ListNext ==
  \/ \E descending, filtered \in BOOLEAN : Refresh(descending, filtered)
  \/ NextPage
  \/ Deliver
  \/ \E request \in asked : Provide(request)
  \/ \E row \in Rows : SelectRow(row) \/ ChangeTable(row)
  \/ Cancel

ListSpec == ListInit /\ [][ListNext]_listVars

-----------------------------------------------------------------------------
(* Whatever is asked, answered late or cancelled, the screen shows rows of *)
(* the query in force only, each once and as the cache keeps them; what is *)
(* selected is among them; the list is loading exactly while a page is     *)
(* asked for; and a table nobody writes is shown as a window of the query, *)
(* with more to come exactly when there are (list_bridge.cpp,              *)
(* paged_list_cache.cpp).                                                  *)
WindowOfTheQuery ==
  /\ query \in Requests /\ asked \subseteq Requests
  /\ model = Shown
  /\ IsInjective(Shown)
  /\ Len(pages) <= MaxPages
  /\ selected \subseteq ToSet(Shown)
  /\ view = "loading" <=> inFlight # <<>>
  /\ inFlight # <<>> => inFlight[1] = query
  /\ query.filtered => ToSet(Shown) \subseteq Matching
  /\ ~written =>
       LET all == Result(table, query)
       IN  \E start \in 0..Len(all) - Len(Shown) :
             /\ Shown = SubSeq(all, start + 1, start + Len(Shown))
             /\ view = "ready" => (hasMore <=> start + Len(Shown) < Len(all))
=============================================================================
