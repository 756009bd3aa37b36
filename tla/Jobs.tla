-------------------------------- MODULE Jobs --------------------------------
(***************************************************************************)
(* Jobs: modules/jobs (service, domain, data).  A job goes draft, in       *)
(* progress, done, or is cancelled, while its production and fulfilment    *)
(* are set on their own; what may be said of them together is decided by   *)
(* validate, which every save runs.                                        *)
(*                                                                         *)
(* The commercial, design and payment axes, the price, the thin flag, the  *)
(* dates and the texts constrain nothing modelled here and are left out.   *)
(*                                                                         *)
(* With the orders in the same store: the workflow that derives a job from *)
(* each line of an order, workflows/order_to_jobs.cpp.                     *)
(***************************************************************************)
EXTENDS Orders

CONSTANTS
  JobIds,      \* identities of jobs
  SourceOrders,\* identities an upstream link may hold
  SourceLines, \* identities of the order lines a job may be derived from
  Tickets,     \* pairs of series and number, as one value each
  Stages,      \* what a request may say: pairs of production and fulfilment
  MaxJobs      \* bound on the jobs on file

VARIABLES
  job,    \* the table job
  moved   \* history: the derived jobs whose order was ever changed by an update

jobVars == <<job, moved>>

Production == {"queued", "running", "produced"}
Fulfilment == {"waiting", "ready", "delivered"}

JobRows ==
  [state : {"draft", "in_progress", "done", "cancelled"},
   order : SourceOrders \cup {None}, line : SourceLines \cup {None},
   ticket : Tickets \cup {None}, production : Production, fulfilment : Fulfilment,
   started : Nat, delivered : BOOLEAN]

ASSUME JobAssumption ==
  /\ MaxJobs \in Nat
  /\ Stages \subseteq Production \X Fulfilment
  /\ None \notin JobRows

JobTransitions ==
  {<<"draft", "in_progress">>, <<"draft", "cancelled">>,
   <<"in_progress", "done">>, <<"in_progress", "cancelled">>}

CanChange(j) == job[j] # None /\ job[j].state \in {"draft", "in_progress"}

ValidJobUnsigned(row, at) ==
  /\ row.line # None => row.order # None
  /\ row.state = "draft" => row.ticket = None /\ row.started = 0
  /\ row.state = "in_progress" => row.ticket # None /\ row.started > 0
  /\ row.state = "done" =>
       /\ row.ticket # None /\ row.started > 0 /\ at >= row.started
       /\ row.production = "produced" /\ row.fulfilment = "delivered"
  /\ row.state = "cancelled" => row.ticket # None /\ (row.started > 0 => at >= row.started)

(* validate(Job): the evidence of each state, at the moment of the save.   *)
(* "delivered" stands for who delivered, who received and the signature.   *)
ValidJob(row, at) ==
  /\ row.line # None => row.order # None
  /\ row.state = "draft" => row.ticket = None /\ row.started = 0
  /\ row.state = "in_progress" => row.ticket # None /\ row.started > 0
  /\ row.state = "done" =>
       /\ row.ticket # None /\ row.started > 0 /\ at >= row.started
       /\ row.production = "produced" /\ row.fulfilment = "delivered"
  /\ row.state = "cancelled" => row.ticket # None /\ (row.started > 0 => at >= row.started)
  /\ row.fulfilment = "delivered" <=> row.delivered

RoomFor(more) == Cardinality({j \in JobIds : job[j] # None}) + more <= MaxJobs

Save(j, row) == ValidJob(row, now) /\ job' = [job EXCEPT ![j] = row]

-----------------------------------------------------------------------------
NewJob(o, l, stage) ==
  [state |-> "draft", order |-> o, line |-> l, ticket |-> None, production |-> stage[1],
   fulfilment |-> stage[2], started |-> 0, delivered |-> FALSE]

CreateJob(j, o, stage) ==
  /\ job[j] = None
  /\ RoomFor(1)
  /\ Save(j, NewJob(o, None, stage))
  /\ UNCHANGED moved

(* apply_common_edits: any of the fields may be sent, the upstream order   *)
(* among them, of a derived job too; the source line is not one of them.   *)
UpdateJob(j, o, stage) ==
  /\ CanChange(j)
  /\ Save(j, [job[j] EXCEPT !.order = o, !.production = stage[1], !.fulfilment = stage[2]])
  /\ moved' = IF job[j].line # None /\ o # job[j].order THEN moved \cup {j} ELSE moved

(* state_change to InProgress.                                             *)
StartJob(j, ticket, stage) ==
  /\ job[j] # None
  /\ <<job[j].state, "in_progress">> \in JobTransitions
  /\ Save(j, [job[j] EXCEPT !.state = "in_progress", !.ticket = ticket, !.started = now,
               !.production = IF stage[1] = "queued" THEN "running" ELSE stage[1],
               !.fulfilment = stage[2]])
  /\ UNCHANGED moved

(* state_change to Done: both axes are set, whatever the request said.     *)
(* state_change to Cancelled is never saved: it writes no cancellation     *)
(* evidence, which validate demands.                                       *)
FinishJob(j) ==
  /\ job[j] # None
  /\ <<job[j].state, "done">> \in JobTransitions
  /\ Save(j, [job[j] EXCEPT !.state = "done", !.production = "produced",
                            !.fulfilment = "delivered", !.delivered = TRUE])
  /\ UNCHANGED moved

(* A draft is numbered as it is cancelled.                                 *)
CancelJob(j, ticket) ==
  /\ CanChange(j)
  /\ Save(j, [job[j] EXCEPT !.state = "cancelled",
               !.ticket = IF @ = None THEN ticket ELSE @])
  /\ UNCHANGED moved

JobForOrderLine(o, l) == {j \in JobIds : job[j] # None /\ job[j].order = o /\ job[j].line = l}

JobInit == job = [j \in JobIds |-> None] /\ moved = {}

JobNext ==
  \E j \in JobIds :
    \/ \E o \in SourceOrders \cup {None}, stage \in Stages :
         \/ CreateJob(j, o, stage)
         \/ UpdateJob(j, o, stage)
    \/ \E ticket \in Tickets :
         \/ \E stage \in Stages : StartJob(j, ticket, stage)
         \/ CancelJob(j, ticket)
    \/ FinishJob(j)

-----------------------------------------------------------------------------
(* From an order to the work.                                              *)
CONSTANT Conversions  \* record identities of the order_to_jobs requests

ASSUME WorkAssumption ==
  /\ OrderIds \subseteq SourceOrders /\ OrderLineIds \subseteq SourceLines
  /\ Conversions \X OrderLineIds \subseteq JobIds

workVars == <<orderVars, jobVars, now>>

(* order_job_id: one identity for a request and a line; two pairs that     *)
(* hash alike are not modelled.                                            *)
DerivedJob(c, l) == <<c, l>>

(* order_to_jobs: all the lines of an open order, or some named ones, each *)
(* at most once; one collision and the transaction takes every job back.   *)
OrderToJobs(c, o, chosen) ==
  /\ IsOpen(o)
  /\ chosen # {} /\ chosen \subseteq LinesForOrder(o)
  /\ \A l \in chosen : JobForOrderLine(o, l) = {}
  /\ \A l \in chosen : job[DerivedJob(c, l)] = None
  /\ RoomFor(Cardinality(chosen))
  /\ job' = [j \in JobIds |->
       IF \E l \in chosen : j = DerivedJob(c, l)
       THEN LET l == CHOOSE l \in chosen : j = DerivedJob(c, l)
            IN  NewJob(o, l, <<"queued", "waiting">>)
       ELSE job[j]]
  /\ UNCHANGED <<orderVars, now, moved>>

WorkInit == ClockInit /\ OrderInit /\ JobInit

WorkNext ==
  \/ SetClock /\ UNCHANGED <<orderVars, jobVars>>
  \/ OrderNext /\ UNCHANGED <<jobVars, now>>
  \/ JobNext /\ UNCHANGED <<orderVars, now>>
  \/ \E c \in Conversions, o \in OrderIds, chosen \in SUBSET OrderLineIds :
       OrderToJobs(c, o, chosen)

WorkSpec == WorkInit /\ [][WorkNext]_workVars

-----------------------------------------------------------------------------
(* Whichever requests are repeated under other identities and whatever is  *)
(* updated or cancelled in between, a line of an order has at most one job *)
(* that no update ever moved to another order, and that job names the      *)
(* line's order (job_for_order_line and job.hpp, source_order_line_id).    *)
(* A job that was moved escapes the duplicate check, so another may be     *)
(* derived from its line, and counts once it was moved no more, although   *)
(* an update may bring it back.                                            *)
Unmoved == {j \in JobIds : job[j] # None /\ job[j].line # None} \ moved

MadeOnce ==
  /\ \A j, k \in Unmoved : job[j].line = job[k].line => j = k
  /\ \A j \in Unmoved : line[job[j].line] # None /\ line[job[j].line].of = job[j].order

(* A ticket number, once on a job, stays on it, and a job says delivered   *)
(* exactly when it is done, although fulfilment and state are set by       *)
(* different requests (job.cpp, validate).                                 *)
TicketsStay ==
  \A j \in JobIds : job[j] # None =>
    /\ job'[j] # None
    /\ job[j].ticket # None => job'[j].ticket = job[j].ticket
    /\ job'[j].fulfilment = "delivered" <=> job'[j].state = "done"
    /\ job[j].state \in {"done", "cancelled"} => job'[j] = job[j]

TicketKept == [][TicketsStay]_workVars

(* A line of an order becomes one job while nobody moves that job, and     *)
(* tickets and ends stay (order_to_jobs.cpp, jobs_service.cpp).            *)
WorkStands == []MadeOnce /\ TicketKept
=============================================================================
