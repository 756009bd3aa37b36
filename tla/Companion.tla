------------------------------ MODULE Companion ------------------------------
(***************************************************************************)
(* Companion: modules/companion (service, domain, data): tasks, reminders, *)
(* recurring tasks and rule-made attention items, each change of which     *)
(* leaves an event under the key of its request.  Days stand for           *)
(* milliseconds and a short calendar for the real one; titles, notes and   *)
(* what a task points at are left out.                                     *)
(***************************************************************************)
EXTENDS ShopClock, FiniteSets, FiniteSetsExt, Sequences, Sums

CONSTANTS
  Tasks,       \* identities of tasks
  Keys,        \* idempotency keys
  SourceKeys,  \* what a rule-made attention item is known by
  MonthDays,   \* the lengths of the months of the calendar, in order
  MaxCount     \* how far completions are counted: the largest integer

VARIABLES
  task,  \* the table task
  event  \* the table task_event

companionVars == <<task, event>>

Kinds == {"personal", "reminder", "recurring", "attention"}

(* Days 1..LastDay of the calendar as pairs of month and day.              *)
FirstDay(m) == SumOver(MonthDays, 1..(m - 1)) + 1
LastDay == FirstDay(Len(MonthDays) + 1) - 1
MonthOf(day) == CHOOSE m \in DOMAIN MonthDays : day \in FirstDay(m)..(FirstDay(m) + MonthDays[m] - 1)

Recurrences == {"none", "day", "month"}

TaskRows ==
  [kind : Kinds, open : BOOLEAN, source : SourceKeys \cup {None}, due : 0..LastDay,
   snoozed : 0..LastDay, recurrence : Recurrences, completions : Nat,
   created : 1..MaxTime, completed : 0..MaxTime]

EventRows ==
  [task : Tasks, kind : {"created", "updated", "completed", "snoozed"}, happened : 1..MaxTime,
   previous : 0..LastDay, next : 0..LastDay]

ASSUME CompanionAssumption ==
  /\ MonthDays \in Seq(Nat \ {0})
  /\ MaxCount \in Nat
  /\ None \notin SourceKeys /\ None \notin TaskRows /\ None \notin EventRows

-----------------------------------------------------------------------------
EffectiveDue(t) == Max({task[t].snoozed, task[t].due})

VisibleAt(t, at) == task[t].open /\ (EffectiveDue(t) = 0 \/ EffectiveDue(t) <= at)

(* next_due_after, with an interval of one: the next day, or the same day  *)
(* of the next month, its last day when it is shorter; 0 is no answer.     *)
NextDue(due, recurrence) ==
  LET month == MonthOf(due)
      day == due - FirstDay(month)
  IN  IF due = 0 \/ recurrence = "none" THEN 0
      ELSE IF recurrence = "day" THEN IF due < LastDay THEN due + 1 ELSE 0
      ELSE IF month = Len(MonthDays) THEN 0
      ELSE FirstDay(month + 1) + Min({day, MonthDays[month + 1] - 1})

(* validate(Task), at the moment of the save.                              *)
ValidTask(row, at) ==
  /\ at >= row.created
  /\ row.kind = "reminder" => row.due > 0
  /\ row.kind = "attention" <=> row.source # None
  /\ IF row.kind = "recurring" THEN NextDue(row.due, row.recurrence) > 0
     ELSE row.recurrence = "none"
  /\ row.snoozed > 0 => row.open
  /\ ~row.open => row.kind # "recurring" /\ row.completed > 0
  /\ row.open => row.completed = 0

(* save_task and save_event: an event that stands under the same key is    *)
(* replaced.                                                               *)
Record(t, k, row, kind, previous, next) ==
  /\ ValidTask(row, now)
  /\ task' = [task EXCEPT ![t] = row]
  /\ event' = [event EXCEPT ![k] =
       [task |-> t, kind |-> kind, happened |-> now, previous |-> previous, next |-> next]]

-----------------------------------------------------------------------------
CreateTaskAgain(t, k, kind, source, due, recurrence) ==
  /\ task[t] = None
  /\ Record(t, k, [kind |-> kind, open |-> TRUE, source |-> source, due |-> due, snoozed |-> 0,
                   recurrence |-> recurrence, completions |-> 0, created |-> now, completed |-> 0],
            "created", 0, due)

(* The handlers.  An attention item is refused when its source already     *)
(* made one, whatever became of it.                                        *)
CreateTask(t, k, kind, source, due, recurrence) ==
  /\ task[t] = None
  /\ kind = "attention" => \A other \in Tasks : task[other] # None => task[other].source # source
  /\ Record(t, k, [kind |-> kind, open |-> TRUE, source |-> source, due |-> due, snoozed |-> 0,
                   recurrence |-> recurrence, completions |-> 0, created |-> now, completed |-> 0],
            "created", 0, due)

UpdateTask(t, k, due, recurrence) ==
  /\ task[t] # None /\ task[t].open
  /\ Record(t, k, [task[t] EXCEPT !.due = due, !.recurrence = recurrence],
            "updated", task[t].due, due)

CompleteTask(t, k) ==
  /\ task[t] # None /\ task[t].open
  /\ IF task[t].kind = "recurring"
     THEN LET next == NextDue(task[t].due, task[t].recurrence)
          IN  /\ next > 0 /\ task[t].completions < MaxCount
              /\ Record(t, k, [task[t] EXCEPT !.snoozed = 0, !.due = next, !.completions = @ + 1],
                        "completed", task[t].due, next)
     ELSE Record(t, k, [task[t] EXCEPT !.snoozed = 0, !.open = FALSE, !.completed = now,
                                       !.completions = @ + 1],
                 "completed", task[t].due, 0)

SnoozeTask(t, k, until) ==
  /\ task[t] # None /\ task[t].open
  /\ until > now
  /\ Record(t, k, [task[t] EXCEPT !.snoozed = until], "snoozed", task[t].snoozed, until)

CompanionInit ==
  /\ task = [t \in Tasks |-> None]
  /\ event = [k \in Keys |-> None]

(* A key names one request, what is asked and of which task, for good.     *)
(* The request may be run again: once the outbox has pruned it, the        *)
(* gateway no longer knows it (registry.cpp and module Commands).          *)
SameRequest(k, t, kind) == event[k] # None => event[k].task = t /\ event[k].kind = kind

CompanionNext ==
  \E t \in Tasks, k \in Keys :
    \/ \E due \in 0..LastDay, recurrence \in Recurrences :
         \/ \E kind \in Kinds, source \in SourceKeys \cup {None} :
              SameRequest(k, t, "created") /\ CreateTask(t, k, kind, source, due, recurrence)
         \/ SameRequest(k, t, "updated") /\ UpdateTask(t, k, due, recurrence)
    \/ SameRequest(k, t, "completed") /\ CompleteTask(t, k)
    \/ \E until \in 1..LastDay : SameRequest(k, t, "snoozed") /\ SnoozeTask(t, k, until)

-----------------------------------------------------------------------------
EventsOf(t, kind) == {k \in Keys : event[k] # None /\ event[k].task = t /\ event[k].kind = kind}

(* The events of a task tell what became of it, although a request that is *)
(* run again writes over its event: one creation, where its due date and   *)
(* its snooze came from, when it was finished, and whether it was ever     *)
(* completed, with no completion more than the task counts; a snooze never *)
(* brings a task forward; one source makes one attention item              *)
(* (companion_service.cpp, complete, snooze and create_attention).         *)
HistoryTells ==
  /\ \A t \in Tasks : task[t] # None =>
       /\ Cardinality(EventsOf(t, "created")) = 1
       /\ Cardinality(EventsOf(t, "completed")) <= task[t].completions
       /\ task[t].completions > 0 => EventsOf(t, "completed") # {}
       /\ \E k \in EventsOf(t, "created") \cup EventsOf(t, "updated") \cup EventsOf(t, "completed") :
            event[k].next = task[t].due
       /\ task[t].snoozed > 0 => \E k \in EventsOf(t, "snoozed") : event[k].next = task[t].snoozed
       /\ ~task[t].open =>
            /\ EventsOf(t, "completed") # {}
            /\ \A k \in EventsOf(t, "completed") : event[k].happened = task[t].completed
       /\ \A at \in 1..MaxTime : VisibleAt(t, at) => task[t].due <= at
       /\ task[t].kind = "recurring" => task[t].open /\ NextDue(task[t].due, task[t].recurrence) > task[t].due
  /\ \A t, other \in Tasks : task[t] # None /\ task[other] # None
       /\ task[t].source = task[other].source => t = other \/ task[t].source = None
=============================================================================
