----------------------------- MODULE Background -----------------------------
(***************************************************************************)
(* Background services: platform/background_supervisor, which decides when *)
(* a service runs, and platform/background_executor, two worker threads    *)
(* with a queue each and one mutex.  An action is a section under one of   *)
(* the two mutexes, or the step of a thread between two sections.          *)
(*                                                                         *)
(* Registration is over (the registry is sealed).  The reasons of a        *)
(* trigger, the clock of coarse_tick and the day of calendar_day only say  *)
(* which services are triggered, so any may be at any time; the published  *)
(* snapshot is left out.                                                   *)
(***************************************************************************)
EXTENDS Naturals, FiniteSets, Sequences, SequencesExt

CONSTANTS
  Services,      \* identities of the registered services
  Lanes,         \* the worker threads
  LaneOf,        \* the lane of each service
  Gates,         \* of each service, the gates it needs: "network", "idle"
  FailureLimit,  \* the same for every service
  Capacity,      \* of both queues together
  None

ASSUME BackgroundAssumption ==
  /\ LaneOf \in [Services -> Lanes]
  /\ Gates \in [Services -> SUBSET {"network", "idle"}]
  /\ FailureLimit \in Nat \ {0}
  /\ IsFiniteSet(Services) /\ None \notin Services
  /\ Capacity \in Nat /\ Cardinality(Services) <= Capacity

VARIABLES
  status,     \* state of each service, as the supervisor has it
  submitted,  \* submission_pending
  rerun,      \* rerun
  failures,   \* consecutive_failures
  opened,     \* the gates that are open
  sweep,      \* <<gate, service>>: a call that opened the gate has still to look at it
  halting,    \* stopping_ of the supervisor
  calling,    \* the services whose submit call is on its way
  queue,      \* of each lane
  worker,     \* where each worker is
  task,       \* the service each worker has, or None
  asked,      \* the lanes whose token was stopped
  closing,    \* where the executor's shutdown is
  cancelled,  \* the services it took from the queues and has not told
  unserved    \* the services triggered since they last began

supervisorVars == <<status, submitted, rerun, failures, opened, sweep, halting, unserved>>
executorVars == <<calling, queue, worker, task, asked, closing, cancelled>>
backgroundVars == <<supervisorVars, executorVars>>

States == {"idle", "pending", "running", "disabled", "stopping"}

GateNames == UNION {Gates[s] : s \in Services}

Gated(s, gates) == ~(Gates[s] \subseteq gates)

InSweep(s) == \E gate \in GateNames : <<gate, s>> \in sweep

(* A worker that tested its predicate and is not asleep yet has the mutex. *)
MutexFree == \A lane \in Lanes : worker[lane] # "dozing"

Woken == [lane \in Lanes |-> IF worker[lane] = "asleep" THEN "testing" ELSE worker[lane]]

-----------------------------------------------------------------------------
(* The supervisor.                                                         *)

(* dispatch_locked, up to where it lets go of the mutex.                   *)
Dispatch(s) ==
  /\ status' = [status EXCEPT ![s] = "pending"]
  /\ submitted' = submitted \cup {s}
  /\ calling' = calling \cup {s}

TriggerForgetting(s) ==
  /\ ~halting
  /\ status[s] # "disabled"
  /\ unserved' = unserved \cup {s}
  /\ \/ /\ status[s] \in {"pending", "running"}
        /\ UNCHANGED <<rerun, status, submitted, calling>>
     \/ /\ status[s] \notin {"pending", "running"}
        /\ UNCHANGED rerun
        /\ IF Gated(s, opened)
           THEN status' = [status EXCEPT ![s] = "pending"] /\ UNCHANGED <<submitted, calling>>
           ELSE Dispatch(s)
  /\ UNCHANGED <<failures, opened, sweep, halting, queue, worker, task, asked, closing, cancelled>>

(* trigger; coarse_tick and calendar_day come down to it.                  *)
Trigger(s) ==
  /\ ~halting
  /\ status[s] # "disabled"
  /\ unserved' = unserved \cup {s}
  /\ \/ /\ status[s] \in {"pending", "running"}
        /\ rerun' = rerun \cup {s}
        /\ UNCHANGED <<status, submitted, calling>>
     \/ /\ status[s] \notin {"pending", "running"}
        /\ UNCHANGED rerun
        /\ IF Gated(s, opened)
           THEN status' = [status EXCEPT ![s] = "pending"] /\ UNCHANGED <<submitted, calling>>
           ELSE Dispatch(s)
  /\ UNCHANGED <<failures, opened, sweep, halting, queue, worker, task, asked, closing, cancelled>>

(* set_network_authorized and set_idle: closing a gate is all there is to  *)
(* it; opening one, or saying again that it is open, looks at every        *)
(* service in turn and lets go of the mutex for each it submits.  Between  *)
(* two of them another caller may set this gate or another one; two calls  *)
(* at once that open the same gate look at the services as one.            *)
SetGate(gate) ==
  /\ \/ opened' = opened \ {gate} /\ UNCHANGED sweep
     \/ opened' = opened \cup {gate} /\ sweep' = sweep \cup ({gate} \X Services)
  /\ UNCHANGED <<status, submitted, rerun, failures, halting, unserved, executorVars>>

SweepOverAgain(gate, s) ==
  /\ <<gate, s>> \in sweep
  /\ sweep' = sweep \ {<<gate, s>>}
  /\ IF status[s] = "pending" /\ ~Gated(s, opened)
     THEN Dispatch(s)
     ELSE UNCHANGED <<status, submitted, calling>>
  /\ UNCHANGED <<rerun, failures, opened, halting, unserved,
                 queue, worker, task, asked, closing, cancelled>>

SweepOver(gate, s) ==
  /\ <<gate, s>> \in sweep
  /\ sweep' = sweep \ {<<gate, s>>}
  /\ IF status[s] = "pending" /\ s \notin submitted /\ ~Gated(s, opened)
     THEN Dispatch(s)
     ELSE UNCHANGED <<status, submitted, calling>>
  /\ UNCHANGED <<rerun, failures, opened, halting, unserved,
                 queue, worker, task, asked, closing, cancelled>>

(* The first section of a task: the service runs.                          *)
Begin(lane) ==
  /\ worker[lane] = "taken"
  /\ worker' = [worker EXCEPT ![lane] = "running"]
  /\ LET s == task[lane]
     IN  /\ status' = [status EXCEPT ![s] = "running"]
         /\ submitted' = submitted \ {s}
         /\ unserved' = unserved \ {s}
  /\ UNCHANGED <<rerun, failures, opened, sweep, halting, calling, queue, task, asked, closing, cancelled>>

(* completed(s, result); a rerun is dispatched from here.                 *)
Completed(s, result) ==
  LET more == IF result = "failed" THEN failures[s] + 1
              ELSE IF result = "succeeded" THEN 0 ELSE failures[s]
      disabled == result = "failed" /\ more >= FailureLimit
  IN  /\ failures' = [failures EXCEPT ![s] = more]
      /\ rerun' = rerun \ {s}
      /\ IF ~disabled /\ ~halting /\ s \in rerun /\ ~Gated(s, opened)
         THEN Dispatch(s)
         ELSE /\ submitted' = submitted \ {s}
              /\ status' = [status EXCEPT ![s] =
                   IF disabled THEN "disabled"
                   ELSE IF halting THEN "stopping"
                   ELSE IF s \in rerun THEN "pending" ELSE "idle"]
              /\ UNCHANGED calling
      /\ UNCHANGED <<opened, sweep, halting, unserved>>

(* shutdown, its own section; the executor's follows.                      *)
Halt ==
  /\ ~halting
  /\ halting' = TRUE
  /\ status' = [s \in Services |-> "stopping"]
  /\ rerun' = {}
  /\ closing' = "called"
  /\ UNCHANGED <<submitted, failures, opened, sweep, unserved,
                 calling, queue, worker, task, asked, cancelled>>

-----------------------------------------------------------------------------
(* The executor.                                                           *)

Queued == UNION {ToSet(queue[lane]) : lane \in Lanes}
QueuedUp == Cardinality({p \in Lanes \X (1..Capacity) : p[2] <= Len(queue[p[1]])})

SubmitQuietly(s) ==
  /\ s \in calling
  /\ MutexFree
  /\ calling' = calling \ {s}
  /\ \/ /\ closing \in {"open", "called"} /\ QueuedUp < Capacity
        /\ queue' = [queue EXCEPT ![LaneOf[s]] = Append(@, s)]
        /\ UNCHANGED <<worker, status, submitted>>
     \/ /\ closing \notin {"open", "called"} \/ QueuedUp >= Capacity
        /\ submitted' = submitted \ {s}
        /\ status' = [status EXCEPT ![s] = IF halting THEN "stopping" ELSE "idle"]
        /\ UNCHANGED <<queue, worker>>
  /\ UNCHANGED <<rerun, failures, opened, sweep, halting, unserved, task, asked, closing, cancelled>>

(* submit, and what dispatch_locked does with a refusal.                   *)
Submit(s) ==
  /\ s \in calling
  /\ MutexFree
  /\ calling' = calling \ {s}
  /\ \/ /\ closing \in {"open", "called"} /\ QueuedUp < Capacity
        /\ queue' = [queue EXCEPT ![LaneOf[s]] = Append(@, s)]
        /\ worker' = Woken
        /\ UNCHANGED <<status, submitted>>
     \/ /\ closing \notin {"open", "called"} \/ QueuedUp >= Capacity
        /\ submitted' = submitted \ {s}
        /\ status' = [status EXCEPT ![s] = IF halting THEN "stopping" ELSE "idle"]
        /\ UNCHANGED <<queue, worker>>
  /\ UNCHANGED <<rerun, failures, opened, sweep, halting, unserved, task, asked, closing, cancelled>>

(* The wait of a worker: work, or the end, or sleep.                       *)
Test(lane) ==
  /\ worker[lane] = "testing"
  /\ MutexFree
  /\ IF queue[lane] # <<>>
     THEN /\ worker' = [worker EXCEPT ![lane] = "taken"]
          /\ task' = [task EXCEPT ![lane] = Head(queue[lane])]
          /\ queue' = [queue EXCEPT ![lane] = Tail(@)]
     ELSE /\ worker' = [worker EXCEPT ![lane] = IF lane \in asked THEN "exited" ELSE "dozing"]
          /\ UNCHANGED <<task, queue>>
  /\ UNCHANGED <<supervisorVars, calling, asked, closing, cancelled>>

FallAsleep(lane) ==
  /\ worker[lane] = "dozing"
  /\ worker' = [worker EXCEPT ![lane] = "asleep"]
  /\ UNCHANGED <<supervisorVars, calling, queue, task, asked, closing, cancelled>>

(* A task ends, well or not, and its completion runs.                      *)
End(lane, result) ==
  /\ worker[lane] = "running"
  /\ result = "succeeded" => lane \notin asked
  /\ result = "cancelled" => lane \in asked
  /\ Completed(task[lane], result)
  /\ worker' = [worker EXCEPT ![lane] = "handing"]
  /\ UNCHANGED <<queue, task, asked, closing, cancelled>>

(* It is back for more when the rerun it submitted itself is queued.       *)
Return(lane) ==
  /\ worker[lane] = "handing"
  /\ task[lane] \notin calling
  /\ MutexFree
  /\ worker' = [worker EXCEPT ![lane] = "testing"]
  /\ task' = [task EXCEPT ![lane] = None]
  /\ UNCHANGED <<supervisorVars, calling, queue, asked, closing, cancelled>>

(* shutdown: the queues are emptied under the mutex, the two tokens are    *)
(* stopped and the sleepers woken without it, those taken from the queues  *)
(* are told, and the exits are awaited.                                    *)
TakeQueues ==
  /\ closing = "called"
  /\ MutexFree
  /\ closing' = "stopping"
  /\ cancelled' = Queued
  /\ queue' = [lane \in Lanes |-> <<>>]
  /\ UNCHANGED <<supervisorVars, calling, worker, task, asked>>

RequestStop(lane) ==
  /\ closing = "stopping"
  /\ lane \notin asked
  /\ asked' = asked \cup {lane}
  /\ worker' = Woken
  /\ UNCHANGED <<supervisorVars, calling, queue, task, closing, cancelled>>

NotifyAll ==
  /\ closing = "stopping"
  /\ asked = Lanes
  /\ closing' = "telling"
  /\ worker' = Woken
  /\ UNCHANGED <<supervisorVars, calling, queue, task, asked, cancelled>>

Tell(s) ==
  /\ closing = "telling"
  /\ s \in cancelled
  /\ cancelled' = cancelled \ {s}
  /\ Completed(s, "cancelled")
  /\ UNCHANGED <<queue, worker, task, asked, closing>>

Joined ==
  /\ closing = "telling" /\ cancelled = {}
  /\ \A lane \in Lanes : worker[lane] = "exited"
  /\ closing' = "closed"
  /\ UNCHANGED <<supervisorVars, calling, queue, worker, task, asked, cancelled>>

-----------------------------------------------------------------------------
BackgroundInit ==
  /\ status = [s \in Services |-> "idle"]
  /\ submitted = {} /\ rerun = {} /\ failures = [s \in Services |-> 0]
  /\ opened = {} /\ sweep = {} /\ halting = FALSE /\ unserved = {}
  /\ calling = {} /\ queue = [lane \in Lanes |-> <<>>]
  /\ worker = [lane \in Lanes |-> "testing"] /\ task = [lane \in Lanes |-> None]
  /\ asked = {} /\ closing = "open" /\ cancelled = {}

WorkerStep(lane) ==
  \/ Test(lane) \/ FallAsleep(lane) \/ Begin(lane) \/ Return(lane)
  \/ \E result \in {"succeeded", "failed", "cancelled"} : End(lane, result)

CallerStep ==
  \E s \in Services : Submit(s) \/ \E gate \in GateNames : SweepOver(gate, s)

CloserStep ==
  \/ TakeQueues \/ NotifyAll \/ Joined
  \/ \E lane \in Lanes : RequestStop(lane)
  \/ \E s \in Services : Tell(s)

BackgroundNext ==
  \/ \E s \in Services : Trigger(s)
  \/ \E gate \in GateNames : SetGate(gate)
  \/ Halt
  \/ CallerStep
  \/ \E lane \in Lanes : WorkerStep(lane)
  \/ CloserStep

(* A thread that can take a step takes it, a task ends, and whoever waits  *)
(* for the executor's mutex gets it if it is let go again and again.       *)
BackgroundFairness ==
  /\ \A lane \in Lanes : SF_backgroundVars(WorkerStep(lane))
  /\ \A s \in Services :
       /\ SF_backgroundVars(Submit(s))
       /\ \A gate \in GateNames : WF_backgroundVars(SweepOver(gate, s))
  /\ SF_backgroundVars(CloserStep)

BackgroundSpec == BackgroundInit /\ [][BackgroundNext]_backgroundVars /\ BackgroundFairness

-----------------------------------------------------------------------------
Places(s) ==
  {<<"calling", s>> : x \in calling \cap {s}} \cup {<<"cancelled", s>> : x \in cancelled \cap {s}}
    \cup {<<"worker", lane>> : lane \in {l \in Lanes : task[l] = s /\ worker[l] # "handing"}}
    \cup {p \in Lanes \X (1..Capacity) : p[2] <= Len(queue[p[1]]) /\ queue[p[1]][p[2]] = s}

(* Wherever a service is, it is there once: being submitted, queued, with  *)
(* a worker or taken back, however many triggers, reruns and gates brought *)
(* it there; so it never runs beside itself, and one that failed too often *)
(* is nowhere (background_supervisor.cpp, trigger_locked and completed).   *)
RunsAlone ==
  \A s \in Services :
    /\ Cardinality(Places(s)) <= 1
    /\ status[s] \in {"disabled", "idle"} => Places(s) = {}
    /\ status[s] = "running" => \E lane \in Lanes : worker[lane] = "running" /\ task[lane] = s

(* A trigger that was taken is not forgotten: until the service begins     *)
(* anew it is on its way to a worker, waits for its gate, or is to run     *)
(* again, unless it failed too often or everything stops; what waits for a *)
(* gate alone finds it closed, or is about to be looked at                 *)
(* (background_supervisor.cpp, trigger_locked, completed, set_idle).       *)
NoTriggerForgotten ==
  \A s \in Services :
    /\ s \in unserved /\ ~halting /\ status[s] # "disabled" =>
         status[s] = "pending" \/ (status[s] = "running" /\ s \in rerun)
    /\ status[s] = "pending" /\ ~halting =>
         Places(s) # {} \/ Gated(s, opened) \/ InSweep(s)

(* A trigger of a service that needs no gate is answered by a run, unless  *)
(* the service is switched off for its failures or everything stops.       *)
TriggersAreServed ==
  \A s \in Services : Gates[s] = {} =>
    (s \in unserved ~> s \notin unserved \/ status[s] = "disabled" \/ halting)
=============================================================================
