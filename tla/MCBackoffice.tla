---------------------------- MODULE MCBackoffice ----------------------------
(***************************************************************************)
(* The modules of the shop floor that share nothing but the clock: the     *)
(* work (orders and jobs), the prices, the purchases and the tasks.  Each  *)
(* lives in tables of its own and no handler of one touches a table of     *)
(* another, so a behaviour is of one of them: "part" says which, and the   *)
(* others stay at their start.                                             *)
(*                                                                         *)
(* Small shops: one order with two lines, two rates, two materials, two    *)
(* tasks, over a calendar of three short months.                           *)
(***************************************************************************)
EXTENDS Jobs, Pricing, Sourcing, Companion, TLC

CONSTANT Parts  \* the parts whose behaviours are followed

ASSUME BackofficeAssumption == Parts \subseteq {"work", "pricing", "sourcing", "companion"}

VARIABLE part

backofficeVars == <<part, workVars, pricingVars, sourcingVars, companionVars>>

BackofficeInit ==
  /\ part \in Parts
  /\ WorkInit /\ PricingInit /\ SourcingInit /\ CompanionInit

(* Everything that is not part p stays as it is.                           *)
Only(p) ==
  /\ part = p
  /\ p # "work" => UNCHANGED <<orderVars, jobVars>>
  /\ p # "pricing" => UNCHANGED pricingVars
  /\ p # "sourcing" => UNCHANGED sourcingVars
  /\ p # "companion" => UNCHANGED companionVars

BackofficeNext ==
  /\ UNCHANGED part
  /\ \/ Only("work") /\ WorkNext
     \/ Only("pricing") /\ PricingNext /\ UNCHANGED now
     \/ Only("sourcing") /\ SourcingNext /\ UNCHANGED now
     \/ Only("companion") /\ CompanionNext /\ UNCHANGED now
     \/ part # "work" /\ SetClock /\ UNCHANGED <<orderVars, jobVars, pricingVars, sourcingVars, companionVars>>

BackofficeSpec == BackofficeInit /\ [][BackofficeNext]_backofficeVars

-----------------------------------------------------------------------------
(* Every row of every table is one its module's validate passes: types,    *)
(* and what its columns owe each other (rate.cpp, sourcing.cpp, task.cpp,  *)
(* job.cpp, order.cpp, validate).                                          *)
BackofficeTypeOK ==
  /\ \A o \in OrderIds : order[o] # None => order[o] \in OrderRows
  /\ \A l \in OrderLineIds : line[l] # None => line[l] \in OrderLineRows
  /\ \A j \in JobIds : job[j] # None => job[j] \in JobRows
  /\ \A r \in RateIds : rate[r] # None => rate[r] \in RateRows /\ ValidRate(rate[r])
  /\ \A o \in OverrideIds : override[o] # None => override[o] \in OverrideRows
  /\ \A p \in Purchases : purchase[p] # None => purchase[p] \in PurchaseRows
  /\ \A t \in Tasks : task[t] # None =>
       task[t] \in TaskRows /\ \E at \in 1..MaxTime : ValidTask(task[t], at)
  /\ \A k \in Keys : event[k] # None => event[k] \in EventRows

(* The ledgers of the shop floor tell what happened in it: every row is a  *)
(* valid one, materials and purchases stand on what is on file, and the    *)
(* events of a task tell what became of it, although requests run again.   *)
LedgersTell == BackofficeTypeOK /\ MemoryStands /\ HistoryTells

-----------------------------------------------------------------------------
CONSTANTS r1, r2, c1, c2, t1, t2, e1, e2, e3

(* The lines of the order, the customers and the tasks: as no behaviour is *)
(* of two parts, the same two identities serve them all.                   *)
TwoRows == {r1, r2}

TwoRequests == {c1, c2}
AllJobs == TwoRequests \X TwoRows

OneAnswer ==
  {[found |-> TRUE, product |-> TRUE, amount |-> 1, source |-> "default",
    overridden |-> FALSE, reason |-> ""]}

TwoStages == {<<"queued", "waiting">>, <<"produced", "delivered">>}

ShortMonths == <<2, 1, 1>>

TwoTickets == {t1, t2}
ThreeKeys == {e1, e2, e3}

Interchangeable ==
  UNION {Permutations(ids) : ids \in {TwoRows, TwoRequests, ThreeKeys, TwoTickets}}
=============================================================================
