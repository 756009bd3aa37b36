----------------------------- MODULE WriterGate -----------------------------
(***************************************************************************)
(* The writer gate of the storage engine (engine/storage/writer.cpp): a    *)
(* ticket queue in front of a reader-writer lock in front of the store.    *)
(*                                                                         *)
(* A step is a section of code under queue_mutex_, one acquisition of the  *)
(* data lock, half of a transaction's work, or one notify_all, which both  *)
(* finish_turn and a writer giving up call after they unlock.  A thread    *)
(* in the condition variable may also wake for no reason.                  *)
(*                                                                         *)
(* The store is reduced to two cells that every transaction sets to the    *)
(* same new value, one after the other: a reader that finds them different *)
(* has seen part of a transaction.  The statistics are left out.           *)
(***************************************************************************)
EXTENDS Naturals

CONSTANTS
  Threads,     \* threads that write, each one write after another
  Readers,     \* threads that read
  None,        \* not a thread
  MaxTickets   \* bound: how many tickets are ever taken

ASSUME GateAssumption ==
  /\ None \notin Threads
  /\ MaxTickets \in Nat

VARIABLES
  next_ticket,
  serving,
  abandoned,   \* tickets given up that the queue has not reached
  pc,          \* where each writing thread is
  ticket,      \* the ticket each thread took last
  impatient,   \* threads inside write_within rather than write
  cells,       \* the store
  saved,       \* what a rollback restores
  rpc,         \* where each reading thread is
  seen         \* the two cells as each reader last saw them

counters == <<next_ticket, serving, abandoned>>
data == <<cells, saved>>
reads == <<rpc, seen>>
vars == <<next_ticket, serving, abandoned, pc, ticket, impatient, cells, saved, rpc, seen>>

Waits == {"asleep", "woken"}                            \* in turn_changed_.wait
Turns == {"turn", "working", "halfway", "worked"}      \* owner of a TurnGuard

Halves == {"first", "second"}

Init ==
  /\ next_ticket = 0
  /\ serving = 0
  /\ abandoned = {}
  /\ pc = [t \in Threads |-> "idle"]
  /\ ticket = [t \in Threads |-> 0]
  /\ impatient = {}
  /\ cells = [h \in Halves |-> 0]
  /\ saved = [h \in Halves |-> 0]
  /\ rpc = [r \in Readers |-> "idle"]
  /\ seen = [r \in Readers |-> [h \in Halves |-> 0]]

Goto(t, where) == pc' = [pc EXCEPT ![t] = where]

-----------------------------------------------------------------------------
(* The queue.  Mutants of a definition stand before it and are named for   *)
(* their fault.                                                            *)

(* skip_abandoned, from the ticket `from` on: erase tickets that were given *)
(* up until one is found that was not.                                     *)
SkipAbandoned(from, given) ==
  \E to \in from..MaxTickets :
    /\ from..(to - 1) \subseteq given
    /\ to \notin given
    /\ serving' = to
    /\ abandoned' = given \ (from..(to - 1))

(* The head of write and of write_within: take a ticket and wait, unless   *)
(* the predicate holds at once.                                            *)
TakeTicket(t, within) ==
  /\ pc[t] = "idle"
  /\ next_ticket < MaxTickets
  /\ ticket' = [ticket EXCEPT ![t] = next_ticket]
  /\ next_ticket' = next_ticket + 1
  /\ Goto(t, IF serving = next_ticket THEN "turn" ELSE "asleep")
  /\ impatient' = IF within THEN impatient \cup {t} ELSE impatient \ {t}
  /\ UNCHANGED <<serving, abandoned, data, reads>>

(* A spurious wakeup.                                                      *)
Stir(t) ==
  /\ pc[t] = "asleep"
  /\ Goto(t, "woken")
  /\ UNCHANGED <<counters, ticket, impatient, data, reads>>

RecheckTooSoon(t) ==
  /\ pc[t] = "woken"
  /\ Goto(t, IF serving <= ticket[t] THEN "turn" ELSE "asleep")
  /\ UNCHANGED <<counters, ticket, impatient, data, reads>>

(* A woken thread has the mutex again and evaluates the predicate.         *)
Recheck(t) ==
  /\ pc[t] = "woken"
  /\ Goto(t, IF serving = ticket[t] THEN "turn" ELSE "asleep")
  /\ UNCHANGED <<counters, ticket, impatient, data, reads>>

(* wait_for runs out of patience and the predicate is still false.         *)
GiveUp(t) ==
  /\ t \in impatient
  /\ pc[t] \in Waits
  /\ serving # ticket[t]
  /\ SkipAbandoned(serving, abandoned \cup {ticket[t]})
  /\ Goto(t, "notify")
  /\ UNCHANGED <<next_ticket, ticket, impatient, data, reads>>

FinishTurn(t) ==
  /\ pc[t] = "worked"
  /\ SkipAbandoned(serving + 1, abandoned)
  /\ Goto(t, "notify")
  /\ UNCHANGED <<next_ticket, ticket, impatient, data, reads>>

NotifyOne(t) ==
  /\ pc[t] = "notify"
  /\ LET sleepers == {u \in Threads : pc[u] = "asleep"}
     IN  IF sleepers = {} THEN Goto(t, "idle")
         ELSE \E u \in sleepers : pc' = [pc EXCEPT ![t] = "idle", ![u] = "woken"]
  /\ UNCHANGED <<counters, ticket, impatient, data, reads>>

NotifyAll(t) ==
  /\ pc[t] = "notify"
  /\ pc' = [u \in Threads |-> IF u = t THEN "idle"
                              ELSE IF pc[u] = "asleep" THEN "woken" ELSE pc[u]]
  /\ UNCHANGED <<counters, ticket, impatient, data, reads>>

-----------------------------------------------------------------------------
(* The turn: the data lock, the transaction, and its end.                  *)

Reading == {r \in Readers : rpc[r] = "reading"}
Applying == {t \in Threads : pc[t] \in {"working", "halfway"}}

LockData(t) ==
  /\ pc[t] = "turn"
  /\ Reading = {} /\ Applying = {}
  /\ Goto(t, "working")
  /\ saved' = cells
  /\ UNCHANGED <<counters, ticket, impatient, cells, reads>>

Work(t) ==
  /\ pc[t] = "working"
  /\ cells' = [cells EXCEPT !["first"] = ticket[t] + 1]
  /\ Goto(t, "halfway")
  /\ UNCHANGED <<counters, ticket, impatient, saved, reads>>

Commit(t) ==
  /\ pc[t] = "halfway"
  /\ cells' = [cells EXCEPT !["second"] = ticket[t] + 1]
  /\ Goto(t, "worked")
  /\ UNCHANGED <<counters, ticket, impatient, saved, reads>>

(* begin, the work or the commit throws: the transaction is rolled back.   *)
Throw(t) ==
  /\ pc[t] \in {"working", "halfway"}
  /\ cells' = saved
  /\ Goto(t, "worked")
  /\ UNCHANGED <<counters, ticket, impatient, saved, reads>>

-----------------------------------------------------------------------------
(* Readers: a shared lock, held across two reads of the store.             *)

WantToRead(r) ==
  /\ rpc[r] = "idle"
  /\ rpc' = [rpc EXCEPT ![r] = "wants"]
  /\ UNCHANGED <<counters, pc, ticket, impatient, data, seen>>

BeginReadUnlocked(r) ==
  /\ rpc[r] = "wants"
  /\ rpc' = [rpc EXCEPT ![r] = "reading"]
  /\ seen' = [seen EXCEPT ![r]["first"] = cells["first"]]
  /\ UNCHANGED <<counters, pc, ticket, impatient, data>>

BeginRead(r) ==
  /\ rpc[r] = "wants"
  /\ Applying = {}
  /\ rpc' = [rpc EXCEPT ![r] = "reading"]
  /\ seen' = [seen EXCEPT ![r]["first"] = cells["first"]]
  /\ UNCHANGED <<counters, pc, ticket, impatient, data>>

EndRead(r) ==
  /\ rpc[r] = "reading"
  /\ rpc' = [rpc EXCEPT ![r] = "idle"]
  /\ seen' = [seen EXCEPT ![r]["second"] = cells["second"]]
  /\ UNCHANGED <<counters, pc, ticket, impatient, data>>

-----------------------------------------------------------------------------
Next ==
  \/ \E t \in Threads :
       \/ \E within \in BOOLEAN : TakeTicket(t, within)
       \/ Stir(t) \/ Recheck(t) \/ GiveUp(t) \/ FinishTurn(t) \/ NotifyAll(t)
       \/ LockData(t) \/ Work(t) \/ Commit(t) \/ Throw(t)
  \/ \E r \in Readers : WantToRead(r) \/ BeginRead(r) \/ EndRead(r)

Spec == Init /\ [][Next]_vars

-----------------------------------------------------------------------------
(* Fairness.  A runnable thread is scheduled, the work of a transaction    *)
(* ends, and a reader finishes.  The shared mutex admits a writer that     *)
(* finds it free again and again.  No thread has to ask for anything,      *)
(* nobody has to lose patience, and no wakeup comes without a notify.      *)

Running(t) ==
  Recheck(t) \/ NotifyAll(t) \/ FinishTurn(t)

Transacting(t) == Work(t) \/ Commit(t) \/ Throw(t)

SchedulerFairness ==
  /\ \A t \in Threads : WF_vars(Running(t)) /\ SF_vars(LockData(t))
  /\ \A r \in Readers : SF_vars(BeginRead(r)) /\ WF_vars(EndRead(r))

WorkEnds == \A t \in Threads : WF_vars(Transacting(t))

FairSpec == Spec /\ SchedulerFairness /\ WorkEnds

-----------------------------------------------------------------------------
(* Properties.                                                             *)

Active == {t \in Threads : pc[t] \in Waits \cup Turns}
InTurn == {t \in Threads : pc[t] \in Turns}

(* Tickets and locations stay in range.                                    *)
TypeOK ==
  /\ next_ticket \in 0..MaxTickets
  /\ serving \in 0..next_ticket
  /\ abandoned \subseteq 0..MaxTickets
  /\ pc \in [Threads -> {"idle", "notify"} \cup Waits \cup Turns]
  /\ ticket \in [Threads -> Nat]
  /\ impatient \subseteq Threads
  /\ cells \in [Halves -> Nat]
  /\ saved \in [Halves -> Nat]
  /\ rpc \in [Readers -> {"idle", "wants", "reading"}]
  /\ seen \in [Readers -> [Halves -> Nat]]

(* Two writers never have the turn together.                               *)
OneTurn == \A t, u \in InTurn : t = u

(* The queue cannot stop at a ticket nobody will redeem: every ticket from *)
(* the one served on is held by a thread in the line or has been given up, *)
(* and the one served has not been given up.                               *)
NoTicketStranded ==
  /\ \A n \in serving..(next_ticket - 1) :
       n \in abandoned \/ \E t \in Active : ticket[t] = n
  /\ serving \notin abandoned

(* No lost wakeup: a thread asleep while its ticket is served is about to  *)
(* be notified, although finish_turn notifies after it unlocks.            *)
NoLostWakeup ==
  \A t \in Threads :
    pc[t] = "asleep" /\ ticket[t] = serving => \E u \in Threads : pc[u] = "notify"

(* A reader sees whole transactions, and the committed or restored state   *)
(* of the store is whole whenever no turn is applying.                     *)
ReadersSeeWholeTransactions ==
  /\ Applying = {} => cells["first"] = cells["second"]
  /\ \A r \in Readers : rpc[r] # "reading" => seen[r]["first"] = seen[r]["second"]

Line == INSTANCE FifoLock WITH
  arrivals <- next_ticket,
  place <- [t \in Threads |-> IF t \in Active THEN ticket[t] + 1 ELSE 0],
  holder <- IF InTurn = {} THEN None ELSE CHOOSE t \in InTurn : TRUE

(* Writers are served one at a time in the order they arrived, also past   *)
(* the tickets of those who gave up: the gate implements FifoLock          *)
(* (writer.cpp, write_within and finish_turn).                             *)
FirstComeFirstServed == Line!Spec

(* A write that does not give up gets its turn and ends, whatever the      *)
(* writers before it do: finish, throw, or abandon their tickets.          *)
EveryWriteEnds ==
  \A t \in Threads : (t \in Active /\ t \notin impatient) ~> pc[t] = "idle"
=============================================================================
