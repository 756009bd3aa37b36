---------------------------- MODULE StoreProofs ----------------------------
(***************************************************************************)
(* Theorems about the storage engine.  The writer gate, for any number of  *)
(* writing and reading threads and any number of tickets: QueueInv is the  *)
(* inductive invariant of the ticket queue; StoreInv, built on it, that of *)
(* the store behind the data lock.  The SQL store, for any tables, keys,   *)
(* columns and inputs: it implements what a store promises.  The           *)
(* migrations, for any builds that open a file in any order.  The lists    *)
(* that show its rows page by page, for any table, any size and number of  *)
(* pages and answers that come however late: ListInv is the inductive      *)
(* invariant.                                                              *)
(***************************************************************************)
EXTENDS WriterGate, SqliteStore, Migrations, ListPages, Sums

(* The threads in the line hold different tickets, none below the one      *)
(* served and none given up.                                               *)
TicketsInLine ==
  /\ \A t \in Active : /\ serving <= ticket[t]
                       /\ ticket[t] < next_ticket
                       /\ ticket[t] \notin abandoned
  /\ \A t, u \in Active : ticket[t] = ticket[u] => t = u

TurnIsServed == \A t \in InTurn : ticket[t] = serving

(* Tickets given up wait for the queue ahead of the one served.            *)
AbandonedAhead == abandoned \subseteq (serving + 1)..(next_ticket - 1)

QueueInv ==
  /\ TypeOK
  /\ TicketsInLine
  /\ TurnIsServed
  /\ AbandonedAhead
  /\ NoTicketStranded

-----------------------------------------------------------------------------
(* Type correctness and the shape of the line                              *)

LEMMA QueueInit == Init => QueueInv
<1> SUFFICES ASSUME Init PROVE QueueInv
  OBVIOUS
<1>1. TypeOK
  BY GateAssumption DEF Init, TypeOK, Halves
<1>2. Active = {} /\ InTurn = {}
  BY DEF Init, Active, InTurn, Waits, Turns
<1> QED
  BY <1>1, <1>2 DEF QueueInv, TicketsInLine, TurnIsServed, AbandonedAhead,
     NoTicketStranded, Init

(* A step that moves threads about without touching queue or tickets, and  *)
(* puts a thread into a turn only when its ticket is served.               *)
LEMMA MovesKeepQueue ==
  ASSUME QueueInv, TypeOK', UNCHANGED <<counters, ticket>>, Active' = Active,
         \A t \in InTurn' : ticket[t] = serving
  PROVE  QueueInv'
BY DEF QueueInv, TicketsInLine, TurnIsServed, AbandonedAhead, NoTicketStranded, counters

(* Goto leaves the other threads where they are.                           *)
LEMMA GotoMoves ==
  ASSUME TypeOK, NEW t \in Threads,
         NEW where \in {"idle", "notify"} \cup Waits \cup Turns, Goto(t, where)
  PROVE  /\ pc' \in [Threads -> {"idle", "notify"} \cup Waits \cup Turns]
         /\ pc'[t] = where
         /\ \A u \in Threads : u # t => pc'[u] = pc[u]
BY DEF TypeOK, Goto

(* Where skip_abandoned stops.                                             *)
LEMMA SkipStops ==
  ASSUME QueueInv, NEW from \in {serving, serving + 1}, from <= next_ticket,
         NEW given \in SUBSET (0..(next_ticket - 1)), SkipAbandoned(from, given)
  PROVE  /\ serving' \in from..next_ticket
         /\ serving' \notin given
         /\ \A n \in from..(serving' - 1) : n \in given
         /\ abandoned' = given \ (from..(serving' - 1))
<1>1. /\ next_ticket \in Nat /\ serving \in Nat /\ from \in Nat /\ MaxTickets \in Nat
      /\ next_ticket <= MaxTickets
  BY GateAssumption DEF QueueInv, TypeOK
<1>2. PICK to \in from..MaxTickets :
        /\ from..(to - 1) \subseteq given
        /\ to \notin given
        /\ serving' = to
        /\ abandoned' = given \ (from..(to - 1))
  BY DEF SkipAbandoned
<1>3. to <= next_ticket
  <2>1. CASE to = from
    BY <2>1
  <2>2. CASE to > from
    <3>1. to - 1 \in from..(to - 1)
      BY <1>1, <1>2, <2>2
    <3> QED
      BY <1>1, <1>2, <3>1
  <2> QED
    BY <1>1, <1>2, <2>1, <2>2
<1> QED
  BY <1>1, <1>2, <1>3

LEMMA TypeStep == QueueInv /\ [Next]_vars => TypeOK'
<1> SUFFICES ASSUME QueueInv, [Next]_vars PROVE TypeOK'
  OBVIOUS
<1> USE GateAssumption
<1>0. TypeOK
  BY DEF QueueInv
<1>1. CASE UNCHANGED vars
  BY <1>0, <1>1 DEF vars, TypeOK
<1>2. ASSUME NEW t \in Threads, NEW within \in BOOLEAN, TakeTicket(t, within)
      PROVE  TypeOK'
  <2>1. next_ticket \in Nat /\ serving \in Nat
    BY <1>0 DEF TypeOK
  <2>2. pc' \in [Threads -> {"idle", "notify"} \cup Waits \cup Turns]
    BY <1>0, <1>2 DEF TakeTicket, Goto, TypeOK, Waits, Turns
  <2>3. ticket' \in [Threads -> Nat]
    BY <1>0, <1>2, <2>1 DEF TakeTicket, TypeOK
  <2>4. next_ticket' \in 0..MaxTickets /\ serving' \in 0..next_ticket'
    BY <1>0, <1>2, <2>1 DEF TakeTicket, TypeOK
  <2>5. impatient' \subseteq Threads
    BY <1>0, <1>2 DEF TakeTicket, TypeOK
  <2> QED
    BY <1>0, <1>2, <2>2, <2>3, <2>4, <2>5 DEF TakeTicket, TypeOK, data, reads
<1>3. ASSUME NEW t \in Threads, Stir(t) \/ Recheck(t)
      PROVE  TypeOK'
  <2>1. pc' \in [Threads -> {"idle", "notify"} \cup Waits \cup Turns]
    BY <1>0, <1>3 DEF Stir, Recheck, Goto, TypeOK, Waits, Turns
  <2> QED
    BY <1>0, <1>3, <2>1 DEF Stir, Recheck, TypeOK, counters, data, reads
<1>4. ASSUME NEW t \in Threads, GiveUp(t)
      PROVE  TypeOK'
  <2>1. t \in Active
    BY <1>4 DEF GiveUp, Active
  <2>2. /\ next_ticket \in Nat /\ serving \in Nat /\ serving <= next_ticket
        /\ ticket[t] \in 0..(next_ticket - 1)
    BY <1>0, <2>1 DEF TypeOK, QueueInv, TicketsInLine
  <2>3. abandoned \cup {ticket[t]} \in SUBSET (0..(next_ticket - 1))
    <3>1. (serving + 1)..(next_ticket - 1) \subseteq 0..(next_ticket - 1)
      BY <2>2
    <3> QED
      BY <2>2, <3>1 DEF QueueInv, AbandonedAhead
  <2>4. serving' \in serving..next_ticket /\ abandoned' \subseteq abandoned \cup {ticket[t]}
    BY <1>4, <2>2, <2>3, SkipStops DEF GiveUp
  <2>5. pc' \in [Threads -> {"idle", "notify"} \cup Waits \cup Turns]
    BY <1>0, <1>4 DEF GiveUp, Goto, TypeOK
  <2>6. next_ticket' = next_ticket /\ next_ticket <= MaxTickets
    BY <1>0, <1>4 DEF GiveUp, TypeOK
  <2>7. abandoned' \subseteq 0..MaxTickets /\ serving' \in 0..next_ticket'
    BY <2>2, <2>3, <2>4, <2>6
  <2> QED
    BY <1>0, <1>4, <2>5, <2>7 DEF GiveUp, TypeOK, data, reads
<1>5. ASSUME NEW t \in Threads, FinishTurn(t)
      PROVE  TypeOK'
  <2>1. t \in Active /\ t \in InTurn
    BY <1>5 DEF FinishTurn, Active, InTurn, Turns
  <2>2. /\ next_ticket \in Nat /\ serving \in Nat /\ serving + 1 <= next_ticket
    BY <1>0, <2>1 DEF TypeOK, QueueInv, TicketsInLine, TurnIsServed
  <2>3. abandoned \in SUBSET (0..(next_ticket - 1))
    BY <2>2 DEF QueueInv, AbandonedAhead
  <2>4. serving' \in (serving + 1)..next_ticket /\ abandoned' \subseteq abandoned
    BY <1>5, <2>2, <2>3, SkipStops DEF FinishTurn
  <2>5. pc' \in [Threads -> {"idle", "notify"} \cup Waits \cup Turns]
    BY <1>0, <1>5 DEF FinishTurn, Goto, TypeOK
  <2>6. next_ticket' = next_ticket /\ next_ticket <= MaxTickets
    BY <1>0, <1>5 DEF FinishTurn, TypeOK
  <2>7. abandoned' \subseteq 0..MaxTickets /\ serving' \in 0..next_ticket'
    BY <1>0, <2>2, <2>4, <2>6 DEF TypeOK
  <2> QED
    BY <1>0, <1>5, <2>5, <2>7 DEF FinishTurn, TypeOK, data, reads
<1>6. ASSUME NEW t \in Threads, NotifyAll(t)
      PROVE  TypeOK'
  <2>1. pc' \in [Threads -> {"idle", "notify"} \cup Waits \cup Turns]
    BY <1>0, <1>6 DEF NotifyAll, TypeOK, Waits, Turns
  <2> QED
    BY <1>0, <1>6, <2>1 DEF NotifyAll, TypeOK, counters, data, reads
<1>7. ASSUME NEW t \in Threads, LockData(t) \/ Work(t) \/ Commit(t) \/ Throw(t)
      PROVE  TypeOK'
  <2>1. pc' \in [Threads -> {"idle", "notify"} \cup Waits \cup Turns]
    BY <1>0, <1>7 DEF LockData, Work, Commit, Throw, Goto, TypeOK, Turns
  <2>2. ticket[t] + 1 \in Nat
    BY <1>0 DEF TypeOK
  <2>3. cells' \in [Halves -> Nat] /\ saved' \in [Halves -> Nat]
    BY <1>0, <1>7, <2>2 DEF LockData, Work, Commit, Throw, TypeOK
  <2> QED
    BY <1>0, <1>7, <2>1, <2>3
    DEF LockData, Work, Commit, Throw, TypeOK, counters, reads
<1>8. ASSUME NEW r \in Readers, WantToRead(r) \/ BeginRead(r) \/ EndRead(r)
      PROVE  TypeOK'
  <2>1. rpc' \in [Readers -> {"idle", "wants", "reading"}]
    BY <1>0, <1>8 DEF WantToRead, BeginRead, EndRead, TypeOK
  <2>2. seen' \in [Readers -> [Halves -> Nat]]
    <3>1. cells["first"] \in Nat /\ cells["second"] \in Nat
      BY <1>0 DEF TypeOK, Halves
    <3> QED
      BY <1>0, <1>8, <3>1 DEF WantToRead, BeginRead, EndRead, TypeOK
  <2> QED
    BY <1>0, <1>8, <2>1, <2>2 DEF WantToRead, BeginRead, EndRead, TypeOK, counters, data
<1> QED
  BY <1>1, <1>2, <1>3, <1>4, <1>5, <1>6, <1>7, <1>8 DEF Next

-----------------------------------------------------------------------------
(* The queue invariant is inductive.                                       *)

(* Arithmetic of the tickets that were skipped.                            *)
LEMMA Below ==
  ASSUME NEW a \in Nat, NEW b \in Nat, NEW n \in Nat
  PROVE  n \in a..(b - 1) <=> a <= n /\ n < b
OBVIOUS

LEMMA Beyond ==
  ASSUME NEW a \in Nat, NEW b \in Nat, NEW n \in Nat, ~(n < a), n # a, n < b
  PROVE  n \in (a + 1)..(b - 1)
OBVIOUS

(* The thread that leaves the line leaves nothing behind: its ticket is    *)
(* either passed or given up.                                              *)
LEMMA LeavingKeepsQueue ==
  ASSUME QueueInv, TypeOK', NEW t \in Active, Goto(t, "notify"),
         NEW from \in {serving, serving + 1}, from <= next_ticket,
         NEW given \in SUBSET (0..(next_ticket - 1)), SkipAbandoned(from, given),
         UNCHANGED <<next_ticket, ticket>>,
         \/ /\ from = serving + 1 /\ given = abandoned /\ ticket[t] = serving
         \/ /\ from = serving /\ given = abandoned \cup {ticket[t]}
            /\ ticket[t] # serving
  PROVE  QueueInv'
<1>0. TypeOK /\ TicketsInLine /\ TurnIsServed /\ AbandonedAhead /\ NoTicketStranded
  BY DEF QueueInv
<1>1. /\ next_ticket \in Nat /\ serving \in Nat
      /\ \A u \in Threads : ticket[u] \in Nat
      /\ Active \subseteq Threads
  BY <1>0 DEF TypeOK, Active
<1>2. /\ serving' \in from..next_ticket
      /\ serving' \notin given
      /\ \A n \in from..(serving' - 1) : n \in given
      /\ abandoned' = given \ (from..(serving' - 1))
  BY SkipStops
<1>b. from \in Nat /\ serving' \in Nat /\ from <= serving' /\ serving' <= next_ticket
  <2>1. serving' \in from..next_ticket
    BY <1>2
  <2>2. from \in Nat
    BY <1>1
  <2> QED
    BY <1>1, <2>1, <2>2
<1>c. next_ticket' = next_ticket /\ ticket' = ticket
  OBVIOUS
<1>3. /\ pc'[t] = "notify"
      /\ \A u \in Threads : u # t => pc'[u] = pc[u]
  BY <1>0, <1>1, GotoMoves
<1>4. Active' = Active \ {t} /\ InTurn' = InTurn \ {t}
  BY <1>1, <1>3 DEF Active, InTurn, Waits, Turns
<1>5. \A u \in Active' : /\ serving <= ticket[u] /\ ticket[u] < next_ticket
                         /\ ticket[u] \notin given
                         /\ ticket[u] # serving \/ from = serving
  BY <1>0, <1>1, <1>4 DEF TicketsInLine
<1>6. \A u \in Active' : serving' <= ticket[u]
  <2> SUFFICES ASSUME NEW u \in Active', ~(serving' <= ticket[u])
               PROVE  FALSE
    OBVIOUS
  <2>1. ticket[u] \in Nat /\ serving' \in Nat
    BY <1>1, <1>2, <1>4
  <2>2. from <= ticket[u]
    BY <1>1, <1>5, <2>1
  <2>3. ticket[u] \in from..(serving' - 1)
    BY <1>1, <2>1, <2>2
  <2> QED
    BY <1>2, <1>5, <2>3
<1>7. TicketsInLine'
  BY <1>0, <1>1, <1>2, <1>4, <1>5, <1>6 DEF TicketsInLine
<1>8. TurnIsServed'
  <2>1. CASE ticket[t] = serving
    <3>1. InTurn' = {}
      BY <1>0, <1>1, <1>4, <2>1 DEF TicketsInLine, TurnIsServed, InTurn, Active
    <3> QED
      BY <3>1 DEF TurnIsServed
  <2>2. CASE from = serving /\ ticket[t] # serving /\ given = abandoned \cup {ticket[t]}
    <3>1. serving \notin given
      BY <1>0, <2>2 DEF NoTicketStranded
    <3>2. serving' = serving
      <4>1. CASE serving' # serving
        <5>1. serving \in from..(serving' - 1)
          <6>1. from <= serving /\ serving < serving'
            BY <1>1, <1>b, <2>2, <4>1
          <6> QED
            BY <1>1, <1>b, <6>1, Below
        <5> QED
          BY <1>2, <3>1, <5>1
      <4> QED
        BY <4>1
    <3> QED
      BY <1>0, <1>4, <1>c, <3>2 DEF TurnIsServed
  <2> QED
    BY <2>1, <2>2
<1>9. \A n \in given : n > serving /\ n < next_ticket
  BY <1>0, <1>1 DEF AbandonedAhead, TicketsInLine
<1>10. AbandonedAhead'
  <2> SUFFICES ASSUME NEW n \in abandoned'
               PROVE  n \in (serving' + 1)..(next_ticket' - 1)
    BY DEF AbandonedAhead
  <2>1. n \in given /\ n \notin from..(serving' - 1)
    BY <1>2
  <2>2. n \in Nat /\ n > serving /\ n < next_ticket
    BY <1>1, <1>9, <2>1
  <2>3. n >= from
    BY <1>1, <1>b, <2>2
  <2>4. n # serving'
    BY <1>2, <2>1
  <2>5. ~(n < serving')
    BY <1>b, <2>1, <2>2, <2>3, Below
  <2>6. n \in (serving' + 1)..(next_ticket - 1)
    BY <1>1, <1>b, <2>2, <2>4, <2>5, Beyond
  <2> QED
    BY <1>c, <2>6
<1>11. NoTicketStranded'
  <2>1. serving' \notin abandoned'
    BY <1>2
  <2>2. ASSUME NEW n \in serving'..(next_ticket' - 1)
        PROVE  n \in abandoned' \/ \E u \in Active' : ticket'[u] = n
    <3>1. n \in serving..(next_ticket - 1) /\ n >= serving' /\ n \in Nat
      BY <1>1, <1>2
    <3>2. CASE n \in given
      <4>1. n \notin from..(serving' - 1)
        <5>1. ~(n < serving')
          BY <1>b, <3>1
        <5> QED
          BY <1>b, <3>1, <5>1, Below
      <4> QED
        BY <1>2, <3>2, <4>1
    <3>3. CASE n \notin given
      <4>1. PICK u \in Active : ticket[u] = n
        BY <1>0, <3>1, <3>3 DEF NoTicketStranded
      <4>2. u # t
        BY <1>1, <1>2, <3>1, <3>3, <4>1
      <4> QED
        BY <1>4, <4>1, <4>2
    <3> QED
      BY <3>2, <3>3
  <2> QED
    BY <2>1, <2>2 DEF NoTicketStranded
<1> QED
  BY <1>7, <1>8, <1>10, <1>11 DEF QueueInv

LEMMA QueueStep == QueueInv /\ [Next]_vars => QueueInv'
<1> SUFFICES ASSUME QueueInv, [Next]_vars PROVE QueueInv'
  OBVIOUS
<1>0. TypeOK /\ TypeOK'
  BY TypeStep DEF QueueInv
<1>a. /\ next_ticket \in Nat /\ serving \in Nat /\ serving <= next_ticket
      /\ \A u \in Threads : ticket[u] \in Nat
  BY <1>0 DEF TypeOK
<1>1. CASE UNCHANGED vars
  <2>1. Active' = Active /\ InTurn' = InTurn
    BY <1>1 DEF vars, Active, InTurn
  <2> QED
    BY <1>0, <1>1, <2>1, MovesKeepQueue DEF vars, counters, QueueInv, TurnIsServed
<1>2. ASSUME NEW t \in Threads, NEW within \in BOOLEAN, TakeTicket(t, within)
      PROVE  QueueInv'
  <2>1. /\ next_ticket' = next_ticket + 1 /\ serving' = serving /\ abandoned' = abandoned
        /\ ticket'[t] = next_ticket
        /\ \A u \in Threads : u # t => ticket'[u] = ticket[u] /\ pc'[u] = pc[u]
        /\ pc[t] = "idle"
        /\ pc'[t] = IF serving = next_ticket THEN "turn" ELSE "asleep"
    BY <1>0, <1>2 DEF TakeTicket, Goto, TypeOK
  <2>2. Active' = Active \cup {t} /\ t \notin Active
    BY <2>1 DEF Active, Waits, Turns
  <2>3. InTurn' = IF serving = next_ticket THEN InTurn \cup {t} ELSE InTurn
    BY <2>1 DEF InTurn, Turns
  <2>4. Active \subseteq Threads /\ InTurn \subseteq Active
    BY DEF Active, InTurn
  <2>5. \A u \in Active : u # t /\ ticket'[u] = ticket[u] /\ ticket[u] < next_ticket
    BY <2>1, <2>2, <2>4 DEF QueueInv, TicketsInLine
  <2>6. next_ticket \notin abandoned
    BY <1>a DEF QueueInv, AbandonedAhead
  <2>7. TicketsInLine'
    BY <1>a, <2>1, <2>2, <2>4, <2>5, <2>6 DEF QueueInv, TicketsInLine
  <2>8. TurnIsServed'
    BY <2>1, <2>3, <2>4, <2>5 DEF QueueInv, TurnIsServed
  <2>9. AbandonedAhead'
    BY <1>a, <2>1 DEF QueueInv, AbandonedAhead
  <2>10. NoTicketStranded'
    <3>1. ASSUME NEW n \in serving'..(next_ticket' - 1)
          PROVE  n \in abandoned' \/ \E u \in Active' : ticket'[u] = n
      <4>1. CASE n = next_ticket
        BY <2>1, <2>2, <4>1
      <4>2. CASE n # next_ticket
        <5>1. n \in serving..(next_ticket - 1)
          BY <1>a, <2>1, <4>2
        <5> QED
          BY <2>1, <2>2, <2>5, <5>1 DEF QueueInv, NoTicketStranded
      <4> QED
        BY <4>1, <4>2
    <3> QED
      BY <2>1, <3>1 DEF QueueInv, NoTicketStranded
  <2> QED
    BY <1>0, <2>7, <2>8, <2>9, <2>10 DEF QueueInv
<1>3. ASSUME NEW t \in Threads, Stir(t)
      PROVE  QueueInv'
  <2>1. Active' = Active /\ InTurn' = InTurn
    BY <1>0, <1>3, GotoMoves DEF Stir, Active, InTurn, Waits, Turns
  <2> QED
    BY <1>0, <1>3, <2>1, MovesKeepQueue DEF Stir, QueueInv, TurnIsServed
<1>4. ASSUME NEW t \in Threads, Recheck(t)
      PROVE  QueueInv'
  <2>1. CASE serving = ticket[t]
    <3>1. Active' = Active /\ InTurn' = InTurn \cup {t}
      BY <1>0, <1>4, <2>1, GotoMoves DEF Recheck, Active, InTurn, Waits, Turns
    <3> QED
      BY <1>0, <1>4, <2>1, <3>1, MovesKeepQueue DEF Recheck, QueueInv, TurnIsServed
  <2>2. CASE serving # ticket[t]
    <3>1. Active' = Active /\ InTurn' = InTurn
      BY <1>0, <1>4, <2>2, GotoMoves DEF Recheck, Active, InTurn, Waits, Turns
    <3> QED
      BY <1>0, <1>4, <3>1, MovesKeepQueue DEF Recheck, QueueInv, TurnIsServed
  <2> QED
    BY <2>1, <2>2
<1>5. ASSUME NEW t \in Threads, GiveUp(t)
      PROVE  QueueInv'
  <2>1. t \in Active
    BY <1>5 DEF GiveUp, Active
  <2>2. abandoned \cup {ticket[t]} \in SUBSET (0..(next_ticket - 1))
    <3>1. ticket[t] \in 0..(next_ticket - 1)
      BY <1>a, <2>1 DEF QueueInv, TicketsInLine
    <3>2. (serving + 1)..(next_ticket - 1) \subseteq 0..(next_ticket - 1)
      BY <1>a
    <3> QED
      BY <3>1, <3>2 DEF QueueInv, AbandonedAhead
  <2> QED
    BY <1>0, <1>a, <1>5, <2>1, <2>2, LeavingKeepsQueue DEF GiveUp
<1>6. ASSUME NEW t \in Threads, FinishTurn(t)
      PROVE  QueueInv'
  <2>1. t \in Active /\ t \in InTurn
    BY <1>6 DEF FinishTurn, Active, InTurn, Turns
  <2>2. ticket[t] = serving /\ serving + 1 <= next_ticket
    BY <1>a, <2>1 DEF QueueInv, TurnIsServed, TicketsInLine
  <2>3. abandoned \in SUBSET (0..(next_ticket - 1))
    BY <1>a DEF QueueInv, AbandonedAhead
  <2> QED
    BY <1>0, <1>6, <2>1, <2>2, <2>3, LeavingKeepsQueue DEF FinishTurn
<1>7. ASSUME NEW t \in Threads, NotifyAll(t)
      PROVE  QueueInv'
  <2>1. Active' = Active /\ InTurn' = InTurn
    BY <1>0, <1>7 DEF NotifyAll, Active, InTurn, Waits, Turns
  <2> QED
    BY <1>0, <1>7, <2>1, MovesKeepQueue DEF NotifyAll, QueueInv, TurnIsServed
<1>8. ASSUME NEW t \in Threads, LockData(t) \/ Work(t) \/ Commit(t) \/ Throw(t)
      PROVE  QueueInv'
  <2>1. PICK where \in {"working", "halfway", "worked"} : Goto(t, where) /\ pc[t] \in Turns
    BY <1>8 DEF LockData, Work, Commit, Throw, Turns
  <2>2. Active' = Active /\ InTurn' = InTurn
    BY <1>0, <2>1, GotoMoves DEF Active, InTurn, Turns
  <2>3. UNCHANGED <<counters, ticket>>
    BY <1>8 DEF LockData, Work, Commit, Throw
  <2> QED
    BY <1>0, <2>2, <2>3, MovesKeepQueue DEF QueueInv, TurnIsServed
<1>9. ASSUME NEW r \in Readers, WantToRead(r) \/ BeginRead(r) \/ EndRead(r)
      PROVE  QueueInv'
  <2>1. UNCHANGED <<counters, ticket, pc>>
    BY <1>9 DEF WantToRead, BeginRead, EndRead
  <2>2. Active' = Active /\ InTurn' = InTurn
    BY <2>1 DEF Active, InTurn
  <2> QED
    BY <1>0, <2>1, <2>2, MovesKeepQueue DEF QueueInv, TurnIsServed
<1> QED
  BY <1>1, <1>2, <1>3, <1>4, <1>5, <1>6, <1>7, <1>8, <1>9 DEF Next

LEMMA QueueAlways == Spec => []QueueInv
BY QueueInit, QueueStep, PTL DEF Spec

(* Tickets and locations stay in range (TypeOK).                           *)
THEOREM TypeCorrect == Spec => []TypeOK
BY QueueAlways, PTL DEF QueueInv

(* At most one writer has the turn (OneTurn).                              *)
THEOREM MutualExclusion == Spec => []OneTurn
<1>1. QueueInv => OneTurn
  BY DEF QueueInv, TicketsInLine, TurnIsServed, OneTurn, InTurn, Active
<1> QED
  BY <1>1, QueueAlways, PTL

(* The queue never stops at a ticket nobody will redeem, however many      *)
(* writers give up (NoTicketStranded).                                     *)
THEOREM NothingStranded == Spec => []NoTicketStranded
BY QueueAlways, PTL DEF QueueInv

-----------------------------------------------------------------------------
(* No lost wakeup (NoLostWakeup): although notify_all is called after the  *)
(* mutex is released, a thread can only be asleep at its turn while the    *)
(* notification is still on its way.                                       *)
THEOREM WakeupsArrive == Spec => []NoLostWakeup
<1>1. Init => NoLostWakeup
  BY DEF Init, NoLostWakeup
<1>2. QueueInv /\ NoLostWakeup /\ [Next]_vars => NoLostWakeup'
  <2> SUFFICES ASSUME QueueInv, NoLostWakeup, [Next]_vars PROVE NoLostWakeup'
    OBVIOUS
  <2>0. TypeOK
    BY DEF QueueInv
  <2>1. CASE UNCHANGED vars
    BY <2>1 DEF vars, NoLostWakeup
  <2>2. ASSUME NEW t \in Threads, NEW within \in BOOLEAN, TakeTicket(t, within)
        PROVE  NoLostWakeup'
    BY <2>0, <2>2 DEF TakeTicket, Goto, TypeOK, NoLostWakeup
  <2>3. ASSUME NEW t \in Threads, Stir(t) \/ Recheck(t)
        PROVE  NoLostWakeup'
    BY <2>0, <2>3 DEF Stir, Recheck, Goto, TypeOK, NoLostWakeup, counters
  <2>4. ASSUME NEW t \in Threads, GiveUp(t) \/ FinishTurn(t)
        PROVE  NoLostWakeup'
    <3>1. pc'[t] = "notify"
      BY <2>0, <2>4 DEF GiveUp, FinishTurn, Goto, TypeOK
    <3> QED
      BY <3>1 DEF NoLostWakeup
  <2>5. ASSUME NEW t \in Threads, NotifyAll(t)
        PROVE  NoLostWakeup'
    <3>1. \A u \in Threads : pc'[u] # "asleep"
      BY <2>5 DEF NotifyAll
    <3> QED
      BY <3>1 DEF NoLostWakeup
  <2>6. ASSUME NEW t \in Threads, LockData(t) \/ Work(t) \/ Commit(t) \/ Throw(t)
        PROVE  NoLostWakeup'
    BY <2>0, <2>6 DEF LockData, Work, Commit, Throw, Goto, TypeOK, NoLostWakeup, counters
  <2>7. ASSUME NEW r \in Readers, WantToRead(r) \/ BeginRead(r) \/ EndRead(r)
        PROVE  NoLostWakeup'
    BY <2>7 DEF WantToRead, BeginRead, EndRead, NoLostWakeup, counters
  <2> QED
    BY <2>1, <2>2, <2>3, <2>4, <2>5, <2>6, <2>7 DEF Next
<1> QED
  BY <1>1, <1>2, QueueAlways, PTL DEF Spec

-----------------------------------------------------------------------------
(* The store behind the data lock.                                         *)
Whole(value) == value["first"] = value["second"]

StoreInv ==
  /\ Applying = {} => Whole(cells)
  /\ Applying # {} => Whole(saved) /\ Reading = {}
  /\ \A t \in Applying : pc[t] = "halfway" => cells["first"] = ticket[t] + 1
  /\ \A r \in Readers : IF rpc[r] = "reading"
                         THEN seen[r]["first"] = cells["first"]
                         ELSE Whole(seen[r])

LEMMA StoreStep == QueueInv /\ StoreInv /\ [Next]_vars => StoreInv'
<1> SUFFICES ASSUME QueueInv, StoreInv, [Next]_vars PROVE StoreInv'
  OBVIOUS
<1>0. TypeOK /\ Applying \subseteq InTurn
  BY DEF QueueInv, Applying, InTurn, Turns
<1>a. \A t, u \in Applying : t = u
  BY <1>0 DEF QueueInv, TicketsInLine, TurnIsServed, InTurn, Active
<1>1. ASSUME Applying' = Applying, UNCHANGED <<data, reads>>,
             \A t \in Applying : pc'[t] = pc[t] /\ ticket'[t] = ticket[t]
      PROVE  StoreInv'
  BY <1>1 DEF StoreInv, Whole, Reading, data, reads
<1>2. CASE UNCHANGED vars
  BY <1>1, <1>2 DEF vars, Applying, data, reads
<1>3. ASSUME NEW t \in Threads, NEW within \in BOOLEAN, TakeTicket(t, within)
      PROVE  StoreInv'
  BY <1>0, <1>1, <1>3 DEF TakeTicket, Goto, TypeOK, Applying
<1>4. ASSUME NEW t \in Threads, Stir(t) \/ Recheck(t)
      PROVE  StoreInv'
  BY <1>0, <1>1, <1>4 DEF Stir, Recheck, Goto, TypeOK, Applying
<1>5. ASSUME NEW t \in Threads, GiveUp(t) \/ FinishTurn(t)
      PROVE  StoreInv'
  BY <1>0, <1>1, <1>5 DEF GiveUp, FinishTurn, Goto, TypeOK, Applying, Waits
<1>6. ASSUME NEW t \in Threads, NotifyAll(t)
      PROVE  StoreInv'
  BY <1>0, <1>1, <1>6 DEF NotifyAll, TypeOK, Applying
<1>7. ASSUME NEW t \in Threads, LockData(t)
      PROVE  StoreInv'
  <2>1. pc'[t] = "working" /\ \A u \in Threads : u # t => pc'[u] = pc[u]
    BY <1>0, <1>7 DEF LockData, Goto, TypeOK
  <2>2. Applying' = {t}
    BY <1>7, <2>1 DEF LockData, Applying
  <2>3. Reading' = {} /\ UNCHANGED <<cells, rpc, seen>> /\ saved' = cells
    BY <1>7 DEF LockData, Reading, reads
  <2>4. Whole(saved)'
    BY <1>7, <2>3 DEF LockData, StoreInv, Whole
  <2> QED
    BY <2>1, <2>2, <2>3, <2>4 DEF StoreInv, Whole
<1>8. ASSUME NEW t \in Threads, Work(t)
      PROVE  StoreInv'
  <2>1. pc'[t] = "halfway" /\ \A u \in Threads : u # t => pc'[u] = pc[u]
    BY <1>0, <1>8 DEF Work, Goto, TypeOK
  <2>2. t \in Applying /\ Applying' = Applying
    BY <1>8, <2>1 DEF Work, Applying
  <2>3. cells'["first"] = ticket[t] + 1 /\ UNCHANGED <<saved, rpc, seen, ticket>>
    BY <1>0, <1>8 DEF Work, TypeOK, Halves, reads
  <2>4. Reading = {} /\ Reading' = {}
    BY <2>2, <2>3 DEF StoreInv, Reading
  <2> QED
    BY <1>a, <2>2, <2>3, <2>4 DEF StoreInv, Whole, Reading
<1>9. ASSUME NEW t \in Threads, Commit(t) \/ Throw(t)
      PROVE  StoreInv'
  <2>1. pc'[t] = "worked" /\ \A u \in Threads : u # t => pc'[u] = pc[u]
    BY <1>0, <1>9 DEF Commit, Throw, Goto, TypeOK
  <2>2. t \in Applying /\ Applying' = {}
    BY <1>9, <1>a, <2>1 DEF Commit, Throw, Applying
  <2>3. UNCHANGED <<rpc, seen>> /\ Reading = {}
    BY <1>9, <2>2 DEF Commit, Throw, reads, StoreInv
  <2>4. Whole(cells)'
    <3>1. CASE Commit(t)
      BY <1>0, <2>2, <3>1 DEF Commit, TypeOK, Halves, StoreInv, Whole
    <3>2. CASE Throw(t)
      BY <2>2, <3>2 DEF Throw, StoreInv, Whole
    <3> QED
      BY <1>9, <3>1, <3>2
  <2> QED
    BY <2>2, <2>3, <2>4 DEF StoreInv, Whole, Reading
<1>10. ASSUME NEW r \in Readers, WantToRead(r) \/ BeginRead(r) \/ EndRead(r)
       PROVE  StoreInv'
  <2>1. UNCHANGED <<pc, ticket, cells, saved>> /\ Applying' = Applying
    BY <1>10 DEF WantToRead, BeginRead, EndRead, data, Applying
  <2>2. \A q \in Readers : q # r => rpc'[q] = rpc[q] /\ seen'[q] = seen[q]
    BY <1>0, <1>10 DEF WantToRead, BeginRead, EndRead, TypeOK
  <2>3. CASE WantToRead(r)
    <3>1. rpc'[r] = "wants" /\ seen'[r] = seen[r] /\ rpc[r] = "idle"
      BY <1>0, <2>3 DEF WantToRead, TypeOK
    <3> QED
      BY <2>1, <2>2, <3>1 DEF StoreInv, Whole, Reading
  <2>4. CASE BeginRead(r)
    <3>1. /\ rpc'[r] = "reading" /\ seen'[r]["first"] = cells["first"]
          /\ Applying = {}
      BY <1>0, <2>4 DEF BeginRead, TypeOK, Halves
    <3> QED
      BY <2>1, <2>2, <3>1 DEF StoreInv, Whole
  <2>5. CASE EndRead(r)
    <3>1. /\ rpc[r] = "reading" /\ rpc'[r] = "idle"
          /\ seen'[r]["first"] = seen[r]["first"]
          /\ seen'[r]["second"] = cells["second"]
      BY <1>0, <2>5 DEF EndRead, TypeOK, Halves
    <3>2. Applying = {}
      BY <3>1 DEF StoreInv, Reading
    <3> QED
      BY <2>1, <2>2, <3>1, <3>2 DEF StoreInv, Whole
  <2> QED
    BY <1>10, <2>3, <2>4, <2>5
<1> QED
  BY <1>2, <1>3, <1>4, <1>5, <1>6, <1>7, <1>8, <1>9, <1>10 DEF Next

(* Readers see whole transactions, and a rollback leaves a whole state     *)
(* (ReadersSeeWholeTransactions).                                          *)
THEOREM ReadsAreWhole == Spec => []ReadersSeeWholeTransactions
<1>1. Init => StoreInv
  BY DEF Init, StoreInv, Whole, Applying, Halves
<1>2. StoreInv => ReadersSeeWholeTransactions
  BY DEF StoreInv, Whole, ReadersSeeWholeTransactions
<1> QED
  BY <1>1, <1>2, StoreStep, QueueAlways, PTL DEF Spec

-----------------------------------------------------------------------------
(* First come, first served.                                               *)

Holder == IF InTurn = {} THEN None ELSE CHOOSE t \in InTurn : TRUE
Place == [t \in Threads |-> IF t \in Active THEN ticket[t] + 1 ELSE 0]

LEMMA HolderInTurn ==
  ASSUME QueueInv
  PROVE  /\ \A t \in Threads : Holder = t <=> t \in InTurn
         /\ Holder = None <=> InTurn = {}
<1>1. \A t, u \in InTurn : t = u
  BY DEF QueueInv, TicketsInLine, TurnIsServed, InTurn, Active
<1>2. InTurn \subseteq Threads
  BY DEF InTurn
<1> QED
  BY <1>1, <1>2, GateAssumption DEF Holder

LEMMA WaitingInLine ==
  ASSUME QueueInv
  PROVE  Line!Waiting = Active \ InTurn
<1>1. \A t \in Threads : ticket[t] + 1 # 0
  BY DEF QueueInv, TypeOK
<1>2. Line!Waiting = {t \in Threads : Place[t] # 0 /\ Holder # t}
  BY DEF Line!Waiting, Place, Holder
<1> QED
  BY <1>1, <1>2, HolderInTurn DEF Place, Active

(* A step that leaves tickets, line and turn as they are is invisible.     *)
LEMMA Invisible ==
  ASSUME QueueInv, QueueInv', UNCHANGED <<next_ticket, ticket>>,
         Active' = Active, InTurn' = InTurn
  PROVE  UNCHANGED <<next_ticket, Place, Holder>>
BY DEF Place, Holder

LEMMA LineStep ==
  ASSUME QueueInv, QueueInv', [Next]_vars
  PROVE  Line!Next \/ UNCHANGED <<next_ticket, Place, Holder>>
<1>0. TypeOK /\ TypeOK'
  BY DEF QueueInv
<1>a. /\ next_ticket \in Nat /\ \A u \in Threads : ticket[u] \in Nat
      /\ Active \subseteq Threads /\ InTurn \subseteq Active
  BY <1>0 DEF TypeOK, Active, InTurn
<1>b. /\ \A t \in Threads : (Holder = t <=> t \in InTurn) /\ (Holder' = t <=> t \in InTurn')
      /\ (Holder = None <=> InTurn = {}) /\ (Holder' = None <=> InTurn' = {})
  <2>1. (\A t \in Threads : Holder = t <=> t \in InTurn) /\ (Holder = None <=> InTurn = {})
    BY HolderInTurn
  <2>2. \A t, u \in InTurn' : t = u
    BY DEF QueueInv, TicketsInLine, TurnIsServed, InTurn, Active
  <2>3. InTurn' \subseteq Threads
    BY DEF InTurn
  <2>4. (\A t \in Threads : Holder' = t <=> t \in InTurn') /\ (Holder' = None <=> InTurn' = {})
    BY <2>2, <2>3, GateAssumption DEF Holder
  <2> QED
    BY <2>1, <2>4
<1>c. Line!Waiting = Active \ InTurn
  BY WaitingInLine
<1> HIDE DEF Holder
<1>1. CASE UNCHANGED vars
  <2>1. Active' = Active /\ InTurn' = InTurn /\ UNCHANGED <<next_ticket, ticket>>
    BY <1>1 DEF vars, Active, InTurn
  <2> QED
    BY <2>1, Invisible
<1>2. ASSUME NEW t \in Threads, NEW within \in BOOLEAN, TakeTicket(t, within)
      PROVE  Line!Join(t) \/ Line!JoinAndHold(t)
  <2>1. /\ next_ticket' = next_ticket + 1
        /\ ticket'[t] = next_ticket
        /\ \A u \in Threads : u # t => ticket'[u] = ticket[u] /\ pc'[u] = pc[u]
        /\ pc[t] = "idle"
        /\ pc'[t] = IF serving = next_ticket THEN "turn" ELSE "asleep"
    BY <1>0, <1>2 DEF TakeTicket, Goto, TypeOK
  <2>2. Active' = Active \cup {t} /\ t \notin Active
    BY <2>1 DEF Active, Waits, Turns
  <2>3. InTurn' = IF serving = next_ticket THEN InTurn \cup {t} ELSE InTurn
    BY <2>1 DEF InTurn, Turns
  <2>4. Place[t] = 0 /\ Place' = [Place EXCEPT ![t] = next_ticket + 1]
    BY <1>a, <2>1, <2>2 DEF Place
  <2>5. CASE serving = next_ticket
    <3>1. Active = {}
      BY <1>a, <2>5 DEF QueueInv, TicketsInLine
    <3>2. InTurn = {} /\ Holder = None /\ Holder' = t /\ Line!Waiting = {}
      BY <1>a, <1>b, <1>c, <2>3, <2>5, <3>1
    <3> QED
      BY <2>1, <2>4, <3>2 DEF Line!JoinAndHold, Place, Holder
  <2>6. CASE serving # next_ticket
    <3>1. Holder' = Holder
      BY <2>3, <2>6 DEF Holder
    <3> QED
      BY <2>1, <2>4, <3>1 DEF Line!Join, Place, Holder
  <2> QED
    BY <2>5, <2>6
<1>3. ASSUME NEW t \in Threads, Stir(t)
      PROVE  UNCHANGED <<next_ticket, Place, Holder>>
  <2>1. Active' = Active /\ InTurn' = InTurn
    BY <1>0, <1>3, GotoMoves DEF Stir, Active, InTurn, Waits, Turns
  <2> QED
    BY <1>3, <2>1, Invisible DEF Stir, counters
<1>4. ASSUME NEW t \in Threads, Recheck(t)
      PROVE  Line!Grant(t) \/ UNCHANGED <<next_ticket, Place, Holder>>
  <2>0. UNCHANGED <<next_ticket, ticket>>
    BY <1>4 DEF Recheck, counters
  <2>1. CASE serving = ticket[t]
    <3>1. Active' = Active /\ InTurn' = InTurn \cup {t} /\ t \in Active \ InTurn
      BY <1>0, <1>4, <2>1, GotoMoves DEF Recheck, Active, InTurn, Waits, Turns
    <3>2. InTurn = {}
      BY <1>a, <2>1, <3>1 DEF QueueInv, TicketsInLine, TurnIsServed
    <3>3. Holder = None /\ Holder' = t /\ t \in Line!Waiting
      BY <1>a, <1>b, <1>c, <3>1, <3>2
    <3>4. \A u \in Line!Waiting : Place[t] <= Place[u]
      BY <1>a, <1>c, <2>1, <3>1 DEF QueueInv, TicketsInLine, Place
    <3>5. Place' = Place
      BY <2>0, <3>1 DEF Place
    <3> QED
      BY <2>0, <3>3, <3>4, <3>5 DEF Line!Grant, Place, Holder
  <2>2. CASE serving # ticket[t]
    <3>1. Active' = Active /\ InTurn' = InTurn
      BY <1>0, <1>4, <2>2, GotoMoves DEF Recheck, Active, InTurn, Waits, Turns
    <3> QED
      BY <2>0, <3>1, Invisible
  <2> QED
    BY <2>1, <2>2
<1>5. ASSUME NEW t \in Threads, GiveUp(t)
      PROVE  Line!Leave(t)
  <2>1. pc[t] \in Waits /\ pc'[t] = "notify" /\ \A u \in Threads : u # t => pc'[u] = pc[u]
    BY <1>0, <1>5, GotoMoves DEF GiveUp
  <2>2. Active' = Active \ {t} /\ InTurn' = InTurn /\ t \in Active \ InTurn
    BY <2>1 DEF Active, InTurn, Waits, Turns
  <2>3. UNCHANGED <<next_ticket, ticket>>
    BY <1>5 DEF GiveUp
  <2>4. Place' = [Place EXCEPT ![t] = 0]
    BY <2>2, <2>3 DEF Place
  <2>5. Holder' = Holder
    BY <2>2 DEF Holder
  <2> QED
    BY <1>c, <2>2, <2>3, <2>4, <2>5 DEF Line!Leave, Place, Holder
<1>6. ASSUME NEW t \in Threads, FinishTurn(t)
      PROVE  Line!Release(t)
  <2>1. pc[t] = "worked" /\ pc'[t] = "notify" /\ \A u \in Threads : u # t => pc'[u] = pc[u]
    BY <1>0, <1>6, GotoMoves DEF FinishTurn
  <2>2. Active' = Active \ {t} /\ InTurn' = InTurn \ {t} /\ t \in InTurn
    BY <2>1 DEF Active, InTurn, Waits, Turns
  <2>3. InTurn' = {}
    BY <1>a, <2>2 DEF QueueInv, TicketsInLine, TurnIsServed
  <2>4. UNCHANGED <<next_ticket, ticket>>
    BY <1>6 DEF FinishTurn
  <2>5. Place' = [Place EXCEPT ![t] = 0]
    BY <2>2, <2>4 DEF Place
  <2>6. Holder = t /\ Holder' = None
    BY <1>b, <2>2, <2>3
  <2> QED
    BY <2>4, <2>5, <2>6 DEF Line!Release, Place, Holder
<1>7. ASSUME NEW t \in Threads, NotifyAll(t)
      PROVE  UNCHANGED <<next_ticket, Place, Holder>>
  <2>1. Active' = Active /\ InTurn' = InTurn
    BY <1>0, <1>7 DEF NotifyAll, Active, InTurn, Waits, Turns
  <2> QED
    BY <1>7, <2>1, Invisible DEF NotifyAll, counters
<1>8. ASSUME NEW t \in Threads, LockData(t) \/ Work(t) \/ Commit(t) \/ Throw(t)
      PROVE  UNCHANGED <<next_ticket, Place, Holder>>
  <2>1. PICK where \in {"working", "halfway", "worked"} : Goto(t, where) /\ pc[t] \in Turns
    BY <1>8 DEF LockData, Work, Commit, Throw, Turns
  <2>2. Active' = Active /\ InTurn' = InTurn
    BY <1>0, <2>1, GotoMoves DEF Active, InTurn, Turns
  <2>3. UNCHANGED <<next_ticket, ticket>>
    BY <1>8 DEF LockData, Work, Commit, Throw, counters
  <2> QED
    BY <2>2, <2>3, Invisible
<1>9. ASSUME NEW r \in Readers, WantToRead(r) \/ BeginRead(r) \/ EndRead(r)
      PROVE  UNCHANGED <<next_ticket, Place, Holder>>
  <2>1. UNCHANGED <<next_ticket, ticket, pc>>
    BY <1>9 DEF WantToRead, BeginRead, EndRead, counters
  <2>2. Active' = Active /\ InTurn' = InTurn
    BY <2>1 DEF Active, InTurn
  <2> QED
    BY <2>1, <2>2, Invisible
<1> QED
  BY <1>1, <1>2, <1>3, <1>4, <1>5, <1>6, <1>7, <1>8, <1>9 DEF Next, Line!Next

(* The gate is a lock granted in the order of arrival                      *)
(* (FirstComeFirstServed).                                                 *)
THEOREM Fifo == Spec => FirstComeFirstServed
<1>1. Init => Line!Init
  <2> SUFFICES ASSUME Init PROVE Line!Init
    OBVIOUS
  <2>1. Active = {} /\ InTurn = {}
    BY DEF Init, Active, InTurn, Waits, Turns
  <2> QED
    BY <2>1 DEF Init, Line!Init
<1>2. QueueInv /\ QueueInv' /\ [Next]_vars => [Line!Next]_(Line!vars)
  BY LineStep DEF Line!vars, Place, Holder
<1> QED
  BY <1>1, <1>2, QueueAlways, PTL DEF Spec, FirstComeFirstServed, Line!Spec

-----------------------------------------------------------------------------
(* The SQL store.                                                          *)

IsFun(f) == f = [x \in DOMAIN f |-> f[x]]

Database(d) ==
  /\ d = [rows |-> d.rows, columns |-> d.columns]
  /\ IsFun(d.rows) /\ IsFun(d.columns)
  /\ DOMAIN d.rows = DOMAIN d.columns
  /\ \A t \in DOMAIN d.rows : IsFun(d.rows[t])

(* The process knows the tables the file has.                              *)
FilesOK ==
  /\ Database(file)
  /\ open \in {"no", "yes", "spoiled"}
  /\ open = "yes" => Database(work) /\ DOMAIN work.rows = DOMAIN file.rows
  /\ IsFun(known) /\ DOMAIN known = DOMAIN file.rows

(* It knows every column of theirs, and may know more: those a rollback    *)
(* took away.                                                              *)
ColumnsKnown ==
  \A t \in DOMAIN known :
    /\ file.columns[t] \subseteq known[t]
    /\ open = "yes" => work.columns[t] \subseteq known[t]

LEMMA PutIs ==
  ASSUME NEW rows, NEW key, NEW row
  PROVE  /\ IsFun(S!Put(rows, key, row))
         /\ DOMAIN S!Put(rows, key, row) = DOMAIN rows \cup {key}
         /\ S!Put(rows, key, row)[key] = row
         /\ \A k \in DOMAIN rows \ {key} : S!Put(rows, key, row)[k] = rows[k]
BY DEF S!Put, IsFun

LEMMA EmptyIsFun == IsFun(<<>>) /\ DOMAIN <<>> = {}
BY DEF IsFun

LEMMA InitFiles == SqliteInit => FilesOK /\ ColumnsKnown /\ S!StoreInit
<1> SUFFICES ASSUME SqliteInit PROVE FilesOK /\ ColumnsKnown /\ S!StoreInit
  OBVIOUS
<1>1. /\ file.rows = <<>> /\ file.columns = <<>> /\ known = <<>> /\ open = "no"
      /\ file = [rows |-> file.rows, columns |-> file.columns] /\ answer = <<"none">>
  BY DEF SqliteInit
<1>2. FilesOK /\ ColumnsKnown
  BY <1>1, EmptyIsFun DEF FilesOK, ColumnsKnown, Database
<1> QED
  BY <1>1, <1>2 DEF S!StoreInit

(* A new table has the key alone, and no row.                              *)
LEMMA DefineImplements ==
  ASSUME FilesOK, ColumnsKnown, NEW t \in Tables, Define(t)
  PROVE  FilesOK' /\ ColumnsKnown' /\ S!Define(t)
<1>1. CASE t \in DOMAIN known
  <2>1. UNCHANGED <<file, work, open, known>> /\ t \in DOMAIN file.rows
        /\ answer' = <<"done">> /\ open = "no"
    BY <1>1 DEF Define, FilesOK
  <2> QED
    BY <2>1 DEF FilesOK, ColumnsKnown, S!Define
<1>2. CASE t \notin DOMAIN known
  <2>1. /\ file'.rows = S!Put(file.rows, t, <<>>)
        /\ file'.columns = S!Put(file.columns, t, {})
        /\ file' = [rows |-> file'.rows, columns |-> file'.columns]
        /\ known' = S!Put(known, t, {})
        /\ open = "no" /\ answer' = <<"done">> /\ UNCHANGED <<work, open>>
        /\ t \notin DOMAIN file.rows
    BY <1>2 DEF Define, FilesOK
  <2>2. /\ IsFun(file'.rows) /\ IsFun(file'.columns) /\ IsFun(known')
        /\ DOMAIN file'.rows = DOMAIN file.rows \cup {t}
        /\ DOMAIN file'.columns = DOMAIN file.columns \cup {t}
        /\ DOMAIN known' = DOMAIN known \cup {t}
        /\ file'.rows[t] = <<>> /\ file'.columns[t] = {} /\ known'[t] = {}
    BY <2>1 DEF S!Put, IsFun
  <2>3. \A u \in DOMAIN file.rows :
          file'.rows[u] = file.rows[u] /\ file'.columns[u] = file.columns[u] /\ known'[u] = known[u]
    BY <2>1 DEF FilesOK, Database, S!Put
  <2>4. \A u \in DOMAIN file'.rows : IsFun(file'.rows[u])
    BY <2>2, <2>3, EmptyIsFun DEF FilesOK, Database
  <2>5. Database(file')
    BY <2>1, <2>2, <2>4 DEF FilesOK, Database
  <2>6. FilesOK'
    BY <2>1, <2>2, <2>5 DEF FilesOK
  <2>7. ColumnsKnown'
    BY <2>1, <2>2, <2>3 DEF FilesOK, ColumnsKnown, Database
  <2> QED
    BY <2>1, <2>6, <2>7 DEF S!Define
<1> QED
  BY <1>1, <1>2

(* What the process believes and the file lacks spoils the transaction,    *)
(* which a store may do to any call.                                       *)
LEMMA WriteImplements ==
  ASSUME FilesOK, ColumnsKnown, open = "yes", NEW t \in DOMAIN known,
         NEW rows, NEW key, NEW given, NEW row, NEW told,
         WriteRow(t, rows, key, given, row, told)
  PROVE  FilesOK' /\ ColumnsKnown' /\ (S!Write(t, S!Put(rows, key, row), told) \/ S!Fail)
<1> DEFINE new == S!Put(rows, key, row)
<1>0. /\ IsFun(work.rows) /\ IsFun(work.columns) /\ IsFun(known) /\ IsFun(new)
      /\ t \in DOMAIN work.rows /\ DOMAIN work.columns = DOMAIN work.rows
      /\ DOMAIN known = DOMAIN work.rows
  BY PutIs DEF FilesOK, Database
<1>1. /\ file' = file /\ known' = [known EXCEPT ![t] = @ \cup given]
      /\ work'.columns = [work.columns EXCEPT ![t] = Altered(t, given)]
      /\ work' = [rows |-> work'.rows, columns |-> work'.columns]
  BY DEF WriteRow
<1>2. IsFun(known') /\ DOMAIN known' = DOMAIN known
  <2>1. known' = [u \in DOMAIN known |-> IF u = t THEN known[t] \cup given ELSE known[u]]
    BY <1>1
  <2> QED
    BY <2>1 DEF IsFun
<1>3. ColumnsKnown'
  <2> SUFFICES ASSUME NEW u \in DOMAIN known
               PROVE  file.columns[u] \subseteq known'[u] /\ work'.columns[u] \subseteq known'[u]
    BY <1>1, <1>2 DEF ColumnsKnown
  <2>1. CASE u = t
    BY <1>0, <1>1, <2>1 DEF ColumnsKnown, Altered, New, IsFun
  <2>2. CASE u # t
    BY <1>0, <1>1, <2>2 DEF ColumnsKnown, IsFun
  <2> QED
    BY <2>1, <2>2
<1>4. CASE Preparable(t, given)
  <2> HIDE DEF new
  <2>1. /\ work'.rows = [work.rows EXCEPT ![t] = new]
        /\ answer' = told /\ open' = open
    BY <1>4 DEF WriteRow, new
  <2>2. /\ IsFun(work'.rows) /\ IsFun(work'.columns)
        /\ DOMAIN work'.rows = DOMAIN work.rows /\ DOMAIN work'.columns = DOMAIN work.columns
        /\ \A u \in DOMAIN work.rows : work'.rows[u] = IF u = t THEN new ELSE work.rows[u]
    BY <1>0, <1>1, <2>1 DEF IsFun
  <2>3. \A u \in DOMAIN work.rows : IsFun(work'.rows[u])
    BY <1>0, <2>2 DEF FilesOK, Database
  <2>4. Database(work')
    BY <1>0, <1>1, <2>2, <2>3 DEF FilesOK, Database
  <2>5. FilesOK'
    BY <1>0, <1>1, <1>2, <2>1, <2>2, <2>4 DEF FilesOK
  <2>6. S!Write(t, new, told)
    BY <1>1, <2>1 DEF S!Write
  <2> QED
    BY <1>3, <2>5, <2>6 DEF new
<1>5. CASE ~Preparable(t, given)
  <2>1. open' = "spoiled" /\ answer' = <<"failed">>
    BY <1>5 DEF WriteRow, Spoil
  <2>2. FilesOK'
    BY <1>1, <1>2, <2>1 DEF FilesOK
  <2>3. S!Fail
    BY <1>1, <2>1 DEF S!Fail
  <2> QED
    BY <1>3, <2>2, <2>3
<1> QED
  BY <1>4, <1>5

LEMMA TellsImplements ==
  ASSUME FilesOK, ColumnsKnown, open = "yes", NEW t \in DOMAIN known, NEW told, Tells(told)
  PROVE  FilesOK' /\ ColumnsKnown' /\ S!Write(t, work.rows[t], told)
<1>1. UNCHANGED <<file, work, open, known>> /\ answer' = told
  BY DEF Tells
<1>2. IsFun(work.rows) /\ t \in DOMAIN work.rows
  BY DEF FilesOK, Database
<1>3. work.rows = [work.rows EXCEPT ![t] = work.rows[t]]
  BY <1>2 DEF IsFun
<1> QED
  BY <1>1, <1>3 DEF FilesOK, ColumnsKnown, S!Write

(* A row taken out and put back in is put over the old one.                *)
LEMMA PutBack ==
  ASSUME NEW rows, NEW key \in DOMAIN rows, NEW row
  PROVE  S!Put(S!Without(rows, key), key, row) = S!Put(rows, key, row)
<1>1. DOMAIN S!Without(rows, key) = DOMAIN rows \ {key}
      /\ \A k \in DOMAIN rows \ {key} : S!Without(rows, key)[k] = rows[k]
  BY DEF S!Without, S!Restrict
<1> QED
  BY <1>1 DEF S!Put

LEMMA WithoutNothing ==
  ASSUME NEW rows, IsFun(rows), NEW key, key \notin DOMAIN rows
  PROVE  S!Without(rows, key) = rows
BY DEF S!Without, S!Restrict, IsFun

(* Every call is one of the abstract store, or a failure of it.            *)
LEMMA CallImplements ==
  ASSUME FilesOK, ColumnsKnown, NEW t \in Tables, NEW key \in Keys, Call(t, key)
  PROVE  FilesOK' /\ ColumnsKnown' /\ (S!Call(t, key) \/ S!Fail)
<1>0. open = "yes" => work.rows = (IF open = "yes" THEN work.rows ELSE <<>>)
  OBVIOUS
<1>1. CASE Find(t, key)
  <2>1. /\ open # "spoiled" /\ t \in DOMAIN Seen.rows
        /\ answer' = IF key \in DOMAIN Seen.rows[t] THEN <<"found", Seen.rows[t][key]>>
                     ELSE <<"absent">>
        /\ UNCHANGED <<file, work, open, known>>
    BY <1>1 DEF Find, Tells, FilesOK, Seen
  <2>2. S!Find(t, key)
    BY <2>1 DEF S!Find, Seen
  <2> QED
    BY <2>1, <2>2 DEF FilesOK, ColumnsKnown, S!Call
<1>2. CASE RemoveRow(t, key) /\ open = "yes"
  <2>1. t \in DOMAIN known /\ t \in DOMAIN work.rows /\ open = "yes" /\ IsFun(work.rows[t])
    BY <1>2 DEF RemoveRow, Calls, FilesOK, Database
  <2>2. CASE key \notin DOMAIN work.rows[t]
    <3>1. Tells(<<"absent">>)
      BY <1>2, <2>2 DEF RemoveRow
    <3>2. FilesOK' /\ ColumnsKnown' /\ S!Write(t, work.rows[t], <<"absent">>)
      BY <2>1, <3>1, TellsImplements
    <3>3. S!Without(work.rows[t], key) = work.rows[t]
      BY <2>1, <2>2, WithoutNothing
    <3>4. S!RemoveRow(t, key)
      BY <2>1, <2>2, <3>2, <3>3 DEF S!RemoveRow
    <3> QED
      BY <2>1, <3>2, <3>4 DEF S!Call
  <2>3. CASE key \in DOMAIN work.rows[t]
    <3> DEFINE rest == S!Without(work.rows[t], key)
    <3>0. IsFun(rest) /\ IsFun(work.rows)
          /\ work = [rows |-> work.rows, columns |-> work.columns]
      BY <2>1 DEF S!Without, S!Restrict, IsFun, FilesOK, Database
    <3> HIDE DEF rest
    <3>1. /\ work' = [work EXCEPT !.rows = [work.rows EXCEPT ![t] = rest]]
          /\ answer' = <<"done">> /\ UNCHANGED <<file, open, known>>
      BY <1>2, <2>3, <3>0 DEF RemoveRow, rest
    <3>2. /\ work'.rows = [work.rows EXCEPT ![t] = rest] /\ work'.columns = work.columns
          /\ work' = [rows |-> work'.rows, columns |-> work'.columns]
      BY <3>0, <3>1
    <3>3. FilesOK' /\ ColumnsKnown'
      <4>1. /\ IsFun(work'.rows) /\ DOMAIN work'.rows = DOMAIN work.rows
            /\ \A u \in DOMAIN work.rows : work'.rows[u] = IF u = t THEN rest ELSE work.rows[u]
        BY <2>1, <3>0, <3>2 DEF IsFun
      <4>2. \A u \in DOMAIN work.rows : IsFun(work'.rows[u])
        BY <2>1, <3>0, <4>1 DEF FilesOK, Database
      <4>3. Database(work')
        BY <2>1, <3>2, <4>1, <4>2 DEF FilesOK, Database
      <4> QED
        BY <2>1, <3>1, <3>2, <4>1, <4>3 DEF FilesOK, ColumnsKnown
    <3>4. S!Write(t, rest, <<"done">>)
      BY <2>1, <3>1, <3>2 DEF S!Write
    <3>5. S!RemoveRow(t, key)
      BY <2>1, <2>3, <3>4 DEF S!RemoveRow, rest
    <3> QED
      BY <2>1, <3>3, <3>5 DEF S!Call
  <2> QED
    BY <2>2, <2>3
<1>3. ASSUME NEW given \in Inputs, open = "yes",
             Insert(t, key, given) \/ Update(t, key, given) \/ Replace(t, key, given)
      PROVE  /\ FilesOK' /\ ColumnsKnown'
             /\ \/ S!Insert(t, key, given) \/ S!Update(t, key, given) \/ S!Replace(t, key, given)
                \/ S!Fail
  <2>1. t \in DOMAIN known /\ t \in DOMAIN work.rows
    BY <1>3 DEF Insert, Update, Replace, Calls, FilesOK
  <2>2. CASE Insert(t, key, given)
    <3>1. CASE key \in DOMAIN work.rows[t]
      <4>1. Tells(<<"refused">>)
        BY <2>2, <3>1 DEF Insert
      <4> QED
        BY <1>3, <2>1, <3>1, <4>1, TellsImplements DEF S!Insert
    <3>2. CASE key \notin DOMAIN work.rows[t]
      <4>1. WriteRow(t, work.rows[t], key, DOMAIN given, S!Whole(given), <<"done">>)
        BY <2>2, <3>2 DEF Insert
      <4> QED
        BY <1>3, <2>1, <3>2, <4>1, WriteImplements DEF S!Insert
    <3> QED
      BY <3>1, <3>2
  <2>3. CASE Update(t, key, given)
    <3>1. CASE key \in DOMAIN work.rows[t]
      <4>1. WriteRow(t, work.rows[t], key, work.columns[t] \cup DOMAIN given,
                     S!Merged(work.rows[t][key], given), <<"updated", DOMAIN given>>)
        BY <2>3, <3>1 DEF Update
      <4> QED
        BY <1>3, <2>1, <3>1, <4>1, WriteImplements DEF S!Update, S!Change
    <3>2. CASE key \notin DOMAIN work.rows[t]
      <4>1. Tells(<<"absent">>)
        BY <2>3, <3>2 DEF Update
      <4> QED
        BY <1>3, <2>1, <3>2, <4>1, TellsImplements DEF S!Update, S!Change
    <3> QED
      BY <3>1, <3>2
  <2>4. CASE Replace(t, key, given)
    <3>1. CASE key \in DOMAIN work.rows[t]
      <4>1. WriteRow(t, S!Without(work.rows[t], key), key, DOMAIN given, S!Whole(given), <<"done">>)
        BY <2>4, <3>1 DEF Replace
      <4>2. S!Put(S!Without(work.rows[t], key), key, S!Whole(given))
            = S!Put(work.rows[t], key, S!Whole(given))
        BY <3>1, PutBack
      <4> QED
        BY <1>3, <2>1, <3>1, <4>1, <4>2, WriteImplements DEF S!Replace, S!Change
    <3>2. CASE key \notin DOMAIN work.rows[t]
      <4>1. Tells(<<"absent">>)
        BY <2>4, <3>2 DEF Replace
      <4> QED
        BY <1>3, <2>1, <3>2, <4>1, TellsImplements DEF S!Replace, S!Change
    <3> QED
      BY <3>1, <3>2
  <2> QED
    BY <1>3, <2>2, <2>3, <2>4
<1> QED
  BY <1>1, <1>2, <1>3 DEF Call, S!Call

LEMMA SqliteStep ==
  ASSUME FilesOK, ColumnsKnown, [SqliteNext]_sqliteVars
  PROVE  FilesOK' /\ ColumnsKnown' /\ [S!StoreNext]_(S!storeVars)
<1>1. ASSUME NEW t \in Tables, Define(t)
      PROVE  FilesOK' /\ ColumnsKnown' /\ S!StoreNext
  BY <1>1, DefineImplements DEF S!StoreNext
<1>2. ASSUME NEW t \in Tables, NEW key \in Keys, Call(t, key)
      PROVE  FilesOK' /\ ColumnsKnown' /\ S!StoreNext
  BY <1>2, CallImplements DEF S!StoreNext
<1>3. CASE Begin
  BY <1>3 DEF Begin, FilesOK, ColumnsKnown, S!StoreNext, S!Begin
<1>4. CASE CommitWork
  BY <1>4 DEF CommitWork, FilesOK, ColumnsKnown, S!StoreNext, S!Commit
<1>5. CASE Rollback
  BY <1>5 DEF Rollback, Abandon, FilesOK, ColumnsKnown, S!StoreNext, S!Rollback, S!Abandon
<1>6. CASE Fail
  BY <1>6 DEF Fail, FilesOK, ColumnsKnown, S!StoreNext, S!Fail
<1>7. CASE CommitFails
  BY <1>7 DEF CommitFails, Abandon, FilesOK, ColumnsKnown, S!StoreNext, S!CommitFails, S!Abandon
<1>8. CASE Crash
  BY <1>8 DEF Crash, FilesOK, ColumnsKnown, Database, S!StoreNext, S!Crash, S!Abandon
<1>9. CASE UNCHANGED sqliteVars
  BY <1>9 DEF sqliteVars, FilesOK, ColumnsKnown, S!storeVars
<1> QED
  BY <1>1, <1>2, <1>3, <1>4, <1>5, <1>6, <1>7, <1>8, <1>9 DEF SqliteNext

(* The SQL store keeps the promises of the in-memory one, for any tables,  *)
(* keys, columns and inputs: columns that are added as rows introduce      *)
(* them, forgotten by a rollback and still remembered by the process show  *)
(* in no answer but a failure (sqlite_store.cpp).                          *)
THEOREM StoreKeepsPromises == SqliteSpec => KeepsPromises
<1>1. FilesOK /\ ColumnsKnown /\ [SqliteNext]_sqliteVars
      => FilesOK' /\ ColumnsKnown' /\ [S!StoreNext]_(S!storeVars)
  BY SqliteStep
<1> QED
  BY InitFiles, <1>1, PTL DEF SqliteSpec, KeepsPromises, S!StoreSpec

(* A column the file has is known to the process, so ALTER TABLE never     *)
(* adds one a second time (sqlite_store.cpp, ensure_columns).              *)
THEOREM ColumnsOnce == SqliteSpec => []NoColumnTwice
<1>1. FilesOK /\ ColumnsKnown /\ [SqliteNext]_sqliteVars => FilesOK' /\ ColumnsKnown'
  BY SqliteStep
<1>2. ColumnsKnown => NoColumnTwice
  BY DEF ColumnsKnown, NoColumnTwice
<1> QED
  BY InitFiles, <1>1, <1>2, PTL DEF SqliteSpec

-----------------------------------------------------------------------------
(* The migrations.                                                         *)

LEMMA MinIs ==
  ASSUME NEW T \in SUBSET Nat, T # {}
  PROVE  Min(T) \in T /\ \A n \in T : Min(T) <= n
<1>1. \E n \in T : \A m \in T : n <= m
  BY LeastMember
<1> QED
  BY <1>1 DEF Min

(* Taking one number out leaves fewer, and the greater of it and the       *)
(* greatest of those is the greatest of all.                               *)
LEMMA MaxIs ==
  ASSUME NEW T \in SUBSET Nat, IsFiniteSet(T), T # {}
  PROVE  Max(T) \in T /\ \A n \in T : n <= Max(T)
<1> DEFINE G == {U \in SUBSET T : U # {} => \E m \in U : \A n \in U : n <= m}
<1>1. ASSUME NEW U \in SUBSET T, \A V \in SUBSET U : V # U => V \in G
      PROVE  U \in G
  <2> SUFFICES ASSUME U # {} PROVE \E m \in U : \A n \in U : n <= m
    OBVIOUS
  <2>1. PICK x : x \in U
    OBVIOUS
  <2>2. x \in Nat /\ U \ {x} \in G
    BY <1>1, <2>1
  <2>3. CASE U \ {x} = {}
    BY <2>1, <2>2, <2>3
  <2>4. CASE U \ {x} # {}
    <3>1. PICK m \in U \ {x} : \A n \in U \ {x} : n <= m
      BY <2>2, <2>4
    <3>2. m \in Nat /\ \A n \in U : n \in Nat /\ (n = x \/ n <= m)
      BY <3>1
    <3>3. CASE x <= m
      BY <2>2, <3>1, <3>2, <3>3
    <3>4. CASE m <= x
      <4>1. \A n \in U : n <= x
        BY <2>2, <3>2, <3>4
      <4> QED
        BY <2>1, <4>1
    <3> QED
      BY <2>2, <3>2, <3>3, <3>4
  <2> QED
    BY <2>3, <2>4
<1>2. \A U \in SUBSET T : U \in G
  <2> HIDE DEF G
  <2> QED
    BY <1>1, SubsetInduction
<1>3. PICK m \in T : \A n \in T : n <= m
  BY <1>2
<1>4. \A n \in T : m \in Nat /\ n \in Nat /\ (m >= n)
  BY <1>3
<1>5. Max(T) \in T /\ \A n \in T : Max(T) >= n
  BY <1>4 DEF Max
<1> QED
  BY <1>5

LEMMA HighestIs ==
  ASSUME NEW T \in SUBSET Nat, IsFiniteSet(T)
  PROVE  /\ Highest(T) \in Nat
         /\ \A n \in T : n <= Highest(T)
         /\ \A k \in Nat : (\A n \in T : n <= k) => Highest(T) <= k
<1>1. CASE T = {}
  BY <1>1 DEF Highest
<1>2. CASE T # {}
  <2>1. Highest(T) = Max(T)
    BY <1>2 DEF Highest
  <2>2. Max(T) \in T /\ \A n \in T : n <= Max(T)
    BY <1>2, MaxIs
  <2> QED
    BY <2>1, <2>2
<1> QED
  BY <1>1, <1>2

Migrated == UNION {{<<n, b[n]>> : n \in DOMAIN b} : b \in Builds}

MigrationTypes ==
  /\ keeps \in BOOLEAN /\ build \in Builds /\ at \in Nat
  /\ phase \in {"closed", "running", "shaped", "ready", "refused"}
  /\ ran \in Seq(Migrated)
  /\ IsFiniteSet(DOMAIN recorded) /\ DOMAIN recorded \subseteq Nat \ {0}
  /\ IsFiniteSet(DOMAIN applied) /\ DOMAIN applied \subseteq Nat

(* What a process believes was applied is in the file, unless it read the  *)
(* numbers as 0, which no migration has.                                   *)
HistoryIsOfFile ==
  \A n \in DOMAIN applied : n # 0 => n \in DOMAIN recorded /\ recorded[n] = applied[n]

(* What it went past is recorded as its own, and where it stands it is     *)
(* about to record what has its schema.                                    *)
PassedIsRecorded ==
  /\ \A n \in DOMAIN build :
       \/ phase \in {"running", "ready"} /\ n <= at
       \/ phase = "shaped" /\ n < at
       => n \in DOMAIN recorded /\ recorded[n] = build[n]
  /\ phase = "shaped" =>
       at \in DOMAIN build /\ at \notin DOMAIN applied /\ <<at, build[at]>> \in shaped
  /\ phase = "ready" => Ahead = {}

(* Nothing that ran is ahead of it but what it knows was applied.          *)
RanIsBehind ==
  keeps => \A i \in 1..Len(ran) :
    /\ phase = "running" => ran[i][1] <= at \/ ran[i][1] \in DOMAIN applied
    /\ phase = "shaped" => ran[i][1] < at

(* A file a newer build has changed is not opened.                         *)
NotNewer ==
  keeps /\ phase \in {"running", "shaped", "ready"} =>
    /\ \A n \in DOMAIN applied : n <= Highest(DOMAIN build)
    /\ \A n \in DOMAIN recorded : n \in DOMAIN applied \/ n \in DOMAIN build

RecordMatches ==
  /\ DOMAIN recorded = {ran[i][1] : i \in 1..Len(ran)}
  /\ \A i \in 1..Len(ran) : ran[i] \in shaped

RanInOrder == keeps => \A i, j \in 1..Len(ran) : i < j => ran[i][1] < ran[j][1]

MigrationsOK ==
  /\ MigrationTypes /\ HistoryIsOfFile /\ PassedIsRecorded /\ RanIsBehind /\ NotNewer
  /\ RecordMatches /\ RanInOrder

LEMMA MigratedIs == \A r \in Migrated : r[1] \in Nat \ {0}
BY MigrationsAssumption DEF Migrated

LEMMA InitMigrations == MigrationsInit => MigrationsOK
<1> SUFFICES ASSUME MigrationsInit PROVE MigrationsOK
  OBVIOUS
<1>1. /\ keeps \in BOOLEAN /\ build \in Builds /\ phase = "closed" /\ at = 0
      /\ applied = <<>> /\ recorded = <<>> /\ ran = <<>>
      /\ Len(ran) = 0 /\ 1..Len(ran) = {} /\ DOMAIN recorded = {} /\ DOMAIN applied = {}
  BY DEF MigrationsInit, Nothing
<1>2. MigrationTypes
  BY <1>1, FS_EmptySet DEF MigrationTypes
<1>3. RecordMatches
  BY <1>1 DEF RecordMatches
<1> QED
  BY <1>1, <1>2, <1>3
     DEF MigrationsOK, HistoryIsOfFile, PassedIsRecorded, RanIsBehind, NotNewer, RanInOrder

(* The numbers read are those of the file, or all 0.                       *)
LEMMA HistoryIs ==
  ASSUME MigrationsOK
  PROVE  /\ IsFiniteSet(DOMAIN History) /\ DOMAIN History \subseteq Nat
         /\ keeps => History = recorded
         /\ \A n \in DOMAIN History :
              n # 0 => n \in DOMAIN recorded /\ recorded[n] = History[n]
<1>1. CASE keeps \/ recorded = Nothing
  BY <1>1 DEF History, MigrationsOK, MigrationTypes
<1>2. CASE ~(keeps \/ recorded = Nothing)
  <2>1. DOMAIN History = {0}
    BY <1>2 DEF History
  <2>2. IsFiniteSet({0})
    BY FS_Singleton
  <2> QED
    BY <1>2, <2>1, <2>2
<1> QED
  BY <1>1, <1>2

LEMMA OpenKeeps == ASSUME MigrationsOK, NEW b \in Builds, Open(b) PROVE MigrationsOK'
<1>1. /\ UNCHANGED <<keeps, recorded, shaped, ran>> /\ build' = b /\ at' = 0 /\ applied' = History
      /\ phase' = IF Highest(DOMAIN History) > Highest(DOMAIN b) THEN "refused" ELSE "running"
  BY DEF Open, fileVars
<1>2. MigrationTypes'
  BY <1>1, HistoryIs DEF MigrationsOK, MigrationTypes
<1>3. HistoryIsOfFile'
  BY <1>1, HistoryIs DEF HistoryIsOfFile
<1>4. PassedIsRecorded'
  BY <1>1, MigrationsAssumption DEF PassedIsRecorded
<1>5. RanIsBehind'
  <2> SUFFICES ASSUME keeps, NEW i \in 1..Len(ran) PROVE ran[i][1] \in DOMAIN recorded
    BY <1>1, HistoryIs DEF RanIsBehind
  <2> QED
    BY DEF MigrationsOK, RecordMatches
<1>6. NotNewer'
  <2> SUFFICES ASSUME keeps, phase' = "running", NEW n \in DOMAIN recorded
               PROVE  n <= Highest(DOMAIN b)
    BY <1>1, HistoryIs DEF NotNewer
  <2>1. Highest(DOMAIN History) <= Highest(DOMAIN b)
    BY <1>1, HistoryIs, HighestIs, MigrationsAssumption
  <2>2. n \in DOMAIN History /\ n <= Highest(DOMAIN History) /\ n \in Nat
        /\ Highest(DOMAIN History) \in Nat /\ Highest(DOMAIN b) \in Nat
    BY HistoryIs, HighestIs, MigrationsAssumption
  <2> QED
    BY <2>1, <2>2
<1> QED
  BY <1>1, <1>2, <1>3, <1>4, <1>5, <1>6 DEF MigrationsOK, RecordMatches, RanInOrder

LEMMA MigrateKeeps == ASSUME MigrationsOK, Migrate PROVE MigrationsOK'
<1> DEFINE n == Min(Ahead)
<1>1. /\ n \in DOMAIN build /\ n \in Nat /\ n > at /\ n # 0
      /\ \A m \in DOMAIN build : m \in Nat /\ (m < n => m <= at)
      /\ at \in Nat
  <2>1. Ahead \in SUBSET Nat /\ Ahead # {} /\ DOMAIN build \subseteq Nat \ {0} /\ at \in Nat
    BY MigrationsAssumption DEF Migrate, Ahead, MigrationsOK, MigrationTypes
  <2>2. n \in Ahead /\ \A m \in Ahead : n <= m
    BY <2>1, MinIs
  <2> HIDE DEF n
  <2> QED
    BY <2>1, <2>2 DEF Ahead
<1>2. UNCHANGED <<keeps, build, applied, recorded, ran>> /\ phase = "running"
  BY DEF Migrate
<1>3. RecordMatches' <=> \A i \in 1..Len(ran) : ran[i] \in shaped'
  BY <1>2 DEF RecordMatches, MigrationsOK
<1>4. CASE ~Acceptable(n)
  <2>1. phase' = "refused" /\ UNCHANGED <<at, shaped>>
    BY <1>4 DEF Migrate
  <2> QED
    BY <1>2, <2>1 DEF MigrationsOK, MigrationTypes, HistoryIsOfFile, PassedIsRecorded, RanIsBehind,
                      NotNewer, RecordMatches, RanInOrder
<1>5. CASE Acceptable(n) /\ n \in DOMAIN applied
  <2>1. at' = n /\ UNCHANGED <<phase, shaped>>
    BY <1>5 DEF Migrate
  <2>2. applied[n] = build[n] /\ n \in DOMAIN recorded /\ recorded[n] = build[n]
    BY <1>1, <1>5 DEF Acceptable, MigrationsOK, HistoryIsOfFile
  <2> HIDE DEF n
  <2>3. PassedIsRecorded'
    BY <1>1, <1>2, <2>1, <2>2 DEF MigrationsOK, PassedIsRecorded
  <2>4. RanIsBehind'
    <3>1. \A i \in 1..Len(ran) : ran[i][1] \in Nat
      BY MigratedIs DEF MigrationsOK, MigrationTypes
    <3> QED
      BY <1>1, <1>2, <2>1, <3>1 DEF MigrationsOK, RanIsBehind
  <2> QED
    BY <1>1, <1>2, <2>1, <2>3, <2>4
       DEF MigrationsOK, MigrationTypes, HistoryIsOfFile, NotNewer, RecordMatches, RanInOrder
<1>6. CASE Acceptable(n) /\ n \notin DOMAIN applied
  <2>1. at' = n /\ phase' = "shaped" /\ shaped' = shaped \cup {<<n, build[n]>>}
    BY <1>6 DEF Migrate
  <2>2. \A m \in DOMAIN applied : m < n
    <3>1. n >= Highest(DOMAIN applied)
      BY <1>6 DEF Acceptable, OnDisk
    <3>2. \A m \in DOMAIN applied : m \in Nat /\ m <= Highest(DOMAIN applied) /\ m # n
          /\ Highest(DOMAIN applied) \in Nat
      BY <1>6, HighestIs DEF MigrationsOK, MigrationTypes
    <3> HIDE DEF n
    <3> QED
      BY <1>1, <3>1, <3>2
  <2> HIDE DEF n
  <2>3. PassedIsRecorded'
    BY <1>1, <1>2, <1>6, <2>1 DEF MigrationsOK, PassedIsRecorded
  <2>4. RanIsBehind'
    <3>1. \A i \in 1..Len(ran) : ran[i][1] \in Nat
      BY MigratedIs DEF MigrationsOK, MigrationTypes
    <3> QED
      BY <1>1, <1>2, <2>1, <2>2, <3>1 DEF MigrationsOK, RanIsBehind
  <2>5. RecordMatches'
    BY <1>3, <2>1 DEF MigrationsOK, RecordMatches
  <2> QED
    BY <1>1, <1>2, <2>1, <2>3, <2>4, <2>5
       DEF MigrationsOK, MigrationTypes, HistoryIsOfFile, NotNewer, RanInOrder
<1> QED
  BY <1>4, <1>5, <1>6

LEMMA RecordKeeps == ASSUME MigrationsOK, Record PROVE MigrationsOK'
<1> DEFINE r == <<at, build[at]>>
<1>1. /\ UNCHANGED <<keeps, build, at, applied, shaped>>
      /\ phase = "shaped" /\ phase' = "running"
      /\ DOMAIN recorded' = DOMAIN recorded \cup {at}
      /\ recorded'[at] = build[at]
      /\ \A n \in DOMAIN recorded \ {at} : recorded'[n] = recorded[n]
      /\ ran' = Append(ran, r)
  BY DEF Record
<1>2. /\ at \in DOMAIN build /\ at \notin DOMAIN applied /\ r \in shaped
      /\ at \in Nat \ {0} /\ r \in Migrated /\ r[1] = at
      /\ ran \in Seq(Migrated)
  <2>1. at \in DOMAIN build /\ at \notin DOMAIN applied /\ r \in shaped /\ build \in Builds
        /\ ran \in Seq(Migrated)
    BY <1>1 DEF MigrationsOK, MigrationTypes, PassedIsRecorded
  <2>2. at \in Nat \ {0} /\ r[1] = at
    BY <2>1, MigrationsAssumption
  <2>3. r \in {<<n, build[n]>> : n \in DOMAIN build}
    BY <2>1
  <2>4. r \in Migrated
    BY <2>1, <2>3 DEF Migrated
  <2> QED
    BY <2>1, <2>2, <2>4
<1> HIDE DEF r
<1>3. /\ ran' \in Seq(Migrated) /\ Len(ran') = Len(ran) + 1 /\ Len(ran) \in Nat
      /\ ran'[Len(ran) + 1] = r
      /\ \A i \in 1..Len(ran) : ran'[i] = ran[i] /\ ran[i][1] \in Nat
  BY <1>1, <1>2, MigratedIs
<1>4. \A i \in 1..Len(ran') : i \in 1..Len(ran) \/ i = Len(ran) + 1
  BY <1>3
<1>5. MigrationTypes'
  <2>1. IsFiniteSet(DOMAIN recorded')
    BY <1>1, FS_AddElement DEF MigrationsOK, MigrationTypes
  <2> QED
    BY <1>1, <1>2, <1>3, <2>1 DEF MigrationsOK, MigrationTypes
<1>6. HistoryIsOfFile'
  BY <1>1, <1>2 DEF MigrationsOK, HistoryIsOfFile
<1>7. PassedIsRecorded'
  <2>1. \A n \in DOMAIN build : n \in Nat /\ (n <= at => n = at \/ n < at)
    BY <1>2, MigrationsAssumption DEF MigrationsOK, MigrationTypes
  <2> QED
    BY <1>1, <2>1 DEF MigrationsOK, PassedIsRecorded
<1>8. RanIsBehind'
  <2> SUFFICES ASSUME keeps, NEW i \in 1..Len(ran') PROVE ran'[i][1] <= at
    BY <1>1 DEF RanIsBehind
  <2> QED
    BY <1>1, <1>2, <1>3, <1>4 DEF MigrationsOK, RanIsBehind
<1>9. NotNewer'
  BY <1>1, <1>2 DEF MigrationsOK, NotNewer
<1>10. RecordMatches'
  <2>1. \A i \in 1..Len(ran') : ran'[i] \in shaped'
    BY <1>1, <1>2, <1>3, <1>4 DEF MigrationsOK, RecordMatches
  <2>2. \A n \in DOMAIN recorded' : \E i \in 1..Len(ran') : n = ran'[i][1]
    <3> SUFFICES ASSUME NEW n \in DOMAIN recorded'
                 PROVE  \E i \in 1..Len(ran') : n = ran'[i][1]
      OBVIOUS
    <3>1. CASE n = at
      BY <1>2, <1>3, <3>1
    <3>2. CASE n # at
      <4>1. PICK i \in 1..Len(ran) : n = ran[i][1]
        BY <1>1, <3>2 DEF MigrationsOK, RecordMatches
      <4> QED
        BY <1>3, <4>1
    <3> QED
      BY <3>1, <3>2
  <2>3. \A i \in 1..Len(ran') : ran'[i][1] \in DOMAIN recorded'
    BY <1>1, <1>2, <1>3, <1>4 DEF MigrationsOK, RecordMatches
  <2> QED
    BY <2>1, <2>2, <2>3 DEF RecordMatches
<1>11. RanInOrder'
  BY <1>1, <1>2, <1>3, <1>4 DEF MigrationsOK, RanInOrder, RanIsBehind
<1> QED
  BY <1>5, <1>6, <1>7, <1>8, <1>9, <1>10, <1>11 DEF MigrationsOK

LEMMA MigrationsStep == ASSUME MigrationsOK, [MigrationsNext]_migrationVars PROVE MigrationsOK'
<1>1. CASE Finish
  <2>1. /\ UNCHANGED <<keeps, build, at, applied, recorded, shaped, ran>>
        /\ phase = "running" /\ phase' = "ready" /\ Ahead = {}
    BY <1>1 DEF Finish, fileVars
  <2> QED
    BY <2>1 DEF MigrationsOK, MigrationTypes, HistoryIsOfFile, PassedIsRecorded, RanIsBehind,
                NotNewer, RecordMatches, RanInOrder, Ahead
<1>2. CASE Refuse
  <2>1. UNCHANGED <<keeps, build, at, applied, recorded, shaped, ran>> /\ phase' = "refused"
    BY <1>2 DEF Refuse, fileVars
  <2> QED
    BY <2>1 DEF MigrationsOK, MigrationTypes, HistoryIsOfFile, PassedIsRecorded, RanIsBehind,
                NotNewer, RecordMatches, RanInOrder
<1>3. CASE End
  <2>1. /\ UNCHANGED <<keeps, build, recorded, shaped, ran>>
        /\ phase' = "closed" /\ at' = 0 /\ DOMAIN applied' = {}
    BY <1>3 DEF End, fileVars, Nothing
  <2> QED
    BY <2>1, FS_EmptySet
       DEF MigrationsOK, MigrationTypes, HistoryIsOfFile, PassedIsRecorded, RanIsBehind,
           NotNewer, RecordMatches, RanInOrder
<1>4. CASE UNCHANGED migrationVars
  BY <1>4 DEF migrationVars, fileVars, MigrationsOK, MigrationTypes, HistoryIsOfFile,
              PassedIsRecorded, RanIsBehind, NotNewer, RecordMatches, RanInOrder, Ahead
<1> QED
  BY <1>1, <1>2, <1>3, <1>4, OpenKeeps, MigrateKeeps, RecordKeeps DEF MigrationsNext

(* Whatever dies in between and whichever builds open the file, it records *)
(* exactly the migrations whose data ran over their own schemas, a build   *)
(* that is ready has all of its own, and where numbers are kept none ran   *)
(* twice or before a lower one (migration_runner.cpp, run).                *)
THEOREM HistoryTold == MigrationsSpec => []HistoryStands
<1>1. ASSUME MigrationsOK PROVE HistoryStands
  <2>1. DOMAIN ran = 1..Len(ran)
    BY DEF MigrationsOK, MigrationTypes
  <2>2. Range(ran) \subseteq shaped
    BY <1>1, <2>1 DEF Range, MigrationsOK, RecordMatches
  <2>3. phase = "ready" => \A n \in DOMAIN build : n \in DOMAIN recorded /\ recorded[n] = build[n]
    <3> SUFFICES ASSUME phase = "ready", NEW n \in DOMAIN build PROVE n <= at
      BY <1>1 DEF MigrationsOK, PassedIsRecorded
    <3>1. n \in Nat /\ at \in Nat /\ ~(n > at)
      BY <1>1, MigrationsAssumption DEF MigrationsOK, MigrationTypes, PassedIsRecorded, Ahead
    <3> QED
      BY <3>1
  <2>4. RecordTells
    BY <1>1, <2>1, <2>2, <2>3 DEF RecordTells, MigrationsOK, RecordMatches
  <2>5. OnceInOrder
    BY <1>1, <2>1 DEF OnceInOrder, MigrationsOK, RanInOrder
  <2> QED
    BY <2>4, <2>5 DEF HistoryStands
<1> QED
  BY InitMigrations, MigrationsStep, <1>1, PTL DEF MigrationsSpec

(* Where the store keeps numbers, as the in-memory one does, a build never *)
(* starts on a file a newer build has changed; run NewerRefused shows what *)
(* becomes of it where they are read as 0.                                 *)
THEOREM NewerRefusedIfKept == MigrationsSpec => [](keeps => NewerRefused)
<1>1. ASSUME MigrationsOK PROVE keeps => NewerRefused
  <2> SUFFICES ASSUME keeps, phase = "ready", NEW n \in DOMAIN recorded
               PROVE  n <= Highest(DOMAIN build)
    BY DEF NewerRefused
  <2>1. \A m \in DOMAIN build : m <= Highest(DOMAIN build)
    BY <1>1, HighestIs, MigrationsAssumption DEF MigrationsOK, MigrationTypes
  <2> QED
    BY <1>1, <2>1 DEF MigrationsOK, NotNewer
<1> QED
  BY InitMigrations, MigrationsStep, <1>1, PTL DEF MigrationsSpec

-----------------------------------------------------------------------------
(* The lists of the shell.  FlattenSeq and the order of the rows come      *)
(* first: a library operator that walks along a sequence, and a CHOOSE for *)
(* every place.                                                            *)

(* What FlattenSeq walks along: the first i pages one after the other.     *)
Joins(f, s) ==
  f = [i \in 1..Len(s) |-> IF i = 1 THEN s[i] ELSE f[i - 1] \o s[i]]

LEMMA JoinedUp ==
  ASSUME NEW s, Len(s) \in Nat, Len(s) # 0
  PROVE  \E f : Joins(f, s) /\ FlattenSeq(s) = f[Len(s)]
<1> DEFINE Upto(g, m) == g = [i \in 1..m |-> IF i = 1 THEN s[i] ELSE g[i - 1] \o s[i]]
           G == {m \in Nat : \E g : Upto(g, m)}
<1>1. ASSUME NEW m \in 0..Len(s), m > 0 => m - 1 \in G PROVE m \in G
  <2>1. CASE m = 0
    <3>1. Upto(<<>>, 0)
      OBVIOUS
    <3> QED
      BY <2>1, <3>1
  <2>2. CASE m > 0
    <3>1. PICK g : Upto(g, m - 1)
      BY <1>1, <2>2
    <3> DEFINE h == [i \in 1..m |-> IF i = m THEN (IF m = 1 THEN s[m] ELSE g[m - 1] \o s[m])
                                    ELSE g[i]]
    <3>2. ASSUME NEW i \in 1..m PROVE h[i] = IF i = 1 THEN s[i] ELSE h[i - 1] \o s[i]
      <4>1. CASE i = m
        BY <4>1
      <4>2. CASE i # m
        <5>1. i \in 1..m - 1 /\ h[i] = g[i] /\ (i # 1 => i - 1 \in 1..m /\ i - 1 # m /\ h[i - 1] = g[i - 1])
          BY <1>1, <4>2
        <5>2. g[i] = IF i = 1 THEN s[i] ELSE g[i - 1] \o s[i]
          <6>1. \A k \in 1..m - 1 : g[k] = IF k = 1 THEN s[k] ELSE g[k - 1] \o s[k]
            BY <3>1, Zenon
          <6> QED
            BY <5>1, <6>1
        <5> QED
          BY <5>1, <5>2
      <4> QED
        BY <4>1, <4>2
    <3>3. Upto(h, m)
      <4>1. h = [i \in 1..m |-> h[i]]
        OBVIOUS
      <4> HIDE DEF h
      <4> QED
        BY <3>2, <4>1
    <3> HIDE DEF h, Upto
    <3> QED
      BY <1>1, <3>3
  <2> HIDE DEF Upto
  <2> QED
    BY <1>1, <2>1, <2>2
<1>2. Len(s) \in G
  <2> HIDE DEF G
  <2>1. \A m \in 0..Len(s) : m \in G
    BY <1>1, NumberInduction
  <2> QED
    BY <2>1
<1> DEFINE one == CHOOSE g : g = [i \in 1..Len(s) |-> IF i = 1 THEN s[i] ELSE g[i - 1] \o s[i]]
<1>3. Joins(one, s)
  <2>1. \E g : g = [i \in 1..Len(s) |-> IF i = 1 THEN s[i] ELSE g[i - 1] \o s[i]]
    BY <1>2, Zenon
  <2> QED
    BY <2>1, Zenon DEF Joins
<1>4. FlattenSeq(s) = one[Len(s)]
  BY Zenon DEF FlattenSeq
<1> QED
  BY <1>3, <1>4, Zenon

(* Page by page.                                                           *)
LEMMA JoinSteps ==
  ASSUME NEW s, NEW n \in Nat, Len(s) = n, NEW f, Joins(f, s)
  PROVE  /\ n > 0 => f[1] = s[1]
         /\ \A i \in 2..n : f[i] = f[i - 1] \o s[i]
<1>1. f = [i \in 1..n |-> IF i = 1 THEN s[i] ELSE f[i - 1] \o s[i]]
  BY Zenon DEF Joins
<1>2. \A i \in 1..n : f[i] = IF i = 1 THEN s[i] ELSE f[i - 1] \o s[i]
  BY <1>1, Zenon
<1>3. ASSUME n > 0 PROVE f[1] = s[1]
  <2>1. 1 \in 1..n
    BY <1>3
  <2> QED
    BY <1>2, <2>1, Zenon
<1>4. ASSUME NEW i \in 2..n PROVE f[i] = f[i - 1] \o s[i]
  <2>1. i \in 1..n /\ i # 1
    OBVIOUS
  <2> QED
    BY <1>2, <2>1, Zenon
<1> QED
  BY <1>3, <1>4

LEMMA JoinedRows ==
  ASSUME NEW X, NEW s \in Seq(Seq(X)), NEW f, Joins(f, s)
  PROVE  \A i \in 1..Len(s) : f[i] \in Seq(X)
<1> DEFINE G == {i \in 0..Len(s) : i > 0 => f[i] \in Seq(X)}
<1>l. Len(s) \in Nat /\ \A i \in 1..Len(s) : s[i] \in Seq(X)
  OBVIOUS
<1>0. (Len(s) > 0 => f[1] = s[1]) /\ \A i \in 2..Len(s) : f[i] = f[i - 1] \o s[i]
  BY <1>l, JoinSteps
<1>1. ASSUME NEW i \in 0..Len(s), i > 0 => i - 1 \in G PROVE i \in G
  <2>1. CASE i = 0
    BY <2>1
  <2>2. CASE i = 1
    BY <1>l, <1>0, <1>1, <2>2
  <2>3. CASE i > 1
    <3>1. i \in 2..Len(s) /\ i \in 1..Len(s) /\ f[i - 1] \in Seq(X)
      BY <1>l, <1>1, <2>3
    <3>2. s[i] \in Seq(X) /\ f[i] = f[i - 1] \o s[i]
      BY <1>l, <1>0, <3>1
    <3>3. f[i - 1] \o s[i] \in Seq(X)
      BY <3>1, <3>2
    <3> QED
      BY <3>2, <3>3
  <2> QED
    BY <1>l, <2>1, <2>2, <2>3
<1>2. \A i \in 0..Len(s) : i \in G
  <2> HIDE DEF G
  <2> QED
    BY <1>l, <1>1, NumberInduction
<1> QED
  BY <1>l, <1>2

LEMMA FlatOfNone == FlattenSeq(<<>>) = <<>>
BY DEF FlattenSeq

LEMMA FlatType ==
  ASSUME NEW X, NEW s \in Seq(Seq(X))
  PROVE  FlattenSeq(s) \in Seq(X)
<1>1. CASE Len(s) = 0
  <2>1. s = <<>> /\ <<>> \in Seq(X)
    BY <1>1
  <2> QED
    BY <2>1, FlatOfNone
<1>2. CASE Len(s) # 0
  <2>1. PICK f : Joins(f, s) /\ FlattenSeq(s) = f[Len(s)]
    BY <1>2, JoinedUp
  <2> QED
    BY <1>2, <2>1, JoinedRows
<1> QED
  BY <1>1, <1>2

(* A page more is shown after the others.                                  *)
LEMMA FlatOfMore ==
  ASSUME NEW X, NEW s \in Seq(Seq(X)), NEW r \in Seq(X)
  PROVE  FlattenSeq(Append(s, r)) = FlattenSeq(s) \o r
<1> DEFINE t == Append(s, r)
           n == Len(s)
<1>0. /\ n \in Nat /\ Len(t) = n + 1 /\ t[n + 1] = r
      /\ \A i \in 1..n : t[i] = s[i]
  OBVIOUS
<1>1. Len(t) \in Nat /\ Len(t) # 0
  BY <1>0
<1>t. FlattenSeq(t) = FlattenSeq(s) \o r
  <2> HIDE DEF t
  <2>1. PICK f : Joins(f, t) /\ FlattenSeq(t) = f[Len(t)]
    BY <1>1, JoinedUp
  <2>2. f[1] = t[1] /\ \A i \in 2..n + 1 : f[i] = f[i - 1] \o t[i]
    <3> HIDE DEF n
    <3>1. n + 1 \in Nat /\ n + 1 > 0
      BY <1>0
    <3> QED
      <4>1. Joins(f, t) /\ Len(t) = n + 1
        BY <1>0, <2>1
      <4>2. \A m \in Nat : Len(t) = m => (m > 0 => f[1] = t[1]) /\ \A i \in 2..m : f[i] = f[i - 1] \o t[i]
        BY <4>1, JoinSteps, Zenon
      <4> QED
        BY <3>1, <4>1, <4>2, Zenon
  <2>3. CASE n = 0
    <3>1. s = <<>> /\ FlattenSeq(s) = <<>>
      BY <2>3, FlatOfNone
    <3>2. f[Len(t)] = r /\ <<>> \o r = r
      BY <1>0, <2>2, <2>3
    <3> QED
      BY <2>1, <3>1, <3>2
  <2>4. CASE n # 0
    <3>1. PICK g : Joins(g, s) /\ FlattenSeq(s) = g[n]
      BY <1>0, <2>4, JoinedUp
    <3>2. g[1] = s[1] /\ \A i \in 2..n : g[i] = g[i - 1] \o s[i]
      <4>1. n > 0 /\ Len(s) = n
        BY <1>0, <2>4
      <4> HIDE DEF n
      <4> QED
        <5>1. \A m \in Nat : Len(s) = m => (m > 0 => g[1] = s[1]) /\ \A i \in 2..m : g[i] = g[i - 1] \o s[i]
          BY <3>1, JoinSteps, Zenon
        <5> QED
          BY <1>0, <4>1, <5>1, Zenon
    <3> HIDE DEF n
    <3> DEFINE G == {i \in 0..n : i > 0 => f[i] = g[i]}
    <3>3. ASSUME NEW i \in 0..n, i > 0 => i - 1 \in G PROVE i \in G
      <4>1. CASE i = 0
        BY <4>1
      <4>2. CASE i = 1
        BY <1>0, <2>2, <2>4, <3>2, <4>2
      <4>3. CASE i > 1
        <5>1. i \in 2..n /\ i \in 2..n + 1 /\ i \in 1..n /\ f[i - 1] = g[i - 1]
          BY <1>0, <3>3, <4>3
        <5>2. f[i] = f[i - 1] \o t[i] /\ g[i] = g[i - 1] \o s[i] /\ t[i] = s[i]
          BY <1>0, <2>2, <3>2, <5>1
        <5> QED
          BY <3>3, <5>1, <5>2
      <4> QED
        BY <1>0, <4>1, <4>2, <4>3
    <3>4. \A i \in 0..n : i \in G
      <4> HIDE DEF G
      <4> QED
        BY <1>0, <3>3, NumberInduction
    <3>5. f[n] = g[n]
      BY <1>0, <2>4, <3>4
    <3>6. f[n + 1] = f[(n + 1) - 1] \o t[n + 1]
      <4>1. n + 1 \in 2..n + 1
        BY <1>0, <2>4
      <4> QED
        BY <2>2, <4>1
    <3>7. f[n + 1] = f[n] \o r
      BY <1>0, <3>6
    <3> QED
      BY <1>0, <2>1, <3>1, <3>5, <3>7
  <2> QED
    BY <2>3, <2>4
<1> QED
  BY <1>t

(* What is shown begins with the first page.                               *)
LEMMA FlatOfTail ==
  ASSUME NEW X, NEW s \in Seq(Seq(X)), Len(s) # 0
  PROVE  FlattenSeq(s) = s[1] \o FlattenSeq(Tail(s))
<1> DEFINE t == Tail(s)
           n == Len(t)
<1>3. /\ t \in Seq(Seq(X)) /\ n \in Nat /\ Len(s) = n + 1 /\ Len(s) \in Nat
      /\ \A i \in 1..n : t[i] = s[i + 1]
      /\ \A i \in 1..n + 1 : s[i] \in Seq(X)
      /\ s[1] \in Seq(X)
  OBVIOUS
<1>j. \A a, b, c \in Seq(X) : (a \o b) \o c = a \o (b \o c)
  <2> TAKE a, b, c \in Seq(X)
  <2> HIDE DEF t, n
  <2> QED
    OBVIOUS
<1>1. PICK f : Joins(f, s) /\ FlattenSeq(s) = f[n + 1]
  <2> HIDE DEF n
  <2> QED
    BY <1>3, JoinedUp
<1>2. f[1] = s[1] /\ \A i \in 2..n + 1 : f[i] = f[i - 1] \o s[i]
  <2> HIDE DEF n
  <2>1. n + 1 \in Nat /\ n + 1 > 0
    BY <1>3
  <2> QED
    <3>1. \A m \in Nat : Len(s) = m => (m > 0 => f[1] = s[1]) /\ \A i \in 2..m : f[i] = f[i - 1] \o s[i]
      BY <1>1, JoinSteps, Zenon
    <3> QED
      BY <1>3, <2>1, <3>1, Zenon
<1>4. CASE n = 0
  <2>1. t = <<>>
    <3> HIDE DEF t
    <3> QED
      BY <1>3, <1>4
  <2>2. s[1] \o <<>> = s[1]
    BY <1>3
  <2> QED
    <3>1. f[n + 1] = s[1]
      <4>1. n + 1 = 1
        BY <1>4
      <4> QED
        BY <1>2, <4>1, Zenon
    <3> HIDE DEF n, t
    <3> QED
      BY <1>1, <2>1, <2>2, <3>1, FlatOfNone DEF t
<1>5. CASE n # 0
  <2> HIDE DEF t
  <2>1. PICK g : Joins(g, t) /\ FlattenSeq(t) = g[n]
    BY <1>3, <1>5, JoinedUp
  <2>2. g[1] = t[1] /\ \A i \in 2..n : g[i] = g[i - 1] \o t[i]
    <3>1. n > 0 /\ Len(t) = n
      BY <1>3, <1>5
    <3> HIDE DEF n
    <3>2. \A m \in Nat : Len(t) = m => (m > 0 => g[1] = t[1]) /\ \A i \in 2..m : g[i] = g[i - 1] \o t[i]
      BY <2>1, JoinSteps, Zenon
    <3> QED
      BY <1>3, <3>1, <3>2, Zenon
  <2>3. \A i \in 1..n : g[i] \in Seq(X)
    BY <1>3, <2>1, JoinedRows
  <2> HIDE DEF n
  <2> DEFINE G == {i \in 0..n : i > 0 => f[i + 1] = s[1] \o g[i]}
  <2>4. ASSUME NEW i \in 0..n, i > 0 => i - 1 \in G PROVE i \in G
    <3>1. CASE i = 0
      BY <3>1
    <3>2. CASE i = 1
      <4>1. 2 \in 2..n + 1 /\ 1 \in 1..n /\ 1 + 1 = 2 /\ 2 - 1 = 1
        BY <1>3, <1>5
      <4>2. f[2] = f[2 - 1] \o s[2] /\ t[1] = s[1 + 1]
        BY <1>2, <1>3, <4>1
      <4>3. f[1 + 1] = s[1] \o g[1]
        BY <1>2, <2>2, <4>1, <4>2
      <4> QED
        BY <2>4, <3>2, <4>3
    <3>3. CASE i > 1
      <4>0. i \in 1..n /\ i \in 2..n /\ i - 1 \in 1..n /\ i - 1 \in 0..n /\ i + 1 \in 2..n + 1
            /\ (i + 1) - 1 = i /\ (i - 1) + 1 = i /\ i > 0 /\ i - 1 > 0
        BY <1>3, <2>4, <3>3
      <4>1. f[(i - 1) + 1] = s[1] \o g[i - 1]
        <5>1. i - 1 \in G
          BY <2>4, <4>0
        <5> QED
          BY <4>0, <5>1
      <4>2. f[i + 1] = f[i] \o s[i + 1]
        BY <1>2, <4>0
      <4>3. t[i] = s[i + 1] /\ g[i] = g[i - 1] \o t[i]
        BY <1>3, <2>2, <4>0
      <4>4. g[i - 1] \in Seq(X) /\ s[i + 1] \in Seq(X)
        <5>1. i + 1 \in 1..n + 1
          BY <4>0
        <5> QED
          BY <1>3, <2>3, <4>0, <5>1, Zenon
      <4>5. (s[1] \o g[i - 1]) \o s[i + 1] = s[1] \o (g[i - 1] \o s[i + 1])
        BY <1>3, <1>j, <4>4
      <4> QED
        <5>1. f[i + 1] = s[1] \o g[i]
          <6>1. f[i] = s[1] \o g[i - 1]
            BY <4>0, <4>1
          <6> QED
            BY <4>2, <4>3, <4>5, <6>1, Zenon
        <5> QED
          BY <2>4, <5>1
    <3>4. i = 0 \/ i = 1 \/ i > 1
      BY <1>3
    <3> QED
      BY <3>1, <3>2, <3>3, <3>4
  <2>5. \A i \in 0..n : i \in G
    <3> HIDE DEF G
    <3> QED
      BY <1>3, <2>4, NumberInduction
  <2>6. f[n + 1] = s[1] \o g[n]
    <3>0. n \in 0..n /\ n > 0
      BY <1>3, <1>5
    <3>1. n \in G
      <4> HIDE DEF G
      <4> QED
        BY <2>5, <3>0
    <3> QED
      BY <3>0, <3>1
  <2> QED
    BY <1>1, <2>1, <2>6 DEF t
<1> QED
  BY <1>4, <1>5

-----------------------------------------------------------------------------
(* The rows of a query, each once.                                         *)
LEMMA RowsInOrder ==
  ASSUME NEW those \in SUBSET Nat, IsFiniteSet(those), NEW descending
  PROVE  /\ InOrder(those, descending) \in Seq(those)
         /\ IsInjective(InOrder(those, descending))
         /\ Len(InOrder(those, descending)) = Cardinality(those)
<1> DEFINE B(r) == {o \in those : IF descending THEN o > r ELSE o < r}
           N == Cardinality(those)
           rank == [r \in those |-> Cardinality(B(r))]
<1>0. N \in Nat
  BY FS_CardinalityType
<1>1. ASSUME NEW r \in those PROVE IsFiniteSet(B(r)) /\ Cardinality(B(r)) \in 0..N - 1
  <2>1. B(r) \in SUBSET those /\ r \notin B(r) /\ B(r) # those
    OBVIOUS
  <2> HIDE DEF B
  <2>2. IsFiniteSet(B(r)) /\ Cardinality(B(r)) <= N /\ Cardinality(B(r)) # N
    BY <2>1, FS_Subset
  <2>3. Cardinality(B(r)) \in Nat
    BY <2>2, FS_CardinalityType
  <2> QED
    BY <1>0, <2>2, <2>3
<1>2. ASSUME NEW r \in those, NEW q \in those, r # q PROVE Cardinality(B(r)) # Cardinality(B(q))
  <2>1. \/ B(r) \in SUBSET B(q) /\ B(r) # B(q)
        \/ B(q) \in SUBSET B(r) /\ B(q) # B(r)
    <3>1. r \in Nat /\ q \in Nat /\ r \notin B(r) /\ q \notin B(q)
      OBVIOUS
    <3>2. CASE q \in B(r)
      <4>1. ASSUME NEW o \in B(q) PROVE o \in B(r)
        <5>1. o \in those /\ o \in Nat
          OBVIOUS
        <5> QED
          BY <3>1, <3>2, <4>1, <5>1
      <4> QED
        BY <3>1, <3>2, <4>1
    <3>3. CASE q \notin B(r)
      <4>1. r \in B(q)
        BY <1>2, <3>1, <3>3
      <4>2. ASSUME NEW o \in B(r) PROVE o \in B(q)
        <5>1. o \in those /\ o \in Nat
          OBVIOUS
        <5> QED
          BY <3>1, <4>1, <4>2, <5>1
      <4> QED
        BY <3>1, <4>1, <4>2
    <3> QED
      BY <3>2, <3>3
  <2> HIDE DEF B
  <2> QED
    BY <1>1, <2>1, FS_Subset
<1>3. rank \in Injection(those, 0..N - 1)
  <2>1. rank \in [those -> 0..N - 1]
    BY <1>1
  <2>2. \A r, q \in those : rank[r] = rank[q] => r = q
    BY <1>2
  <2> HIDE DEF rank
  <2> QED
    BY <2>1, <2>2 DEF Injection, IsInjective
<1>4. rank \in Surjection(those, 0..N - 1)
  <2>1. IsFiniteSet(0..N - 1) /\ Cardinality(0..N - 1) = N
    <3> HIDE DEF N
    <3>1. N - 1 \in Int /\ (0 > N - 1 => N = 0) /\ (N - 1) - 0 + 1 = N
      BY <1>0
    <3> QED
      BY <3>1, FS_Interval
  <2> HIDE DEF rank
  <2> QED
    BY <1>3, <2>1, FS_Injection
<1>5. \A i \in 1..N : \E r \in those : Cardinality(B(r)) = i - 1
  <2>1. ASSUME NEW i \in 1..N PROVE \E r \in those : Cardinality(B(r)) = i - 1
    <3>1. i - 1 \in 0..N - 1
      BY <1>0
    <3>2. \E r \in those : rank[r] = i - 1
      <4> HIDE DEF rank, N, B
      <4> QED
        BY <1>4, <3>1 DEF Surjection
    <3> QED
      BY <3>2
  <2> QED
    BY <2>1
<1> DEFINE F == [i \in 1..N |-> CHOOSE r \in those : Cardinality(B(r)) = i - 1]
<1>6. F = InOrder(those, descending)
  BY Zenon DEF InOrder
<1>7. \A i \in 1..N : F[i] \in those /\ Cardinality(B(F[i])) = i - 1
  <2> HIDE DEF B
  <2> QED
    BY <1>5
<1>8. DOMAIN F = 1..N
  OBVIOUS
<1>9. F \in Seq(those) /\ Len(F) = N
  <2>1. F \in [1..N -> those]
    <3> HIDE DEF N, B
    <3> QED
      BY <1>5
  <2> HIDE DEF F, N
  <2> QED
    BY <1>0, <1>8, <2>1
<1>10. IsInjective(F)
  <2> HIDE DEF F, B, N
  <2> QED
    BY <1>0, <1>7, <1>8 DEF IsInjective
<1> QED
  BY <1>6, <1>9, <1>10

(* A part of a sequence, place by place.                                   *)
LEMMA Slice ==
  ASSUME NEW X, NEW s \in Seq(X), NEW a \in Nat, NEW b \in Nat, b <= Len(s)
  PROVE  /\ SubSeq(s, a + 1, b) \in Seq(X)
         /\ Len(SubSeq(s, a + 1, b)) = IF a <= b THEN b - a ELSE 0
         /\ \A i \in 1..Len(SubSeq(s, a + 1, b)) :
              SubSeq(s, a + 1, b)[i] = s[a + i] /\ a + i \in 1..Len(s)
OBVIOUS

(* A part of rows that differ has rows that differ.                        *)
LEMMA SliceOnce ==
  ASSUME NEW X, NEW s \in Seq(X), IsInjective(s), NEW a \in Nat, NEW b \in Nat, b <= Len(s)
  PROVE  /\ IsInjective(SubSeq(s, a + 1, b))
         /\ ToSet(SubSeq(s, a + 1, b)) \subseteq ToSet(s)
<1> DEFINE p == SubSeq(s, a + 1, b)
<1>1. /\ p \in Seq(X)
      /\ \A i \in 1..Len(p) : p[i] = s[a + i] /\ a + i \in 1..Len(s)
  BY Slice
<1> HIDE DEF p
<1>2. DOMAIN p = 1..Len(p) /\ DOMAIN s = 1..Len(s)
  BY <1>1
<1>3. \A i, j \in 1..Len(p) : p[i] = p[j] => i = j
  <2> SUFFICES ASSUME NEW i \in 1..Len(p), NEW j \in 1..Len(p), p[i] = p[j] PROVE i = j
    OBVIOUS
  <2>1. s[a + i] = s[a + j] /\ a + i \in 1..Len(s) /\ a + j \in 1..Len(s)
    BY <1>1
  <2>2. a + i = a + j
    BY <1>2, <2>1 DEF IsInjective
  <2> QED
    BY <2>2
<1>4. \A i \in 1..Len(p) : p[i] \in ToSet(s)
  BY <1>1, <1>2 DEF ToSet
<1>5. IsInjective(p) /\ ToSet(p) \subseteq ToSet(s)
  BY <1>2, <1>3, <1>4 DEF IsInjective, ToSet
<1> QED
  BY <1>5 DEF p

(* Nor does a row come twice when a page brings others.                    *)
LEMMA JoinedOnce ==
  ASSUME NEW X, NEW s \in Seq(X), NEW t \in Seq(X), IsInjective(s), IsInjective(t),
         ToSet(s) \cap ToSet(t) = {}
  PROVE  IsInjective(s \o t) /\ ToSet(s \o t) = ToSet(s) \cup ToSet(t)
<1> DEFINE p == s \o t
<1>1. /\ DOMAIN s = 1..Len(s) /\ DOMAIN t = 1..Len(t) /\ DOMAIN p = 1..Len(s) + Len(t)
      /\ Len(s) \in Nat /\ Len(t) \in Nat
      /\ \A i \in 1..Len(s) : p[i] = s[i]
      /\ \A i \in 1..Len(t) : p[Len(s) + i] = t[i]
  OBVIOUS
<1>2. \A i \in DOMAIN p : \/ i \in DOMAIN s /\ p[i] = s[i]
                          \/ /\ i - Len(s) \in DOMAIN t /\ p[i] = t[i - Len(s)]
  <2> HIDE DEF p
  <2> SUFFICES ASSUME NEW i \in DOMAIN p, i \notin DOMAIN s
               PROVE  i - Len(s) \in DOMAIN t /\ p[i] = t[i - Len(s)]
    BY <1>1
  <2>1. i - Len(s) \in 1..Len(t) /\ Len(s) + (i - Len(s)) = i
    BY <1>1
  <2>2. p[Len(s) + (i - Len(s))] = t[i - Len(s)]
    BY <1>1, <2>1, Zenon
  <2> QED
    BY <1>1, <2>1, <2>2
<1> HIDE DEF p
<1>3. \A i \in DOMAIN s : s[i] \in ToSet(s)
  BY DEF ToSet
<1>4. \A i \in DOMAIN t : t[i] \in ToSet(t)
  BY DEF ToSet
<1>5. IsInjective(p)
  <2> SUFFICES ASSUME NEW i \in DOMAIN p, NEW j \in DOMAIN p, p[i] = p[j] PROVE i = j
    BY DEF IsInjective
  <2>1. CASE i \in DOMAIN s /\ p[i] = s[i] /\ j \in DOMAIN s /\ p[j] = s[j]
    BY <2>1 DEF IsInjective
  <2>2. CASE /\ i - Len(s) \in DOMAIN t /\ p[i] = t[i - Len(s)]
             /\ j - Len(s) \in DOMAIN t /\ p[j] = t[j - Len(s)]
    <3>1. i - Len(s) = j - Len(s)
      BY <2>2 DEF IsInjective
    <3> QED
      BY <1>1, <3>1
  <2>3. ~(/\ i \in DOMAIN s /\ p[i] = s[i] /\ j - Len(s) \in DOMAIN t /\ p[j] = t[j - Len(s)])
    BY <1>3, <1>4
  <2>4. ~(/\ j \in DOMAIN s /\ p[j] = s[j] /\ i - Len(s) \in DOMAIN t /\ p[i] = t[i - Len(s)])
    BY <1>3, <1>4
  <2> QED
    BY <1>2, <2>1, <2>2, <2>3, <2>4
<1>6. ToSet(p) \subseteq ToSet(s) \cup ToSet(t)
  <2>1. \A i \in DOMAIN p : p[i] \in ToSet(s) \cup ToSet(t)
    BY <1>2, <1>3, <1>4
  <2> QED
    BY <2>1 DEF ToSet
<1>7. ToSet(s) \cup ToSet(t) \subseteq ToSet(p)
  <2>1. \A i \in 1..Len(s) : i \in DOMAIN p
    BY <1>1
  <2>2. \A i \in 1..Len(t) : Len(s) + i \in DOMAIN p
    BY <1>1
  <2>3. \A i \in DOMAIN s : s[i] \in ToSet(p)
    BY <1>1, <2>1 DEF ToSet
  <2>4. \A i \in DOMAIN t : t[i] \in ToSet(p)
    BY <1>1, <2>2 DEF ToSet
  <2> QED
    BY <2>3, <2>4 DEF ToSet
<1> QED
  BY <1>5, <1>6, <1>7 DEF p

(* No more rows are shown once each than there are.                        *)
LEMMA OnceFits ==
  ASSUME NEW those, IsFiniteSet(those), NEW s \in Seq(those), IsInjective(s)
  PROVE  Len(s) \in 0..Cardinality(those)
<1>1. s \in [1..Len(s) -> those] /\ Len(s) \in Nat
  OBVIOUS
<1>2. s \in Injection(1..Len(s), those)
  BY <1>1 DEF Injection
<1>3. Cardinality(1..Len(s)) = Len(s) /\ Cardinality(those) \in Nat
  <2>1. 1 \in Int /\ Len(s) \in Int /\ (1 > Len(s) => Len(s) = 0) /\ Len(s) - 1 + 1 = Len(s)
    BY <1>1
  <2> QED
    BY <2>1, FS_Interval, FS_CardinalityType
<1>4. Cardinality(1..Len(s)) <= Cardinality(those)
  BY <1>2, FS_Injection
<1> QED
  BY <1>1, <1>3, <1>4

(* The rows of a query are rows of the table, filtered as it says.         *)
LEMMA ResultRows ==
  ASSUME NEW T \in SUBSET Rows, NEW r
  PROVE  /\ Result(T, r) \in Seq(Rows) /\ Len(Result(T, r)) \in Nat
         /\ IsInjective(Result(T, r))
         /\ r.filtered => ToSet(Result(T, r)) \subseteq Matching
<1> DEFINE those == IF r.filtered THEN T \cap Matching ELSE T
<1>1. those \in SUBSET Rows /\ those \in SUBSET Nat /\ IsFiniteSet(those)
  BY ListAssumption, FS_Subset
<1>2. r.filtered => those \subseteq Matching
  OBVIOUS
<1>3. Result(T, r) = InOrder(those, r.descending)
  BY DEF Result
<1> HIDE DEF those
<1> DEFINE R == InOrder(those, r.descending)
<1>4. R \in Seq(those) /\ IsInjective(R)
  BY <1>1, RowsInOrder
<1> HIDE DEF R
<1>5. R \in Seq(Rows) /\ Len(R) \in Nat
  <2>1. R \in [1..Len(R) -> those] /\ Len(R) \in Nat
    BY <1>4
  <2>2. R \in [1..Len(R) -> Rows]
    BY <1>1, <2>1
  <2> QED
    BY <2>1, <2>2
<1>6. ToSet(R) \subseteq those
  BY <1>4 DEF ToSet
<1> QED
  BY <1>2, <1>3, <1>4, <1>5, <1>6 DEF R

(* What is shown and the next page of the same rows are the rows without   *)
(* those that were dropped.                                                *)
LEMMA WindowMoves ==
  ASSUME NEW X, NEW all \in Seq(X), NEW n \in 0..Len(all), NEW e \in n..Len(all), NEW d \in 0..e
  PROVE  SubSeq(SubSeq(all, 1, n) \o SubSeq(all, n + 1, e), d + 1, e) = SubSeq(all, d + 1, e)
<1> DEFINE s == SubSeq(all, 0 + 1, n)
           t == SubSeq(all, n + 1, e)
           p == s \o t
           l == SubSeq(p, d + 1, e)
           m == SubSeq(all, d + 1, e)
<1>0. Len(all) \in Nat /\ n \in Nat /\ e \in Nat /\ d \in Nat
  OBVIOUS
<1>1. s \in Seq(X) /\ Len(s) = n /\ \A i \in 1..n : s[i] = all[0 + i]
  BY <1>0, Slice
<1>2. t \in Seq(X) /\ Len(t) = e - n /\ \A i \in 1..e - n : t[i] = all[n + i]
  BY <1>0, Slice
<1>3. m \in Seq(X) /\ Len(m) = e - d /\ \A i \in 1..e - d : m[i] = all[d + i]
  BY <1>0, Slice
<1> HIDE DEF s, t, m
<1>4. p \in Seq(X) /\ Len(p) = e
  <2>1. p \in Seq(X) /\ Len(p) = Len(s) + Len(t)
    <3>1. s \in Seq(X) /\ t \in Seq(X)
      BY <1>1, <1>2
    <3> QED
      BY <3>1
  <2> HIDE DEF p
  <2> QED
    BY <1>0, <1>1, <1>2, <2>1
<1>5. \A i \in 1..e : p[i] = all[i]
  <2> SUFFICES ASSUME NEW i \in 1..e PROVE p[i] = all[i]
    OBVIOUS
  <2>1. CASE i <= n
    BY <1>0, <1>1, <1>2, <2>1
  <2>2. CASE i > n
    <3>1. i - n \in 1..e - n /\ n + (i - n) = i
      BY <1>0, <2>2
    <3>2. p[i] = t[i - n]
      BY <1>0, <1>1, <1>2, <2>2
    <3>3. t[i - n] = all[n + (i - n)]
      BY <1>2, <3>1
    <3> QED
      BY <3>1, <3>2, <3>3
  <2>3. i <= n \/ i > n
    BY <1>0
  <2> QED
    BY <2>1, <2>2, <2>3
<1> HIDE DEF p
<1>6. l \in Seq(X) /\ Len(l) = e - d /\ \A i \in 1..e - d : l[i] = p[d + i] /\ d + i \in 1..e
  BY <1>0, <1>4, Slice
<1> HIDE DEF l
<1>7. \A i \in 1..e - d : l[i] = m[i]
  BY <1>3, <1>5, <1>6
<1>8. l = m
  BY <1>0, <1>3, <1>6, <1>7
<1>9. SubSeq(all, 1, n) = s
  BY DEF s
<1> QED
  BY <1>8, <1>9 DEF l, m, p, t

(* Of a window that has moved the next page is no more to be had: it       *)
(* begins with a row that is shown.                                        *)
LEMMA WindowStays ==
  ASSUME NEW X, NEW all \in Seq(X), NEW n \in Nat, NEW start \in 1..n, start + n < Len(all),
         NEW e \in n + 1..Len(all)
  PROVE  ToSet(SubSeq(all, n + 1, e)) \cap ToSet(SubSeq(all, start + 1, start + n)) # {}
<1> DEFINE s == SubSeq(all, start + 1, start + n)
           t == SubSeq(all, n + 1, e)
<1>0. Len(all) \in Nat /\ start \in Nat /\ start + n \in Nat /\ e \in Nat /\ e <= Len(all)
      /\ start + n <= Len(all)
  OBVIOUS
<1>1. s \in Seq(X) /\ Len(s) = n /\ \A i \in 1..n : s[i] = all[start + i]
  <2>1. s \in Seq(X) /\ Len(s) = IF start <= start + n THEN (start + n) - start ELSE 0
    BY <1>0, Slice
  <2>2. \A i \in 1..Len(s) : s[i] = all[start + i]
    BY <1>0, Slice
  <2> HIDE DEF s
  <2> QED
    BY <1>0, <2>1, <2>2
<1>2. t \in Seq(X) /\ Len(t) = e - n /\ \A i \in 1..e - n : t[i] = all[n + i]
  BY <1>0, Slice
<1> HIDE DEF s, t
<1>3. t[1] = all[n + 1] /\ 1 \in DOMAIN t
  BY <1>0, <1>2
<1>4. n + 1 - start \in 1..n /\ start + (n + 1 - start) = n + 1
  BY <1>0
<1>5. s[n + 1 - start] = all[start + (n + 1 - start)] /\ n + 1 - start \in DOMAIN s
  BY <1>1, <1>4
<1>6. t[1] = s[n + 1 - start]
  BY <1>3, <1>4, <1>5
<1>7. t[1] \in ToSet(t)
  BY <1>3 DEF ToSet
<1>8. s[n + 1 - start] \in ToSet(s)
  BY <1>5 DEF ToSet
<1>9. ToSet(t) \cap ToSet(s) # {}
  BY <1>6, <1>7, <1>8
<1> QED
  BY <1>9 DEF s, t

AnswerSet == [generation : 0..MaxGeneration, rows : Seq(Rows), more : BOOLEAN, failed : BOOLEAN]

(* What the list keeps is of the right kind, and its screen is loading     *)
(* exactly while a page is asked for.                                      *)
ListTyped ==
  /\ table \subseteq Rows /\ written \in BOOLEAN /\ hasMore \in BOOLEAN
  /\ query \in Requests /\ asked \subseteq Requests
  /\ pages \in Seq(Seq(Rows)) /\ answers \in Seq(AnswerSet)
  /\ inFlight \in {<<>>, <<query>>}
  /\ view = "loading" <=> inFlight # <<>>
  /\ hasMore /\ inFlight = <<>> => view = "ready"
  /\ inFlight # <<>> => query.offset = Len(Shown)

(* The screen shows the pages kept, no row twice, and of a filtered query  *)
(* only what the filter lets through.                                      *)
ScreenHolds ==
  /\ \A i \in 1..Len(pages) : Len(pages[i]) <= PageRows
  /\ Len(pages) <= MaxPages
  /\ model = Shown /\ IsInjective(Shown)
  /\ selected \subseteq ToSet(Shown)
  /\ query.filtered => ToSet(Shown) \subseteq Matching

(* At most one request of the query in force waits for its answer, or its  *)
(* answer for its turn, and then the list waits for it.                    *)
OneAnswerDue ==
  /\ \A r \in asked :
       /\ r.generation <= query.generation
       /\ r.generation = query.generation =>
            /\ r = query /\ inFlight # <<>>
            /\ \A i \in 1..Len(answers) : answers[i].generation # query.generation
  /\ \A i \in 1..Len(answers) :
       /\ answers[i].generation <= query.generation
       /\ answers[i].generation = query.generation =>
            /\ inFlight # <<>>
            /\ \A j \in 1..Len(answers) : answers[j].generation = query.generation => j = i

(* What an answer brings: no row twice, no more than a page, and if the    *)
(* table is as it was what the query has there.                            *)
AnswerFits(a) ==
  /\ IsInjective(a.rows) /\ Len(a.rows) <= PageRows
  /\ a.generation = query.generation =>
       /\ query.filtered => ToSet(a.rows) \subseteq Matching
       /\ ~written => a \in {Answer(query), Failure(query)}

AnswersFit == \A i \in 1..Len(answers) : AnswerFits(answers[i])

(* What is shown begins after so many rows of the query.  Once rows were   *)
(* dropped, the next page begins with a row that is shown.                 *)
BeginsAt(start) ==
  LET all == Result(table, query)
  IN  /\ Shown = SubSeq(all, start + 1, start + Len(Shown))
      /\ view = "ready" => (hasMore <=> start + Len(Shown) < Len(all))
      /\ start > 0 /\ (hasMore \/ inFlight # <<>>) =>
           start <= Len(Shown) /\ start + Len(Shown) < Len(all)

WindowFits ==
  ~written => \E start \in 0..Len(Result(table, query)) - Len(Shown) : BeginsAt(start)

ListInv == ListTyped /\ ScreenHolds /\ OneAnswerDue /\ AnswersFit /\ WindowFits

-----------------------------------------------------------------------------
(* The page an answer brings: where it begins and ends among the rows.     *)
LEMMA PageOfAnswer ==
  ASSUME table \subseteq Rows, NEW r \in Requests
  PROVE  LET all == Result(table, r)
             end == IF r.offset + PageRows < Len(all) THEN r.offset + PageRows ELSE Len(all)
         IN  /\ all \in Seq(Rows) /\ Len(all) \in Nat /\ r.offset \in Nat
             /\ end \in 0..Len(all) /\ end <= r.offset + PageRows
             /\ Answer(r).rows = SubSeq(all, r.offset + 1, end)
             /\ Answer(r).rows \in Seq(Rows)
             /\ Len(Answer(r).rows) = IF r.offset <= end THEN end - r.offset ELSE 0
             /\ IsInjective(Answer(r).rows)
             /\ ToSet(Answer(r).rows) \subseteq ToSet(all)
             /\ Answer(r).more = (Len(all) > r.offset + PageRows)
             /\ Answer(r).generation = r.generation /\ Answer(r).failed = FALSE
<1> DEFINE all == Result(table, r)
           end == IF r.offset + PageRows < Len(all) THEN r.offset + PageRows ELSE Len(all)
<1>1. all \in Seq(Rows) /\ Len(all) \in Nat /\ IsInjective(all)
  BY ResultRows
<1>2. r.offset \in Nat /\ PageRows \in Nat
  BY ListAssumption, FS_CardinalityType DEF Requests
<1>3. /\ Answer(r).rows = SubSeq(all, r.offset + 1, end)
      /\ Answer(r).more = (Len(all) > r.offset + PageRows)
      /\ Answer(r).generation = r.generation /\ Answer(r).failed = FALSE
  BY DEF Answer
<1> HIDE DEF all
<1>4. end \in 0..Len(all) /\ end <= r.offset + PageRows /\ end \in Nat /\ end <= Len(all)
  BY <1>1, <1>2
<1> HIDE DEF end
<1> DEFINE p == SubSeq(all, r.offset + 1, end)
<1>5. p \in Seq(Rows) /\ Len(p) = IF r.offset <= end THEN end - r.offset ELSE 0
  BY <1>1, <1>2, <1>4, Slice
<1>6. IsInjective(p) /\ ToSet(p) \subseteq ToSet(all)
  BY <1>1, <1>2, <1>4, SliceOnce
<1> HIDE DEF p
<1>7. Answer(r).rows = p
  BY <1>3 DEF p
<1> QED
  BY <1>1, <1>2, <1>3, <1>4, <1>5, <1>6, <1>7 DEF all, end

(* Whatever is answered fits the query it answers.                         *)
LEMMA AnswersOfRequests ==
  ASSUME table \subseteq Rows, NEW r \in Requests, NEW a \in {Answer(r), Failure(r)}
  PROVE  /\ a \in AnswerSet /\ a.generation = r.generation
         /\ IsInjective(a.rows) /\ Len(a.rows) <= PageRows
         /\ r.filtered => ToSet(a.rows) \subseteq Matching
<1>0. PageRows \in Nat /\ r.generation \in 0..MaxGeneration
  BY ListAssumption DEF Requests
<1>1. CASE a = Answer(r)
  <2>1. /\ a.rows \in Seq(Rows) /\ a.generation = r.generation
        /\ IsInjective(a.rows) /\ ToSet(a.rows) \subseteq ToSet(Result(table, r))
    BY <1>1, PageOfAnswer
  <2>2. Len(a.rows) <= PageRows
    <3> DEFINE n == Len(Result(table, r))
               end == IF r.offset + PageRows < n THEN r.offset + PageRows ELSE n
    <3>1. /\ n \in Nat /\ r.offset \in Nat /\ end \in 0..n /\ end <= r.offset + PageRows
          /\ Len(Answer(r).rows) = IF r.offset <= end THEN end - r.offset ELSE 0
      BY PageOfAnswer
    <3> HIDE DEF n, end
    <3> QED
      BY <1>0, <1>1, <3>1
  <2>3. a \in AnswerSet
    <3>1. /\ a = [generation |-> r.generation, rows |-> a.rows, more |-> a.more, failed |-> FALSE]
          /\ a.more \in BOOLEAN
      BY <1>1 DEF Answer
    <3> QED
      <4>1. \A g \in 0..MaxGeneration, x \in Seq(Rows), m \in BOOLEAN :
              [generation |-> g, rows |-> x, more |-> m, failed |-> FALSE] \in AnswerSet
        BY DEF AnswerSet
      <4> QED
        BY <1>0, <2>1, <3>1, <4>1, Zenon
  <2>4. r.filtered => ToSet(Result(table, r)) \subseteq Matching
    BY ResultRows
  <2> QED
    BY <2>1, <2>2, <2>3, <2>4
<1>2. CASE a = Failure(r)
  <2>1. /\ a = [generation |-> r.generation, rows |-> <<>>, more |-> FALSE, failed |-> TRUE]
        /\ a.rows = <<>> /\ a.generation = r.generation
    BY <1>2 DEF Failure
  <2>2. a \in AnswerSet
    BY <1>0, <2>1 DEF AnswerSet
  <2>3. IsInjective(<<>>) /\ ToSet(<<>>) = {} /\ Len(<<>>) = 0
    BY DEF IsInjective, ToSet
  <2> QED
    BY <1>0, <2>1, <2>2, <2>3
<1> QED
  BY <1>1, <1>2

(* What the cache keeps with another page: the rows shown and the new ones,*)
(* but for those of the page it drops.                                     *)
LEMMA KeptRows ==
  ASSUME pages \in Seq(Seq(Rows)), NEW rows \in Seq(Rows), Len(rows) <= PageRows,
         \A i \in 1..Len(pages) : Len(pages[i]) <= PageRows, Len(pages) <= MaxPages
  PROVE  /\ Kept(rows) \in Seq(Seq(Rows)) /\ Len(Kept(rows)) <= MaxPages
         /\ \A i \in 1..Len(Kept(rows)) : Len(Kept(rows)[i]) <= PageRows
         /\ \E d \in 0..PageRows :
              /\ d <= Len(Shown) /\ d <= Len(Shown \o rows)
              /\ FlattenSeq(Kept(rows)) = SubSeq(Shown \o rows, d + 1, Len(Shown \o rows))
<1> DEFINE longer == Append(pages, rows)
           sum == Shown \o rows
<1>0. PageRows \in Nat /\ MaxPages \in Nat
  BY ListAssumption
<1>1. Shown \in Seq(Rows)
  BY FlatType DEF Shown
<1>2. sum \in Seq(Rows) /\ Len(sum) \in Nat
  <2> HIDE DEF Shown
  <2> QED
    BY <1>1
<1>3. FlattenSeq(longer) = sum
  BY FlatOfMore DEF Shown
<1>4. /\ longer \in Seq(Seq(Rows)) /\ Len(longer) = Len(pages) + 1 /\ Len(pages) \in Nat
      /\ \A i \in 1..Len(longer) : Len(longer[i]) <= PageRows
  <2>1. longer \in Seq(Seq(Rows)) /\ Len(longer) = Len(pages) + 1 /\ Len(pages) \in Nat
    OBVIOUS
  <2>2. longer[Len(pages) + 1] = rows /\ \A i \in 1..Len(pages) : longer[i] = pages[i]
    OBVIOUS
  <2> HIDE DEF longer
  <2>3. \A i \in 1..Len(longer) : i \in 1..Len(pages) \/ i = Len(pages) + 1
    BY <2>1
  <2> QED
    BY <2>1, <2>2, <2>3
<1>5. CASE Len(longer) > MaxPages
  <2>1. Kept(rows) = Tail(longer)
    BY <1>5 DEF Kept
  <2> HIDE DEF longer, sum
  <2>2. /\ Tail(longer) \in Seq(Seq(Rows)) /\ Len(Tail(longer)) = Len(longer) - 1
        /\ \A i \in 1..Len(longer) - 1 : Tail(longer)[i] = longer[i + 1]
    BY <1>0, <1>4, <1>5
  <2>3. \A i \in 1..Len(Tail(longer)) : Len(Tail(longer)[i]) <= PageRows
    <3> SUFFICES ASSUME NEW i \in 1..Len(Tail(longer)) PROVE Len(Tail(longer)[i]) <= PageRows
      OBVIOUS
    <3>1. i \in 1..Len(longer) - 1 /\ i + 1 \in 1..Len(longer)
      BY <1>4, <2>2
    <3> QED
      BY <1>4, <2>2, <3>1
  <2>4. sum = longer[1] \o FlattenSeq(Tail(longer))
    <3>1. Len(longer) # 0
      BY <1>4
    <3>2. FlattenSeq(longer) = longer[1] \o FlattenSeq(Tail(longer))
      BY <1>4, <3>1, FlatOfTail
    <3> QED
      BY <1>3, <3>2
  <2> DEFINE rest == FlattenSeq(Tail(longer))
             d == Len(longer[1])
  <2>5. rest \in Seq(Rows)
    BY <2>2, FlatType
  <2>6. longer[1] \in Seq(Rows) /\ d \in 0..PageRows
    <3>1. 1 \in 1..Len(longer)
      BY <1>4
    <3>2. longer[1] \in Seq(Rows) /\ Len(longer[1]) <= PageRows
      BY <1>4, <3>1
    <3> QED
      BY <1>0, <3>2
  <2>7. /\ Len(sum) = d + Len(rest) /\ d \in Nat /\ Len(rest) \in Nat
        /\ \A i \in 1..Len(rest) : sum[d + i] = rest[i]
    <3> HIDE DEF rest
    <3>1. Len(longer[1] \o rest) = Len(longer[1]) + Len(rest)
      BY <2>5, <2>6
    <3>2. \A i \in 1..Len(rest) : (longer[1] \o rest)[Len(longer[1]) + i] = rest[i]
      BY <2>5, <2>6
    <3> QED
      BY <2>4, <2>5, <2>6, <3>1, <3>2 DEF rest
  <2>8. rest = SubSeq(sum, d + 1, Len(sum))
    <3> HIDE DEF rest, d
    <3> DEFINE p == SubSeq(sum, d + 1, Len(sum))
    <3>1. p \in Seq(Rows) /\ Len(p) = IF d <= Len(sum) THEN Len(sum) - d ELSE 0
      BY <1>2, <2>7, Slice
    <3>2. \A i \in 1..Len(p) : p[i] = sum[d + i]
      BY <1>2, <2>7, Slice
    <3> HIDE DEF p
    <3>3. Len(p) = Len(rest)
      BY <2>7, <3>1
    <3>4. \A i \in 1..Len(rest) : p[i] = rest[i]
      BY <2>7, <3>2, <3>3
    <3>5. rest = p
      BY <2>5, <3>1, <3>3, <3>4
    <3> QED
      BY <3>5 DEF p
  <2>9. d \in 0..PageRows /\ d <= Len(sum)
    BY <2>6, <2>7
  <2>10. Len(Tail(longer)) <= MaxPages
    BY <1>0, <1>4, <2>2
  <2>12. d <= Len(Shown)
    <3>1. Len(pages) # 0 /\ longer[1] = pages[1] /\ pages[1] \in Seq(Rows)
      <4>1. Len(pages) # 0 /\ 1 \in 1..Len(pages)
        BY <1>0, <1>4, <1>5, ListAssumption
      <4> QED
        BY <4>1 DEF longer
    <3>2. Shown = pages[1] \o FlattenSeq(Tail(pages))
      BY <3>1, FlatOfTail DEF Shown
    <3>3. FlattenSeq(Tail(pages)) \in Seq(Rows)
      <4>1. Tail(pages) \in Seq(Seq(Rows))
        BY <3>1
      <4> QED
        BY <4>1, FlatType
    <3>4. Len(pages[1] \o FlattenSeq(Tail(pages))) = Len(pages[1]) + Len(FlattenSeq(Tail(pages)))
      BY <3>1, <3>3
    <3>5. Len(pages[1]) \in Nat /\ Len(FlattenSeq(Tail(pages))) \in Nat
      BY <3>1, <3>3
    <3> QED
      BY <3>1, <3>2, <3>4, <3>5
  <2>11. \E k \in 0..PageRows : /\ k <= Len(Shown) /\ k <= Len(sum)
                                /\ rest = SubSeq(sum, k + 1, Len(sum))
    <3> HIDE DEF rest, d
    <3> QED
      BY <2>8, <2>9, <2>12
  <2> QED
    BY <2>1, <2>2, <2>3, <2>10, <2>11 DEF sum
<1>6. CASE ~(Len(longer) > MaxPages)
  <2>1. Kept(rows) = longer
    BY <1>6 DEF Kept
  <2> HIDE DEF longer, sum
  <2>2. sum = SubSeq(sum, 0 + 1, Len(sum))
    BY <1>2
  <2>3. Len(longer) <= MaxPages
    BY <1>0, <1>4, <1>6
  <2>4. 0 \in 0..PageRows /\ 0 <= Len(sum) /\ 0 <= Len(Shown)
    BY <1>0, <1>1, <1>2
  <2>5. \E d \in 0..PageRows : /\ d <= Len(Shown) /\ d <= Len(sum)
                                /\ FlattenSeq(longer) = SubSeq(sum, d + 1, Len(sum))
    BY <1>3, <2>2, <2>4
  <2> QED
    BY <1>4, <2>1, <2>3, <2>5 DEF sum
<1> QED
  BY <1>5, <1>6

LEMMA NoRows ==
  /\ FlattenSeq(<<>>) = <<>> /\ <<>> \in Seq(Seq(Rows)) /\ Len(<<>>) = 0
  /\ IsInjective(<<>>) /\ ToSet(<<>>) = {}
<1>1. <<>> \in Seq(Seq(Rows)) /\ Len(<<>>) = 0 /\ DOMAIN <<>> = {}
  OBVIOUS
<1> QED
  BY <1>1, FlatOfNone DEF IsInjective, ToSet

LEMMA ListBegins == ListInit => ListInv
<1> SUFFICES ASSUME ListInit PROVE ListInv
  OBVIOUS
<1>1. pages = <<>> /\ Shown = <<>> /\ Len(Shown) = 0 /\ Len(pages) = 0
  BY NoRows DEF ListInit, Shown
<1>2. ListTyped
  <2>1. query \in Requests
    <3>1. 0 \in 0..MaxGeneration /\ 0 \in 0..Cardinality(Rows)
      BY ListAssumption, FS_CardinalityType
    <3> QED
      BY <3>1 DEF ListInit, Requests
  <2>2. answers \in Seq(AnswerSet)
    BY DEF ListInit
  <2> QED
    BY <1>1, <2>1, <2>2, NoRows DEF ListInit, ListTyped
<1>3. ScreenHolds
  BY <1>1, NoRows, ListAssumption DEF ListInit, ScreenHolds
<1>4. OneAnswerDue /\ AnswersFit
  BY DEF ListInit, OneAnswerDue, AnswersFit
<1>5. WindowFits
  <2>1. Result(table, query) \in Seq(Rows) /\ Len(Result(table, query)) \in Nat
    BY ResultRows DEF ListInit
  <2> DEFINE all == Result(table, query)
  <2> HIDE DEF all
  <2>2. SubSeq(all, 0 + 1, 0 + 0) = <<>>
    BY <2>1 DEF all
  <2>3. BeginsAt(0)
    BY <1>1, <2>2 DEF BeginsAt, all, ListInit
  <2>4. 0 \in 0..Len(Result(table, query)) - Len(Shown)
    BY <1>1, <2>1
  <2> QED
    BY <2>3, <2>4 DEF WindowFits
<1> QED
  BY <1>2, <1>3, <1>4, <1>5 DEF ListInv

(* An empty screen is a window of whatever query.                          *)
LEMMA EmptyWindow ==
  ASSUME table' \subseteq Rows, Shown' = <<>>, view' # "ready"
  PROVE  WindowFits'
<1>1. Result(table', query') \in Seq(Rows) /\ Len(Result(table', query')) \in Nat
  BY ResultRows
<1> DEFINE all == Result(table', query')
<1> HIDE DEF all
<1>2. SubSeq(all, 0 + 1, 0 + 0) = <<>> /\ Len(<<>>) = 0
  BY <1>1 DEF all
<1>3. BeginsAt(0)'
  BY <1>2 DEF BeginsAt, all
<1>4. 0 \in 0..Len(Result(table', query')) - Len(Shown')
  BY <1>1, <1>2
<1> QED
  BY <1>3, <1>4 DEF WindowFits

(* The query moves on to the next generation: nothing waits for it.        *)
LEMMA NewGeneration ==
  ASSUME ListInv, query'.generation = query.generation + 1, answers' = answers
  PROVE  /\ \A r \in asked : r.generation < query'.generation
         /\ \A i \in 1..Len(answers) : answers[i].generation < query'.generation
         /\ AnswersFit'
<1>0. query.generation \in Nat
  BY ListAssumption DEF ListInv, ListTyped, Requests
<1>1. \A r \in asked : r.generation < query'.generation
  <2>1. \A r \in asked : r.generation \in Nat /\ r.generation <= query.generation
    BY ListAssumption DEF ListInv, ListTyped, Requests, OneAnswerDue
  <2> QED
    BY <1>0, <2>1
<1>2. \A i \in 1..Len(answers) : answers[i].generation \in Nat /\ answers[i].generation < query'.generation
  <2>1. \A i \in 1..Len(answers) : answers[i] \in AnswerSet
    BY DEF ListInv, ListTyped
  <2>2. \A i \in 1..Len(answers) : answers[i].generation \in Nat
    BY <2>1, ListAssumption DEF AnswerSet
  <2>3. \A i \in 1..Len(answers) : answers[i].generation <= query.generation
    BY DEF ListInv, OneAnswerDue
  <2> QED
    BY <1>0, <2>2, <2>3
<1>3. \A i \in 1..Len(answers) : answers[i].generation # query'.generation
  BY <1>0, <1>2
<1>4. AnswersFit'
  BY <1>3 DEF ListInv, AnswersFit, AnswerFits
<1> QED
  BY <1>1, <1>2, <1>4

LEMMA ListRefreshes ==
  ASSUME ListInv, NEW descending \in BOOLEAN, NEW filtered \in BOOLEAN, Refresh(descending, filtered)
  PROVE  ListInv'
<1> USE DEF Refresh, Ask
<1>0. /\ query.generation \in 0..MaxGeneration /\ MaxGeneration \in Nat
      /\ query.generation < MaxGeneration
  BY ListAssumption DEF ListInv, ListTyped, Requests
<1>1. /\ query' = [generation |-> query.generation + 1, offset |-> 0,
                   descending |-> descending, filtered |-> filtered]
      /\ query'.generation = query.generation + 1 /\ query'.offset = 0
      /\ inFlight' = <<query'>> /\ view' = "loading" /\ asked' = asked \cup {query'}
      /\ pages' = <<>> /\ selected' = {} /\ model' = <<>> /\ hasMore' = FALSE /\ written' = FALSE
      /\ table' = table /\ answers' = answers
  OBVIOUS
<1>2. query' \in Requests
  <2>1. query.generation + 1 \in 0..MaxGeneration /\ 0 \in 0..Cardinality(Rows)
    BY <1>0, ListAssumption, FS_CardinalityType
  <2> QED
    BY <1>1, <2>1 DEF Requests
<1>3. Shown' = <<>> /\ Len(Shown') = 0 /\ Len(pages') = 0
  BY <1>1, NoRows DEF Shown
<1>4. inFlight' # <<>>
  BY <1>1
<1> USE DEF ListInv
<1> HIDE DEF Refresh, Ask
<1>5. ListTyped'
  BY <1>1, <1>2, <1>3, <1>4, NoRows DEF ListTyped
<1>6. ScreenHolds'
  BY <1>1, <1>3, NoRows, ListAssumption DEF ScreenHolds
<1>7. /\ \A r \in asked : r.generation < query'.generation
      /\ \A i \in 1..Len(answers) : answers[i].generation < query'.generation
      /\ AnswersFit'
  BY <1>1, NewGeneration
<1>8. OneAnswerDue'
  <2>1. query'.generation \in Nat
    BY <1>0, <1>1
  <2>2. /\ \A r \in asked : r.generation \in Nat
        /\ \A i \in 1..Len(answers) : answers[i].generation \in Nat
    <3>1. \A i \in 1..Len(answers) : answers[i] \in AnswerSet
      BY DEF ListTyped
    <3> QED
      BY <3>1, ListAssumption DEF ListTyped, Requests, AnswerSet
  <2>3. /\ \A r \in asked : r.generation <= query'.generation /\ r.generation # query'.generation
        /\ \A i \in 1..Len(answers) : answers[i].generation <= query'.generation
                                      /\ answers[i].generation # query'.generation
    BY <1>7, <2>1, <2>2
  <2> QED
    BY <1>1, <1>4, <2>1, <2>3 DEF OneAnswerDue
<1>9. WindowFits'
  BY <1>1, <1>3, EmptyWindow DEF ListTyped
<1> QED
  BY <1>5, <1>6, <1>7, <1>8, <1>9

LEMMA ListCancels ==
  ASSUME ListInv, Cancel
  PROVE  ListInv'
<1> USE DEF Cancel
<1>0. /\ query.generation \in 0..MaxGeneration /\ MaxGeneration \in Nat
      /\ query.generation < MaxGeneration /\ query \in Requests
  BY ListAssumption DEF ListInv, ListTyped, Requests
<1>1. /\ query' = [query EXCEPT !.generation = query.generation + 1, !.offset = 0]
      /\ inFlight' = <<>> /\ view' = "idle" /\ asked' = asked
      /\ pages' = <<>> /\ selected' = {} /\ model' = <<>> /\ hasMore' = FALSE /\ written' = written
      /\ table' = table /\ answers' = answers
  OBVIOUS
<1> HIDE DEF Cancel
<1>2. query' \in Requests /\ query'.generation = query.generation + 1
  <2>1. query.generation + 1 \in 0..MaxGeneration /\ 0 \in 0..Cardinality(Rows)
    BY <1>0, ListAssumption, FS_CardinalityType
  <2> QED
    BY <1>0, <1>1, <2>1 DEF Requests
<1>3. Shown' = <<>> /\ Len(Shown') = 0 /\ Len(pages') = 0
  BY <1>1, NoRows DEF Shown
<1> USE DEF ListInv
<1>5. ListTyped'
  BY <1>1, <1>2, <1>3, NoRows DEF ListTyped
<1>6. ScreenHolds'
  BY <1>1, <1>3, NoRows, ListAssumption DEF ScreenHolds
<1>7. /\ \A r \in asked : r.generation < query'.generation
      /\ \A i \in 1..Len(answers) : answers[i].generation < query'.generation
      /\ AnswersFit'
  BY <1>1, <1>2, NewGeneration
<1>8. OneAnswerDue'
  <2>1. query'.generation \in Nat
    BY <1>0, <1>2
  <2>2. /\ \A r \in asked : r.generation \in Nat
        /\ \A i \in 1..Len(answers) : answers[i].generation \in Nat
    <3>1. \A i \in 1..Len(answers) : answers[i] \in AnswerSet
      BY DEF ListTyped
    <3> QED
      BY <3>1, ListAssumption DEF ListTyped, Requests, AnswerSet
  <2>3. /\ \A r \in asked : r.generation <= query'.generation /\ r.generation # query'.generation
        /\ \A i \in 1..Len(answers) : answers[i].generation <= query'.generation
                                      /\ answers[i].generation # query'.generation
    BY <1>7, <2>1, <2>2
  <2> QED
    BY <1>1, <2>3 DEF OneAnswerDue
<1>9. WindowFits'
  BY <1>1, <1>3, EmptyWindow DEF ListTyped
<1> QED
  BY <1>5, <1>6, <1>7, <1>8, <1>9

LEMMA ListAsksOn ==
  ASSUME ListInv, NextPage
  PROVE  ListInv'
<1> USE DEF NextPage, Ask
<1>1. /\ inFlight = <<>> /\ hasMore
      /\ query' = [query EXCEPT !.offset = Len(Shown)]
      /\ inFlight' = <<query'>> /\ view' = "loading" /\ asked' = asked \cup {query'}
      /\ pages' = pages /\ selected' = selected /\ model' = model /\ hasMore' = hasMore
      /\ written' = written /\ table' = table /\ answers' = answers
  OBVIOUS
<1> HIDE DEF NextPage, Ask
<1> USE DEF ListInv
<1>2. Shown' = Shown
  BY <1>1 DEF Shown
<1>3. Len(Shown) \in 0..Cardinality(Rows)
  <2>1. Shown \in Seq(Rows)
    BY FlatType DEF ListTyped, Shown
  <2> QED
    BY <2>1, ListAssumption, OnceFits DEF ScreenHolds
<1>4. /\ query' \in Requests /\ query'.offset = Len(Shown)
      /\ query'.generation = query.generation /\ query'.filtered = query.filtered
      /\ query'.descending = query.descending
  BY <1>1, <1>3 DEF ListTyped, Requests
<1>5. ListTyped'
  <2>1. inFlight' # <<>>
    BY <1>1
  <2> QED
    BY <1>1, <1>2, <1>4, <2>1 DEF ListTyped
<1>6. ScreenHolds'
  BY <1>1, <1>2, <1>4 DEF ScreenHolds
<1>7. /\ \A r \in asked : r.generation # query.generation
      /\ \A i \in 1..Len(answers) : answers[i].generation # query.generation
  BY <1>1 DEF OneAnswerDue
<1>8. OneAnswerDue'
  <2>1. inFlight' # <<>> /\ query.generation <= query.generation
    BY <1>1, ListAssumption DEF ListTyped, Requests
  <2> QED
    BY <1>1, <1>4, <1>7, <2>1 DEF OneAnswerDue
<1>9. AnswersFit'
  BY <1>1, <1>4, <1>7 DEF AnswersFit, AnswerFits
<1>10. WindowFits'
  <2> SUFFICES ASSUME ~written PROVE \E start \in 0..Len(Result(table, query)) - Len(Shown) : BeginsAt(start)'
    BY <1>1, <1>2, <1>4 DEF WindowFits, Result
  <2>1. PICK start \in 0..Len(Result(table, query)) - Len(Shown) : BeginsAt(start)
    BY DEF WindowFits
  <2>2. Result(table', query') = Result(table, query)
    BY <1>1, <1>4 DEF Result
  <2>3. BeginsAt(start)'
    BY <1>1, <1>2, <2>1, <2>2 DEF BeginsAt
  <2> QED
    BY <2>3
<1> QED
  BY <1>5, <1>6, <1>8, <1>9, <1>10

LEMMA ListIsAnswered ==
  ASSUME ListInv, NEW request \in asked, Provide(request)
  PROVE  ListInv'
<1> USE DEF Provide
<1>1. /\ asked' = asked \ {request}
      /\ table' = table /\ written' = written /\ query' = query /\ inFlight' = inFlight
      /\ pages' = pages /\ selected' = selected /\ hasMore' = hasMore /\ view' = view
      /\ model' = model
  OBVIOUS
<1>2. PICK a \in {Answer(request), Failure(request)} : answers' = Append(answers, a)
  OBVIOUS
<1> HIDE DEF Provide
<1> USE DEF ListInv
<1>3. /\ request \in Requests /\ a \in AnswerSet /\ a.generation = request.generation
      /\ IsInjective(a.rows) /\ Len(a.rows) <= PageRows
      /\ request.filtered => ToSet(a.rows) \subseteq Matching
  <2>1. request \in Requests /\ table \subseteq Rows
    BY DEF ListTyped
  <2> QED
    BY <2>1, AnswersOfRequests
<1>4. Shown' = Shown
  BY <1>1 DEF Shown
<1> DEFINE n == Len(answers)
<1>5. /\ n \in Nat /\ answers' \in Seq(AnswerSet) /\ Len(answers') = n + 1
      /\ answers'[n + 1] = a /\ \A i \in 1..n : answers'[i] = answers[i]
  <2>1. answers \in Seq(AnswerSet)
    BY DEF ListTyped
  <2> QED
    BY <1>2, <1>3, <2>1
<1> HIDE DEF n
<1>6. \A i \in 1..Len(answers') : i \in 1..n \/ i = n + 1
  BY <1>5
<1>7. request.generation <= query.generation
  BY DEF OneAnswerDue
<1>8. ListTyped'
  BY <1>1, <1>4, <1>5 DEF ListTyped
<1>9. ScreenHolds'
  BY <1>1, <1>4 DEF ScreenHolds
<1>10. \A i \in 1..n : answers'[i].generation <= query.generation
  BY <1>5 DEF OneAnswerDue, n
<1>11. OneAnswerDue'
  <2>1. CASE request.generation = query.generation
    <3>1. /\ request = query /\ inFlight # <<>>
          /\ \A i \in 1..n : answers[i].generation # query.generation
      BY <2>1 DEF OneAnswerDue, n
    <3>2. \A r \in asked' : r.generation <= query.generation /\ r.generation # query.generation
      BY <1>1, <3>1 DEF OneAnswerDue
    <3>3. \A i \in 1..n : answers'[i].generation # query.generation
      BY <1>5, <3>1
    <3>4. \A i \in 1..Len(answers') :
            /\ answers'[i].generation <= query.generation
            /\ answers'[i].generation = query.generation =>
                 /\ inFlight # <<>>
                 /\ \A j \in 1..Len(answers') : answers'[j].generation = query.generation => j = i
      <4> SUFFICES ASSUME NEW i \in 1..Len(answers')
                   PROVE  /\ answers'[i].generation <= query.generation
                          /\ answers'[i].generation = query.generation =>
                               \A j \in 1..Len(answers') : answers'[j].generation = query.generation => j = i
        BY <3>1
      <4>1. answers'[i].generation <= query.generation
        BY <1>3, <1>5, <1>6, <1>7, <1>10
      <4>2. ASSUME answers'[i].generation = query.generation, NEW j \in 1..Len(answers'),
                   answers'[j].generation = query.generation
            PROVE  j = i
        BY <1>6, <3>3, <4>2
      <4> QED
        BY <4>1, <4>2
    <3> QED
      BY <1>1, <3>2, <3>4 DEF OneAnswerDue
  <2>2. CASE request.generation # query.generation
    <3>1. ASSUME NEW r \in asked'
          PROVE  /\ r.generation <= query.generation
                 /\ r.generation = query.generation =>
                      /\ r = query /\ inFlight # <<>>
                      /\ \A i \in 1..Len(answers') : answers'[i].generation # query.generation
      <4>1. r \in asked
        BY <1>1, <3>1
      <4>2. /\ r.generation <= query.generation
            /\ r.generation = query.generation =>
                 /\ r = query /\ inFlight # <<>>
                 /\ \A i \in 1..n : answers[i].generation # query.generation
        BY <4>1 DEF OneAnswerDue, n
      <4>3. ASSUME r.generation = query.generation, NEW i \in 1..Len(answers')
            PROVE  answers'[i].generation # query.generation
        BY <1>3, <1>5, <1>6, <2>2, <4>2, <4>3
      <4> QED
        BY <4>2, <4>3
    <3>2. ASSUME NEW i \in 1..Len(answers')
          PROVE  /\ answers'[i].generation <= query.generation
                 /\ answers'[i].generation = query.generation =>
                      /\ inFlight # <<>>
                      /\ \A j \in 1..Len(answers') : answers'[j].generation = query.generation => j = i
      <4>1. answers'[i].generation <= query.generation
        BY <1>3, <1>5, <1>6, <1>7, <1>10
      <4>2. ASSUME answers'[i].generation = query.generation
            PROVE  /\ inFlight # <<>>
                   /\ \A j \in 1..Len(answers') : answers'[j].generation = query.generation => j = i
        <5>1. i \in 1..n /\ answers[i].generation = query.generation
          BY <1>3, <1>5, <1>6, <2>2, <4>2
        <5>2. /\ inFlight # <<>>
              /\ \A j \in 1..n : answers[j].generation = query.generation => j = i
          BY <5>1 DEF OneAnswerDue, n
        <5>3. ASSUME NEW j \in 1..Len(answers'), answers'[j].generation = query.generation
              PROVE  j = i
          <6>1. j \in 1..n /\ answers[j].generation = query.generation
            BY <1>3, <1>5, <1>6, <2>2, <5>3
          <6> QED
            BY <5>2, <6>1
        <5> QED
          BY <5>2, <5>3
      <4> QED
        BY <4>1, <4>2
    <3> QED
      BY <1>1, <3>1, <3>2 DEF OneAnswerDue
  <2> QED
    BY <2>1, <2>2
<1>12. AnswersFit'
  <2>1. Answer(query)' = Answer(query) /\ Failure(query)' = Failure(query)
    BY <1>1 DEF Answer, Failure, Result
  <2>3. AnswerFits(a)
    <3>1. a.generation = query.generation => request = query
      BY <1>3 DEF OneAnswerDue
    <3> QED
      BY <1>2, <1>3, <3>1 DEF AnswerFits
  <2>4. \A i \in 1..n : AnswerFits(answers[i])
    BY DEF AnswersFit, n
  <2>5. \A i \in 1..Len(answers') : AnswerFits(answers'[i])
    BY <1>5, <1>6, <2>3, <2>4
  <2> QED
    BY <1>1, <2>1, <2>5 DEF AnswersFit, AnswerFits
<1>13. WindowFits'
  <2>1. Result(table', query') = Result(table, query)
    BY <1>1
  <2>2. \A start : BeginsAt(start) => BeginsAt(start)'
    BY <1>1, <1>4, <2>1 DEF BeginsAt
  <2> QED
    BY <1>1, <1>4, <2>1, <2>2 DEF WindowFits
<1> QED
  BY <1>8, <1>9, <1>11, <1>12, <1>13

LEMMA ListSelects ==
  ASSUME ListInv, NEW row \in Rows, SelectRow(row)
  PROVE  ListInv'
<1> USE DEF SelectRow
<1>1. /\ selected' = {row} \cap ToSet(Shown) /\ asked' = asked /\ answers' = answers
      /\ table' = table /\ written' = written /\ query' = query /\ inFlight' = inFlight
      /\ pages' = pages /\ hasMore' = hasMore /\ view' = view /\ model' = model
  OBVIOUS
<1> HIDE DEF SelectRow
<1> USE DEF ListInv
<1>2. Shown' = Shown
  BY <1>1 DEF Shown
<1>3. ListTyped'
  BY <1>1, <1>2 DEF ListTyped
<1>4. ScreenHolds'
  BY <1>1, <1>2 DEF ScreenHolds
<1>5. OneAnswerDue'
  BY <1>1 DEF OneAnswerDue
<1>6. AnswersFit'
  BY <1>1 DEF AnswersFit, AnswerFits, Answer, Failure, Result
<1>7. WindowFits'
  <2>1. Result(table', query') = Result(table, query)
    BY <1>1
  <2>2. \A start : BeginsAt(start) => BeginsAt(start)'
    BY <1>1, <1>2, <2>1 DEF BeginsAt
  <2> QED
    BY <1>1, <1>2, <2>1, <2>2 DEF WindowFits
<1> QED
  BY <1>3, <1>4, <1>5, <1>6, <1>7

LEMMA ListIsWritten ==
  ASSUME ListInv, NEW row \in Rows, ChangeTable(row)
  PROVE  ListInv'
<1> USE DEF ChangeTable
<1>1. /\ written' = TRUE /\ selected' = selected /\ asked' = asked /\ answers' = answers
      /\ query' = query /\ inFlight' = inFlight
      /\ pages' = pages /\ hasMore' = hasMore /\ view' = view /\ model' = model
  OBVIOUS
<1> USE DEF ListInv
<1>2. table' \subseteq Rows
  BY DEF ListTyped
<1> HIDE DEF ChangeTable
<1>3. Shown' = Shown
  BY <1>1 DEF Shown
<1>4. ListTyped'
  BY <1>1, <1>2, <1>3 DEF ListTyped
<1>5. ScreenHolds'
  BY <1>1, <1>3 DEF ScreenHolds
<1>6. OneAnswerDue'
  BY <1>1 DEF OneAnswerDue
<1>7. AnswersFit'
  BY <1>1 DEF AnswersFit, AnswerFits
<1>8. WindowFits'
  BY <1>1 DEF WindowFits
<1> QED
  BY <1>4, <1>5, <1>6, <1>7, <1>8

(* The queue of answers without its first: what it holds of the query in   *)
(* force, and what was said of the others.                                 *)
LEMMA FirstAnswered ==
  ASSUME ListInv, answers # <<>>, answers' = Tail(answers), query' = query, asked' = asked,
         table' = table, written' = written
  PROVE  /\ Head(answers) = answers[1] /\ Head(answers) \in AnswerSet /\ AnswerFits(Head(answers))
         /\ answers' \in Seq(AnswerSet)
         /\ AnswersFit'
         /\ inFlight' = inFlight => OneAnswerDue'
         /\ inFlight # <<>> /\ Head(answers).generation = query.generation => OneAnswerDue'
<1> USE DEF ListInv
<1>0. /\ answers \in Seq(AnswerSet) /\ Head(answers) = answers[1] /\ 1 \in 1..Len(answers)
      /\ Len(answers) \in Nat
      /\ answers' \in Seq(AnswerSet) /\ Len(answers') = Len(answers) - 1
      /\ \A i \in 1..Len(answers') : answers'[i] = answers[i + 1]
  <2>1. answers \in Seq(AnswerSet)
    BY DEF ListTyped
  <2> QED
    BY <2>1
<1>1. \A i \in 1..Len(answers') : i + 1 \in 1..Len(answers) /\ i + 1 # 1
  BY <1>0
<1>2. Head(answers) \in AnswerSet /\ AnswerFits(Head(answers))
  BY <1>0 DEF AnswersFit
<1>3. AnswersFit'
  <2>1. Answer(query)' = Answer(query) /\ Failure(query)' = Failure(query)
    BY DEF Answer, Failure, Result
  <2>3. \A i \in 1..Len(answers') : AnswerFits(answers'[i])
    BY <1>0, <1>1 DEF AnswersFit
  <2> QED
    BY <2>1, <2>3 DEF AnswersFit, AnswerFits
<1>4. \A i \in 1..Len(answers') :
        /\ answers'[i].generation <= query.generation
        /\ answers'[i].generation = query.generation =>
             /\ inFlight # <<>>
             /\ \A j \in 1..Len(answers') : answers'[j].generation = query.generation => j = i
  <2> SUFFICES ASSUME NEW i \in 1..Len(answers')
               PROVE  /\ answers'[i].generation <= query.generation
                      /\ answers'[i].generation = query.generation =>
                           /\ inFlight # <<>>
                           /\ \A j \in 1..Len(answers') :
                                answers'[j].generation = query.generation => j = i
    OBVIOUS
  <2>1. i + 1 \in 1..Len(answers) /\ answers'[i] = answers[i + 1]
    BY <1>0, <1>1
  <2>2. /\ answers[i + 1].generation <= query.generation
        /\ answers[i + 1].generation = query.generation =>
             /\ inFlight # <<>>
             /\ \A j \in 1..Len(answers) : answers[j].generation = query.generation => j = i + 1
    BY <2>1 DEF OneAnswerDue
  <2>3. ASSUME answers[i + 1].generation = query.generation, NEW j \in 1..Len(answers'),
               answers'[j].generation = query.generation
        PROVE  j = i
    <3>1. j + 1 \in 1..Len(answers) /\ answers[j + 1].generation = query.generation
      BY <1>0, <1>1, <2>3
    <3>2. j + 1 = i + 1
      BY <2>2, <2>3, <3>1
    <3> QED
      BY <3>2
  <2> QED
    BY <2>1, <2>2, <2>3
<1>5. ASSUME inFlight' = inFlight PROVE OneAnswerDue'
  <2>1. \A r \in asked :
          /\ r.generation <= query.generation
          /\ r.generation = query.generation =>
               /\ r = query /\ inFlight # <<>>
               /\ \A i \in 1..Len(answers') : answers'[i].generation # query.generation
    BY <1>0, <1>1 DEF OneAnswerDue
  <2> QED
    BY <1>4, <1>5, <2>1 DEF OneAnswerDue
<1>6. ASSUME inFlight # <<>>, Head(answers).generation = query.generation PROVE OneAnswerDue'
  <2>1. \A r \in asked : r.generation <= query.generation /\ r.generation # query.generation
    BY <1>0, <1>6 DEF OneAnswerDue
  <2>2. \A i \in 1..Len(answers') : answers'[i].generation # query.generation
    <3> SUFFICES ASSUME NEW i \in 1..Len(answers') PROVE answers'[i].generation # query.generation
      OBVIOUS
    <3>1. i + 1 \in 1..Len(answers) /\ answers'[i] = answers[i + 1] /\ i + 1 # 1
      BY <1>0, <1>1
    <3>2. \A j \in 1..Len(answers) : answers[j].generation = query.generation => j = 1
      BY <1>0, <1>6 DEF OneAnswerDue
    <3> QED
      BY <3>1, <3>2
  <2> QED
    BY <1>4, <2>1, <2>2 DEF OneAnswerDue
<1> QED
  BY <1>0, <1>2, <1>3, <1>5, <1>6

(* The page asked for is shown after the others.                           *)
LEMMA PageIsShown ==
  ASSUME ListInv, answers # <<>>, answers' = Tail(answers), ApplyPage(Head(answers))
  PROVE  ListInv'
<1> DEFINE a == Head(answers)
<1>1. /\ inFlight # <<>> /\ a.generation = query.generation /\ ~a.failed
      /\ ToSet(a.rows) \cap ToSet(Shown) = {}
      /\ pages' = Kept(a.rows)
      /\ selected' = selected \cap ToSet(FlattenSeq(pages'))
      /\ model' = FlattenSeq(pages')
      /\ inFlight' = <<>> /\ hasMore' = a.more /\ view' = "ready"
      /\ table' = table /\ written' = written /\ query' = query /\ asked' = asked
  BY DEF ApplyPage
<1>2. a \in AnswerSet /\ AnswerFits(a) /\ answers' \in Seq(AnswerSet) /\ AnswersFit' /\ OneAnswerDue'
  BY <1>1, FirstAnswered
<1> HIDE DEF a
<1> USE DEF ListInv
<1> DEFINE sum == Shown \o a.rows
           n == Len(Shown)
<1>3. /\ a.rows \in Seq(Rows) /\ a.more \in BOOLEAN
      /\ IsInjective(a.rows) /\ Len(a.rows) <= PageRows
      /\ query.filtered => ToSet(a.rows) \subseteq Matching
      /\ ~written => a = Answer(query)
  <2>1. a.rows \in Seq(Rows) /\ a.more \in BOOLEAN
    BY <1>2 DEF AnswerSet
  <2>2. Failure(query).failed
    BY DEF Failure
  <2> QED
    BY <1>1, <1>2, <2>1, <2>2 DEF AnswerFits
<1>4. Shown \in Seq(Rows) /\ n \in Nat /\ Len(a.rows) \in Nat
  <2>1. Shown \in Seq(Rows)
    BY FlatType DEF ListTyped, Shown
  <2> QED
    BY <1>3, <2>1
<1>5. /\ sum \in Seq(Rows) /\ Len(sum) = n + Len(a.rows) /\ Len(sum) \in Nat
  <2>1. sum \in Seq(Rows) /\ Len(sum) = n + Len(a.rows)
    BY <1>3, <1>4
  <2> QED
    BY <1>4, <2>1
<1>6. IsInjective(sum) /\ ToSet(sum) = ToSet(Shown) \cup ToSet(a.rows)
  BY <1>1, <1>3, <1>4, JoinedOnce DEF ScreenHolds
<1> HIDE DEF sum
<1>7. /\ pages' \in Seq(Seq(Rows)) /\ Len(pages') <= MaxPages
      /\ \A i \in 1..Len(pages') : Len(pages'[i]) <= PageRows
      /\ \E d \in 0..PageRows : d <= n /\ d <= Len(sum) /\ Shown' = SubSeq(sum, d + 1, Len(sum))
  <2>1. /\ pages \in Seq(Seq(Rows)) /\ Len(pages) <= MaxPages
        /\ \A i \in 1..Len(pages) : Len(pages[i]) <= PageRows
    BY DEF ListTyped, ScreenHolds
  <2> QED
    BY <1>1, <1>3, <2>1, KeptRows DEF sum, Shown
<1>8. PICK d \in 0..PageRows : d <= n /\ d <= Len(sum) /\ Shown' = SubSeq(sum, d + 1, Len(sum))
  BY <1>7
<1>9. d \in Nat /\ PageRows \in Nat /\ PageRows # 0
  BY ListAssumption
<1>10. Shown' \in Seq(Rows) /\ Len(Shown') = Len(sum) - d
  <2>1. Len(sum) <= Len(sum)
    BY <1>5
  <2>2. /\ SubSeq(sum, d + 1, Len(sum)) \in Seq(Rows)
        /\ Len(SubSeq(sum, d + 1, Len(sum))) = IF d <= Len(sum) THEN Len(sum) - d ELSE 0
    BY <1>5, <1>9, <2>1, Slice
  <2> QED
    BY <1>8, <2>2
<1>11. IsInjective(Shown') /\ ToSet(Shown') \subseteq ToSet(sum)
  <2>1. Len(sum) <= Len(sum)
    BY <1>5
  <2> QED
    BY <1>5, <1>6, <1>8, <1>9, <2>1, SliceOnce
<1>12. ListTyped'
  BY <1>1, <1>2, <1>3, <1>7 DEF ListTyped
<1>13. ScreenHolds'
  <2>1. model' = Shown' /\ selected' \subseteq ToSet(Shown')
    BY <1>1 DEF Shown
  <2>2. query.filtered => ToSet(Shown') \subseteq Matching
    BY <1>3, <1>6, <1>11 DEF ScreenHolds
  <2> QED
    BY <1>1, <1>7, <1>11, <2>1, <2>2 DEF ScreenHolds
<1>14. WindowFits'
  <2> SUFFICES ASSUME ~written
               PROVE  \E start \in 0..Len(Result(table', query')) - Len(Shown') : BeginsAt(start)'
    BY <1>1 DEF WindowFits
  <2> DEFINE all == Result(table, query)
             end == IF n + PageRows < Len(all) THEN n + PageRows ELSE Len(all)
  <2>1. Result(table', query') = all
    BY <1>1
  <2>2. query.offset = n /\ query \in Requests /\ table \subseteq Rows
    BY <1>1 DEF ListTyped
  <2>3. /\ all \in Seq(Rows) /\ Len(all) \in Nat
        /\ end \in 0..Len(all) /\ end <= n + PageRows
        /\ a.rows = SubSeq(all, n + 1, end)
        /\ Len(a.rows) = IF n <= end THEN end - n ELSE 0
        /\ a.more = (Len(all) > n + PageRows)
    BY <1>3, <2>2, PageOfAnswer
  <2>4. PICK start \in 0..Len(all) - n : BeginsAt(start)
    BY DEF WindowFits
  <2>5. /\ Shown = SubSeq(all, start + 1, start + n)
        /\ start > 0 => start <= n /\ start + n < Len(all)
    BY <1>1, <2>4 DEF BeginsAt
  <2> HIDE DEF all, n
  <2>6. /\ n <= Len(all) /\ end \in n..Len(all) /\ Len(a.rows) = end - n /\ Len(sum) = end
        /\ a.more <=> end < Len(all)
        /\ a.more => end = n + PageRows
    <3>1. n \in 0..Len(all)
      BY <1>4, <2>3, <2>4
    <3>2. end \in n..Len(all) /\ n <= end
      BY <1>9, <2>3, <3>1
    <3>3. /\ Len(all) > n + PageRows <=> end < Len(all)
          /\ Len(all) > n + PageRows => end = n + PageRows
      BY <1>9, <2>3, <3>1
    <3>4. a.more <=> Len(all) > n + PageRows
      BY <2>3
    <3> HIDE DEF end
    <3>5. Len(a.rows) = end - n
      BY <2>3, <3>2
    <3>6. Len(sum) = end
      BY <1>4, <1>5, <2>3, <3>5
    <3> QED
      BY <1>4, <2>3, <3>1, <3>2, <3>3, <3>4, <3>5, <3>6
  <2>7. ~(start > 0)
    <3> SUFFICES ASSUME start > 0 PROVE FALSE
      OBVIOUS
    <3>1. start \in 1..n /\ start + n < Len(all) /\ end \in n + 1..Len(all)
      BY <1>4, <1>9, <2>3, <2>4, <2>5
    <3> HIDE DEF end
    <3>2. ToSet(SubSeq(all, n + 1, end)) \cap ToSet(SubSeq(all, start + 1, start + n)) # {}
      BY <1>4, <2>3, <3>1, WindowStays
    <3> QED
      BY <1>1, <2>3, <2>5, <3>2
  <2>8. start = 0
    BY <2>4, <2>7
  <2>9. Shown = SubSeq(all, 1, n)
    BY <1>4, <2>5, <2>8
  <2> HIDE DEF end
  <2>10. Shown' = SubSeq(all, d + 1, end)
    <3>1. n \in 0..Len(all) /\ d \in 0..end
      BY <1>4, <1>8, <1>9, <2>3, <2>6
    <3>2. SubSeq(SubSeq(all, 1, n) \o SubSeq(all, n + 1, end), d + 1, end) = SubSeq(all, d + 1, end)
      BY <2>3, <2>6, <3>1, WindowMoves
    <3>3. sum = SubSeq(all, 1, n) \o SubSeq(all, n + 1, end)
      BY <2>3, <2>9 DEF sum
    <3> QED
      BY <1>8, <2>6, <3>2, <3>3
  <2>11. Len(Shown') = end - d /\ d + Len(Shown') = end
    BY <1>9, <1>10, <2>3, <2>6
  <2>12. Shown' = SubSeq(all, d + 1, d + Len(Shown'))
    BY <2>10, <2>11
  <2>13. hasMore' <=> d + Len(Shown') < Len(all)
    BY <1>1, <2>6, <2>11
  <2>14. hasMore' => d <= Len(Shown') /\ d + Len(Shown') < Len(all)
    <3> SUFFICES ASSUME hasMore' PROVE d <= Len(Shown') /\ d + Len(Shown') < Len(all)
      OBVIOUS
    <3>1. end = n + PageRows /\ end < Len(all)
      BY <1>1, <2>6
    <3>2. d <= n /\ d <= PageRows
      BY <1>8
    <3> QED
      BY <1>4, <1>9, <2>11, <3>1, <3>2
  <2>15. BeginsAt(d)'
    BY <1>1, <2>1, <2>12, <2>13, <2>14 DEF BeginsAt
  <2>16. d \in 0..Len(all) - Len(Shown')
    BY <1>9, <2>3, <2>11
  <2> QED
    BY <2>1, <2>15, <2>16
<1> QED
  BY <1>2, <1>12, <1>13, <1>14

LEMMA PageIsRefused ==
  ASSUME ListInv, answers # <<>>, answers' = Tail(answers),
         UNCHANGED <<table, written, query, inFlight, pages, selected, hasMore, view, model, asked>>
  PROVE  ListInv'
<1> USE DEF ListInv
<1>1. /\ table' = table /\ written' = written /\ query' = query /\ inFlight' = inFlight
      /\ pages' = pages /\ selected' = selected /\ hasMore' = hasMore /\ view' = view
      /\ model' = model /\ asked' = asked /\ Shown' = Shown
  BY DEF Shown
<1>2. answers' \in Seq(AnswerSet) /\ AnswersFit' /\ OneAnswerDue'
  BY <1>1, FirstAnswered
<1>3. ListTyped'
  BY <1>1, <1>2 DEF ListTyped
<1>4. ScreenHolds'
  BY <1>1 DEF ScreenHolds
<1>5. WindowFits'
  <2>1. Result(table', query') = Result(table, query)
    BY <1>1
  <2>2. \A start : BeginsAt(start) => BeginsAt(start)'
    BY <1>1, <2>1 DEF BeginsAt
  <2> QED
    BY <1>1, <2>1, <2>2 DEF WindowFits
<1> QED
  BY <1>2, <1>3, <1>4, <1>5

LEMMA PageFails ==
  ASSUME ListInv, answers # <<>>, answers' = Tail(answers), FailPage(Head(answers))
  PROVE  ListInv'
<1>1. /\ inFlight # <<>> /\ Head(answers).generation = query.generation
      /\ inFlight' = <<>> /\ hasMore' = FALSE /\ view' = "failed"
      /\ table' = table /\ written' = written /\ query' = query
      /\ pages' = pages /\ selected' = selected /\ model' = model /\ asked' = asked
      /\ Shown' = Shown
  BY DEF FailPage, Shown
<1> USE DEF ListInv
<1>2. answers' \in Seq(AnswerSet) /\ AnswersFit' /\ OneAnswerDue'
  BY <1>1, FirstAnswered
<1>3. ListTyped'
  BY <1>1, <1>2 DEF ListTyped
<1>4. ScreenHolds'
  BY <1>1 DEF ScreenHolds
<1>5. WindowFits'
  <2>1. Result(table', query') = Result(table, query)
    BY <1>1
  <2>2. \A start : BeginsAt(start) => BeginsAt(start)'
    BY <1>1, <2>1 DEF BeginsAt
  <2> QED
    BY <1>1, <2>1, <2>2 DEF WindowFits
<1> QED
  BY <1>2, <1>3, <1>4, <1>5

LEMMA ListHolds == ListInv /\ [ListNext]_listVars => ListInv'
<1> SUFFICES ASSUME ListInv, [ListNext]_listVars PROVE ListInv'
  OBVIOUS
<1>1. CASE \E descending, filtered \in BOOLEAN : Refresh(descending, filtered)
  BY <1>1, ListRefreshes
<1>2. CASE NextPage
  BY <1>2, ListAsksOn
<1>3. CASE Deliver
  <2>1. CASE ApplyPage(Head(answers))
    BY <1>3, <2>1, PageIsShown DEF Deliver
  <2>2. CASE FailPage(Head(answers))
    BY <1>3, <2>2, PageFails DEF Deliver
  <2>3. CASE UNCHANGED <<table, written, query, inFlight, pages, selected, hasMore, view, model, asked>>
    BY <1>3, <2>3, PageIsRefused DEF Deliver
  <2> QED
    BY <1>3, <2>1, <2>2, <2>3 DEF Deliver
<1>4. CASE \E request \in asked : Provide(request)
  BY <1>4, ListIsAnswered
<1>5. CASE \E row \in Rows : SelectRow(row) \/ ChangeTable(row)
  BY <1>5, ListSelects, ListIsWritten
<1>6. CASE Cancel
  BY <1>6, ListCancels
<1>7. CASE UNCHANGED listVars
  <2>1. /\ table' = table /\ written' = written /\ query' = query /\ inFlight' = inFlight
        /\ pages' = pages /\ selected' = selected /\ hasMore' = hasMore /\ view' = view
        /\ model' = model /\ asked' = asked /\ answers' = answers /\ Shown' = Shown
    BY <1>7 DEF listVars, Shown
  <2> USE DEF ListInv
  <2>2. ListTyped' /\ ScreenHolds' /\ OneAnswerDue'
    BY <2>1 DEF ListTyped, ScreenHolds, OneAnswerDue
  <2>3. AnswersFit'
    BY <2>1 DEF AnswersFit, AnswerFits, Answer, Failure, Result
  <2>4. WindowFits'
    <3>1. \A start : BeginsAt(start) => BeginsAt(start)'
      BY <2>1 DEF BeginsAt
    <3> QED
      BY <2>1, <3>1 DEF WindowFits
  <2> QED
    BY <2>2, <2>3, <2>4
<1> QED
  BY <1>1, <1>2, <1>3, <1>4, <1>5, <1>6, <1>7 DEF ListNext

(* The lists of the shell (list_bridge.cpp, paged_list_cache.cpp), for any *)
(* table, any size and number of pages and any answers, however late: the  *)
(* screen is a window of the query in force.                               *)
THEOREM Windows == ListSpec => []WindowOfTheQuery
<1>1. ListInv => WindowOfTheQuery
  <2> SUFFICES ASSUME ListInv PROVE WindowOfTheQuery
    OBVIOUS
  <2>1. inFlight # <<>> => inFlight[1] = query
    BY DEF ListInv, ListTyped
  <2>2. ~written => \E start \in 0..Len(Result(table, query)) - Len(Shown) :
                      /\ Shown = SubSeq(Result(table, query), start + 1, start + Len(Shown))
                      /\ view = "ready" => (hasMore <=> start + Len(Shown) < Len(Result(table, query)))
    BY DEF ListInv, WindowFits, BeginsAt
  <2> QED
    BY <2>1, <2>2 DEF ListInv, ListTyped, ScreenHolds, WindowOfTheQuery
<1> QED
  BY <1>1, ListBegins, ListHolds, PTL DEF ListSpec
=============================================================================
