--------------------------- MODULE ServicesProofs ---------------------------
(***************************************************************************)
(* Theorems about the program's own machinery: the background services,    *)
(* the throttle of its log and the files of the log, and the navigation of *)
(* its shell, for any number of services, lanes, events, records,          *)
(* generations and lines, sessions, snapshots and routes.                  *)
(***************************************************************************)
EXTENDS Background, LogFiles, Navigation, Sums, FiniteSetTheorems, SequenceTheorems,
        WellFoundedInduction, TLAPS

(* Where a service is on its way to a worker.                              *)
InLine(s) == \E i \in 1..Len(queue[LaneOf[s]]) : queue[LaneOf[s]][i] = s

Working(s) == task[LaneOf[s]] = s /\ worker[LaneOf[s]] # "handing"

Taken(s) == Working(s) /\ worker[LaneOf[s]] = "taken"
Running(s) == Working(s) /\ worker[LaneOf[s]] = "running"

WorkerStates == {"testing", "dozing", "asleep", "taken", "running", "handing", "exited"}
ClosingStates == {"open", "called", "stopping", "telling", "closed"}

ServicesTyped ==
  /\ status \in [Services -> States]
  /\ submitted \subseteq Services /\ rerun \subseteq Services /\ unserved \subseteq Services
  /\ calling \subseteq Services /\ cancelled \subseteq Services /\ sweep \subseteq GateNames \X Services
  /\ halting \in BOOLEAN
  /\ queue \in [Lanes -> Seq(Services)]
  /\ worker \in [Lanes -> WorkerStates]
  /\ task \in [Lanes -> Services \cup {None}]
  /\ closing \in ClosingStates

(* The queues hold a service once, on its own lane, and a worker has one   *)
(* of its lane while it is busy.                                           *)
QueuesKept ==
  \A lane \in Lanes : \A i \in 1..Len(queue[lane]) :
    /\ LaneOf[queue[lane][i]] = lane
    /\ \A j \in 1..Len(queue[lane]) : queue[lane][i] = queue[lane][j] => i = j

WorkersKept ==
  \A lane \in Lanes :
    /\ task[lane] # None <=> worker[lane] \in {"taken", "running", "handing"}
    /\ task[lane] # None => LaneOf[task[lane]] = lane

HaltingKept ==
  /\ closing = "open" <=> ~halting
  /\ cancelled # {} => closing \in {"stopping", "telling"}

(* A service is in one place, which its status tells.                      *)
OnePlace(s) ==
  /\ s \in calling => s \notin cancelled /\ ~InLine(s) /\ ~Working(s)
  /\ s \in cancelled => ~InLine(s) /\ ~Working(s)
  /\ ~(InLine(s) /\ Working(s))

StatusTells(s) ==
  /\ s \in submitted <=> s \in calling \/ s \in cancelled \/ InLine(s) \/ Taken(s)
  /\ s \in submitted => status[s] = "pending" \/ (halting /\ status[s] = "stopping")
  /\ Running(s) => status[s] = "running" \/ (halting /\ status[s] = "stopping")
  /\ status[s] = "running" => Running(s)
  /\ halting => status[s] \in {"stopping", "running", "disabled"}

(* A trigger waits with its service.                                       *)
Remembered(s) ==
  /\ s \in unserved /\ ~halting /\ status[s] # "disabled" =>
       status[s] = "pending" \/ (status[s] = "running" /\ s \in rerun)
  /\ status[s] = "pending" /\ s \notin submitted =>
       Gated(s, opened) \/ InSweep(s)

InOrder(s) == OnePlace(s) /\ StatusTells(s) /\ Remembered(s)

ThreadsKept == ServicesTyped /\ QueuesKept /\ WorkersKept /\ HaltingKept

ServicesInv == ThreadsKept /\ \A s \in Services : InOrder(s)

-----------------------------------------------------------------------------
LEMMA Appending ==
  ASSUME NEW S, NEW q \in Seq(S), NEW e \in S
  PROVE  /\ Append(q, e) \in Seq(S)
         /\ Len(Append(q, e)) = Len(q) + 1 /\ Len(q) \in Nat
         /\ \A i \in 1..Len(q) : Append(q, e)[i] = q[i]
         /\ Append(q, e)[Len(q) + 1] = e
BY AppendProperties, LenProperties

LEMMA Taking ==
  ASSUME NEW S, NEW q \in Seq(S), q # <<>>
  PROVE  /\ Head(q) = q[1] /\ q[1] \in S
         /\ Tail(q) \in Seq(S)
         /\ Len(q) \in Nat \ {0} /\ Len(Tail(q)) = Len(q) - 1
         /\ \A i \in 1..(Len(q) - 1) : Tail(q)[i] = q[i + 1]
BY HeadTailProperties, EmptySeq, LenProperties, ElementOfSeq

(* A service that is nowhere in its queue goes to the end of it.           *)
LEMMA JoiningTheQueue ==
  ASSUME ServicesTyped, QueuesKept, NEW s \in Services, ~InLine(s),
         queue' = [queue EXCEPT ![LaneOf[s]] = Append(@, s)]
  PROVE  /\ queue' \in [Lanes -> Seq(Services)] /\ QueuesKept'
         /\ \A t \in Services : InLine(t)' <=> InLine(t) \/ t = s
<1> DEFINE lane == LaneOf[s]
           q == queue[lane]
<1>1. lane \in Lanes /\ q \in Seq(Services) /\ queue \in [Lanes -> Seq(Services)]
  BY BackgroundAssumption DEF ServicesTyped
<1>2. /\ Append(q, s) \in Seq(Services)
      /\ Len(Append(q, s)) = Len(q) + 1 /\ Len(q) \in Nat
      /\ \A i \in 1..Len(q) : Append(q, s)[i] = q[i]
      /\ Append(q, s)[Len(q) + 1] = s
  BY <1>1, Appending
<1>3. queue' \in [Lanes -> Seq(Services)] /\ queue'[lane] = Append(q, s)
      /\ \A other \in Lanes : other # lane => queue'[other] = queue[other]
  BY <1>1, <1>2
<1>4. \A i \in 1..Len(queue'[lane]) : i \in 1..Len(q) \/ i = Len(q) + 1
  BY <1>2, <1>3
<1>5. \A i \in 1..Len(q) : q[i] # s
  BY DEF InLine
<1>6. /\ \A i \in 1..Len(q) : queue'[lane][i] = q[i]
      /\ queue'[lane][Len(q) + 1] = s
      /\ 1..Len(q) \subseteq 1..Len(queue'[lane]) /\ Len(q) + 1 \in 1..Len(queue'[lane])
  BY <1>2, <1>3
<1> HIDE DEF q
<1>7. QueuesKept'
  <2> SUFFICES ASSUME NEW other \in Lanes, NEW i \in 1..Len(queue'[other]),
                      NEW j \in 1..Len(queue'[other])
               PROVE  /\ LaneOf[queue'[other][i]] = other
                      /\ queue'[other][i] = queue'[other][j] => i = j
    BY DEF QueuesKept
  <2>1. CASE other # lane
    BY <1>3, <2>1 DEF QueuesKept
  <2>2. CASE other = lane
    <3>1. \A k, n \in 1..Len(q) : LaneOf[q[k]] = lane /\ (q[k] = q[n] => k = n)
      BY <1>1 DEF QueuesKept, q
    <3>2. /\ i \in 1..Len(q) \/ i = Len(q) + 1
          /\ j \in 1..Len(q) \/ j = Len(q) + 1
      BY <1>4, <2>2
    <3>3. LaneOf[queue'[lane][i]] = lane
      BY <1>6, <3>1, <3>2
    <3>4. queue'[lane][i] = queue'[lane][j] => i = j
      BY <1>5, <1>6, <3>1, <3>2
    <3> QED
      BY <2>2, <3>3, <3>4
  <2> QED
    BY <2>1, <2>2
<1>8. ASSUME NEW t \in Services PROVE InLine(t)' <=> InLine(t) \/ t = s
  <2>1. CASE LaneOf[t] # lane
    BY <1>3, <2>1, BackgroundAssumption DEF InLine
  <2>2. CASE LaneOf[t] = lane
    <3>1. InLine(t)' <=> \E i \in 1..Len(queue'[lane]) : queue'[lane][i] = t
      BY <2>2 DEF InLine
    <3>2. InLine(t) <=> \E i \in 1..Len(q) : q[i] = t
      BY <2>2 DEF InLine, q
    <3>3. InLine(t) \/ t = s => InLine(t)'
      BY <1>6, <3>1, <3>2
    <3>4. InLine(t)' => InLine(t) \/ t = s
      BY <1>4, <1>6, <3>1, <3>2
    <3> QED
      BY <3>3, <3>4
  <2> QED
    BY <2>1, <2>2
<1> QED
  BY <1>3, <1>7, <1>8

(* The first of a queue is taken out of it.                                *)
LEMMA LeavingTheQueue ==
  ASSUME ServicesTyped, QueuesKept, NEW lane \in Lanes, queue[lane] # <<>>,
         queue' = [queue EXCEPT ![lane] = Tail(@)]
  PROVE  /\ queue' \in [Lanes -> Seq(Services)] /\ QueuesKept'
         /\ Head(queue[lane]) \in Services /\ LaneOf[Head(queue[lane])] = lane
         /\ InLine(Head(queue[lane]))
         /\ \A t \in Services : InLine(t)' <=> InLine(t) /\ t # Head(queue[lane])
<1> DEFINE q == queue[lane]
           s == Head(q)
<1>1. q \in Seq(Services) /\ queue \in [Lanes -> Seq(Services)] /\ q # <<>>
  BY DEF ServicesTyped
<1>2. /\ s = q[1] /\ s \in Services
      /\ Tail(q) \in Seq(Services)
      /\ Len(q) \in Nat \ {0} /\ Len(Tail(q)) = Len(q) - 1
      /\ \A i \in 1..(Len(q) - 1) : Tail(q)[i] = q[i + 1]
  BY <1>1, Taking
<1>3. /\ queue' \in [Lanes -> Seq(Services)] /\ queue'[lane] = Tail(q)
      /\ \A other \in Lanes : other # lane => queue'[other] = queue[other]
  BY <1>1, <1>2
<1>4. /\ \A i \in 1..Len(queue'[lane]) : queue'[lane][i] = q[i + 1] /\ i + 1 \in 1..Len(q) /\ i \in Nat
      /\ \A i \in 1..Len(q) : i = 1 \/ (i - 1 \in 1..Len(queue'[lane]) /\ queue'[lane][i - 1] = q[i])
      /\ 1 \in 1..Len(q)
  BY <1>2, <1>3
<1>5. \A k, n \in 1..Len(q) : LaneOf[q[k]] = lane /\ (q[k] = q[n] => k = n)
  BY DEF QueuesKept
<1>6. s = q[1] /\ s \in Services /\ LaneOf[s] = lane /\ s = Head(queue[lane])
  BY <1>2, <1>4, <1>5
<1> HIDE DEF q, s
<1>7. QueuesKept'
  <2> SUFFICES ASSUME NEW other \in Lanes, NEW i \in 1..Len(queue'[other]),
                      NEW j \in 1..Len(queue'[other])
               PROVE  /\ LaneOf[queue'[other][i]] = other
                      /\ queue'[other][i] = queue'[other][j] => i = j
    BY DEF QueuesKept
  <2>1. CASE other # lane
    BY <1>3, <2>1 DEF QueuesKept
  <2>2. CASE other = lane
    <3>1. /\ queue'[lane][i] = q[i + 1] /\ i + 1 \in 1..Len(q) /\ i \in Nat
          /\ queue'[lane][j] = q[j + 1] /\ j + 1 \in 1..Len(q) /\ j \in Nat
      BY <1>4, <2>2
    <3>2. queue'[lane][i] = queue'[lane][j] => i + 1 = j + 1
      BY <1>5, <3>1
    <3> QED
      BY <1>5, <2>2, <3>1, <3>2
  <2> QED
    BY <2>1, <2>2
<1>8. ASSUME NEW t \in Services PROVE InLine(t)' <=> InLine(t) /\ t # s
  <2>1. CASE LaneOf[t] # lane
    BY <1>3, <1>6, <2>1, BackgroundAssumption DEF InLine
  <2>2. CASE LaneOf[t] = lane
    <3>1. InLine(t)' <=> \E i \in 1..Len(queue'[lane]) : queue'[lane][i] = t
      BY <2>2 DEF InLine
    <3>2. InLine(t) <=> \E i \in 1..Len(q) : q[i] = t
      BY <2>2 DEF InLine, q
    <3>3. ASSUME NEW i \in 1..Len(queue'[lane]), queue'[lane][i] = t PROVE InLine(t) /\ t # s
      <4>1. t = q[i + 1] /\ i + 1 \in 1..Len(q) /\ i \in Nat /\ i # 0
        BY <1>4, <3>3
      <4>2. q[i + 1] = q[1] => i + 1 = 1
        BY <1>4, <1>5, <4>1
      <4> QED
        BY <1>6, <3>2, <4>1, <4>2
    <3>4. ASSUME NEW i \in 1..Len(q), q[i] = t, t # s PROVE InLine(t)'
      BY <1>4, <1>6, <3>1, <3>4
    <3> QED
      BY <3>1, <3>2, <3>3, <3>4
  <2> QED
    BY <2>1, <2>2
<1>9. InLine(s)
  BY <1>4, <1>6 DEF InLine, q
<1> QED
  BY <1>3, <1>6, <1>7, <1>8, <1>9

-----------------------------------------------------------------------------
LEMMA Lane == \A s \in Services : LaneOf[s] \in Lanes /\ s # None
BY BackgroundAssumption

LEMMA WorkingIsTakenOrRunning ==
  ASSUME ThreadsKept, NEW s \in Services
  PROVE  Working(s) <=> Taken(s) \/ Running(s)
BY Lane DEF ThreadsKept, WorkersKept, Working, Taken, Running

(* A step leaves a service alone.                                          *)
Still(t) ==
  /\ status'[t] = status[t]
  /\ t \in submitted' <=> t \in submitted
  /\ t \in calling' <=> t \in calling
  /\ t \in cancelled' <=> t \in cancelled
  /\ InLine(t)' <=> InLine(t)
  /\ Working(t)' <=> Working(t)
  /\ Taken(t)' <=> Taken(t)
  /\ Running(t)' <=> Running(t)
  /\ t \in rerun' <=> t \in rerun
  /\ t \in unserved' <=> t \in unserved
  /\ InSweep(t)' <=> InSweep(t)
  /\ halting' = halting /\ opened' = opened

LEMMA StillInOrder ==
  ASSUME NEW t \in Services, InOrder(t), Still(t)
  PROVE  InOrder(t)'
<1>1. Gated(t, opened)' <=> Gated(t, opened)
  BY DEF Still, Gated, InSweep
<1>2. OnePlace(t)'
  BY DEF InOrder, Still, OnePlace
<1>3. StatusTells(t)'
  BY DEF InOrder, Still, StatusTells
<1>4. Remembered(t)'
  BY <1>1 DEF InOrder, Still, Remembered, InSweep
<1> QED
  BY <1>2, <1>3, <1>4 DEF InOrder

(* Neither a queue nor a worker that has a service is touched.             *)
LEMMA PlacesStay ==
  ASSUME UNCHANGED queue, UNCHANGED task, UNCHANGED worker
  PROVE  \A t \in Services : /\ InLine(t)' <=> InLine(t)
                             /\ Working(t)' <=> Working(t)
                             /\ Taken(t)' <=> Taken(t)
                             /\ Running(t)' <=> Running(t)
BY DEF InLine, Working, Taken, Running

LEMMA WakingKeeps ==
  ASSUME ThreadsKept, UNCHANGED task, worker' = Woken
  PROVE  /\ worker' \in [Lanes -> WorkerStates] /\ WorkersKept'
         /\ \A t \in Services : /\ Working(t)' <=> Working(t)
                                /\ Taken(t)' <=> Taken(t)
                                /\ Running(t)' <=> Running(t)
<1>1. /\ worker' \in [Lanes -> WorkerStates]
      /\ \A lane \in Lanes : \/ worker'[lane] = worker[lane]
                             \/ worker[lane] = "asleep" /\ worker'[lane] = "testing"
  BY DEF ThreadsKept, ServicesTyped, Woken, WorkerStates
<1>2. WorkersKept'
  BY <1>1 DEF ThreadsKept, WorkersKept
<1>3. ASSUME NEW t \in Services
      PROVE  /\ Working(t)' <=> Working(t)
             /\ Taken(t)' <=> Taken(t)
             /\ Running(t)' <=> Running(t)
  <2> DEFINE lane == LaneOf[t]
  <2>1. /\ lane \in Lanes /\ t # None
        /\ \/ worker'[lane] = worker[lane]
           \/ worker[lane] = "asleep" /\ worker'[lane] = "testing"
    BY <1>1, Lane
  <2>2. worker[lane] = "asleep" => task[lane] # t
    BY <2>1 DEF ThreadsKept, WorkersKept
  <2> QED
    BY <2>1, <2>2 DEF Working, Taken, Running
<1> QED
  BY <1>1, <1>2, <1>3

-----------------------------------------------------------------------------
(* The supervisor's steps.                                                 *)

ExecutorRests == UNCHANGED <<queue, worker, task, asked, closing, cancelled>>

LEMMA RestingThreads ==
  ASSUME ThreadsKept, UNCHANGED <<queue, worker, task, closing, cancelled, halting>>,
         status' \in [Services -> States],
         submitted' \subseteq Services, rerun' \subseteq Services, unserved' \subseteq Services,
         calling' \subseteq Services, sweep' \subseteq GateNames \X Services
  PROVE  ThreadsKept'
<1>1. ServicesTyped'
  BY DEF ThreadsKept, ServicesTyped
<1>2. QueuesKept' /\ WorkersKept' /\ HaltingKept'
  BY DEF ThreadsKept, QueuesKept, WorkersKept, HaltingKept
<1> QED
  BY <1>1, <1>2 DEF ThreadsKept

LEMMA NowhereWhenIdle ==
  ASSUME ServicesInv, NEW s \in Services, ~halting, s \notin submitted, status[s] # "running"
  PROVE  s \notin calling /\ s \notin cancelled /\ ~InLine(s) /\ ~Working(s)
BY WorkingIsTakenOrRunning DEF ServicesInv, InOrder, StatusTells

LEMMA TriggerKeeps ==
  ASSUME ServicesInv, NEW s \in Services, Trigger(s)
  PROVE  ServicesInv'
<1>1. /\ ~halting /\ status[s] # "disabled" /\ unserved' = unserved \cup {s}
      /\ UNCHANGED <<opened, sweep, halting, queue, worker, task, asked, closing, cancelled>>
      /\ \/ /\ status[s] \in {"pending", "running"}
            /\ rerun' = rerun \cup {s}
            /\ UNCHANGED <<status, submitted, calling>>
         \/ /\ status[s] \notin {"pending", "running"}
            /\ rerun' = rerun /\ Gated(s, opened)
            /\ status' = [status EXCEPT ![s] = "pending"] /\ UNCHANGED <<submitted, calling>>
         \/ /\ status[s] \notin {"pending", "running"}
            /\ rerun' = rerun /\ ~Gated(s, opened)
            /\ status' = [status EXCEPT ![s] = "pending"]
            /\ submitted' = submitted \cup {s} /\ calling' = calling \cup {s}
  BY DEF Trigger, Dispatch
<1>2. status \in [Services -> States]
  BY DEF ServicesInv, ThreadsKept, ServicesTyped
<1>3. ThreadsKept'
  <2>1. status' \in [Services -> States]
    BY <1>1, <1>2 DEF States
  <2>2. /\ submitted' \subseteq Services /\ rerun' \subseteq Services /\ unserved' \subseteq Services
        /\ calling' \subseteq Services /\ sweep' \subseteq GateNames \X Services
    BY <1>1 DEF ServicesInv, ThreadsKept, ServicesTyped
  <2> QED
    BY <1>1, <2>1, <2>2, RestingThreads DEF ServicesInv
<1>4. \A t \in Services : /\ InLine(t)' <=> InLine(t)
                          /\ Working(t)' <=> Working(t)
                          /\ Taken(t)' <=> Taken(t)
                          /\ Running(t)' <=> Running(t)
  BY <1>1, PlacesStay
<1>5. ASSUME NEW t \in Services, t # s PROVE InOrder(t)'
  <2>1. status'[t] = status[t]
    BY <1>1, <1>2, <1>5
  <2>2. Still(t)
    BY <1>1, <1>4, <1>5, <2>1 DEF Still, InSweep
  <2> QED
    BY <2>2, StillInOrder DEF ServicesInv
<1>6. InOrder(s)'
  <2>1. InOrder(s) /\ (Gated(s, opened)' <=> Gated(s, opened))
    BY <1>1 DEF ServicesInv, Gated
  <2>2. CASE status[s] \in {"pending", "running"}
    <3>1. OnePlace(s)' /\ StatusTells(s)'
      BY <1>1, <1>4, <2>1, <2>2 DEF InOrder, OnePlace, StatusTells
    <3>2. Remembered(s)'
      BY <1>1, <2>1, <2>2 DEF InOrder, Remembered, InSweep
    <3> QED
      BY <3>1, <3>2 DEF InOrder
  <2>3. CASE status[s] \notin {"pending", "running"}
    <3>1. s \notin submitted
      BY <1>1, <2>1, <2>3 DEF InOrder, StatusTells
    <3>2. s \notin calling /\ s \notin cancelled /\ ~InLine(s) /\ ~Working(s) /\ ~Taken(s) /\ ~Running(s)
      BY <1>1, <2>3, <3>1, NowhereWhenIdle DEF Taken, Running
    <3>3. status'[s] = "pending"
      BY <1>1, <1>2, <2>3
    <3>4. /\ OnePlace(s)'
      BY <1>1, <1>4, <3>2 DEF OnePlace
    <3>5. StatusTells(s)'
      BY <1>1, <1>4, <2>3, <3>1, <3>2, <3>3 DEF StatusTells
    <3>6. Remembered(s)'
      BY <1>1, <2>1, <2>3, <3>3 DEF Remembered, InSweep
    <3> QED
      BY <3>4, <3>5, <3>6 DEF InOrder
  <2> QED
    BY <2>2, <2>3
<1> QED
  BY <1>3, <1>5, <1>6 DEF ServicesInv

LEMMA SetGateKeeps ==
  ASSUME ServicesInv, NEW gate \in GateNames, SetGate(gate)
  PROVE  ServicesInv'
<1>1. /\ UNCHANGED <<status, submitted, rerun, halting, unserved, executorVars>>
      /\ \/ opened' = opened \ {gate} /\ sweep' = sweep
         \/ sweep' = sweep \cup ({gate} \X Services)
  BY DEF SetGate
<1>2. UNCHANGED <<calling, queue, worker, task, asked, closing, cancelled>>
  BY <1>1 DEF executorVars
<1>3. ThreadsKept'
  <2>1. /\ status' \in [Services -> States] /\ submitted' \subseteq Services
        /\ rerun' \subseteq Services /\ unserved' \subseteq Services
        /\ calling' \subseteq Services /\ sweep' \subseteq GateNames \X Services
    BY <1>1, <1>2 DEF ServicesInv, ThreadsKept, ServicesTyped
  <2> QED
    BY <1>1, <1>2, <2>1, RestingThreads DEF ServicesInv
<1>4. ASSUME NEW t \in Services PROVE InOrder(t)'
  <2>1. InOrder(t)
    BY DEF ServicesInv
  <2>2. OnePlace(t)' /\ StatusTells(t)'
    <3>1. /\ InLine(t)' <=> InLine(t)
          /\ Working(t)' <=> Working(t)
          /\ Taken(t)' <=> Taken(t)
          /\ Running(t)' <=> Running(t)
      BY <1>2, PlacesStay
    <3> QED
      BY <1>1, <1>2, <2>1, <3>1 DEF InOrder, OnePlace, StatusTells
  <2>3. Remembered(t)'
    <3>1. Gated(t, opened) \/ InSweep(t) => Gated(t, opened)' \/ InSweep(t)'
      BY <1>1 DEF Gated, InSweep
    <3> QED
      BY <1>1, <2>1, <3>1 DEF InOrder, Remembered, InSweep
  <2> QED
    BY <2>2, <2>3 DEF InOrder
<1> QED
  BY <1>3, <1>4 DEF ServicesInv

LEMMA SweepOverKeeps ==
  ASSUME ServicesInv, NEW s \in Services, NEW gate \in GateNames, SweepOver(gate, s)
  PROVE  ServicesInv'
<1>1. /\ sweep' = sweep \ {<<gate, s>>}
      /\ UNCHANGED <<rerun, opened, halting, unserved, queue, worker, task, asked, closing, cancelled>>
      /\ \/ /\ status[s] = "pending" /\ s \notin submitted /\ ~Gated(s, opened)
            /\ status' = [status EXCEPT ![s] = "pending"]
            /\ submitted' = submitted \cup {s} /\ calling' = calling \cup {s}
         \/ /\ status[s] = "pending" /\ s \notin submitted => Gated(s, opened)
            /\ UNCHANGED <<status, submitted, calling>>
  BY DEF SweepOver, Dispatch
<1>2. status \in [Services -> States]
  BY DEF ServicesInv, ThreadsKept, ServicesTyped
<1>3. status' = status
  BY <1>1, <1>2
<1>4. ThreadsKept'
  <2>1. /\ status' \in [Services -> States] /\ submitted' \subseteq Services
        /\ rerun' \subseteq Services /\ unserved' \subseteq Services
        /\ calling' \subseteq Services /\ sweep' \subseteq GateNames \X Services
    BY <1>1, <1>3 DEF ServicesInv, ThreadsKept, ServicesTyped
  <2> QED
    BY <1>1, <2>1, RestingThreads DEF ServicesInv
<1>5. \A t \in Services : /\ InLine(t)' <=> InLine(t)
                          /\ Working(t)' <=> Working(t)
                          /\ Taken(t)' <=> Taken(t)
                          /\ Running(t)' <=> Running(t)
  BY <1>1, PlacesStay
<1>6. ASSUME NEW t \in Services, t # s PROVE InOrder(t)'
  <2>1. Still(t)
    BY <1>1, <1>3, <1>5, <1>6 DEF Still, InSweep
  <2> QED
    BY <2>1, StillInOrder DEF ServicesInv
<1>7. InOrder(s)'
  <2>1. InOrder(s) /\ (Gated(s, opened)' <=> Gated(s, opened))
    BY <1>1 DEF ServicesInv, Gated
  <2>2. CASE status[s] = "pending" /\ s \notin submitted /\ ~Gated(s, opened)
    <3>1. ~halting
      BY <2>1, <2>2 DEF InOrder, StatusTells
    <3>2. s \notin calling /\ s \notin cancelled /\ ~InLine(s) /\ ~Working(s) /\ ~Taken(s) /\ ~Running(s)
      BY <2>2, <3>1, NowhereWhenIdle DEF Taken, Running
    <3>3. s \in submitted' /\ s \in calling'
      BY <1>1, <2>2
    <3>4. OnePlace(s)'
      BY <1>1, <1>5, <3>2 DEF OnePlace
    <3>5. StatusTells(s)'
      BY <1>1, <1>3, <1>5, <2>2, <3>1, <3>2, <3>3 DEF StatusTells
    <3>6. Remembered(s)'
      BY <1>1, <1>3, <2>2, <3>3 DEF Remembered, InSweep
    <3> QED
      BY <3>4, <3>5, <3>6 DEF InOrder
  <2>3. CASE ~(status[s] = "pending" /\ s \notin submitted /\ ~Gated(s, opened))
    <3>1. UNCHANGED <<submitted, calling>>
      BY <1>1, <2>3
    <3>2. OnePlace(s)' /\ StatusTells(s)'
      BY <1>1, <1>3, <1>5, <2>1, <3>1 DEF InOrder, OnePlace, StatusTells
    <3>3. Remembered(s)'
      BY <1>1, <1>3, <2>1, <2>3, <3>1 DEF InOrder, Remembered, InSweep
    <3> QED
      BY <3>2, <3>3 DEF InOrder
  <2> QED
    BY <2>2, <2>3
<1> QED
  BY <1>4, <1>6, <1>7 DEF ServicesInv

LEMMA HaltKeeps ==
  ASSUME ServicesInv, Halt
  PROVE  ServicesInv'
<1>1. /\ ~halting /\ halting' = TRUE /\ status' = [s \in Services |-> "stopping"]
      /\ rerun' = {} /\ closing' = "called"
      /\ UNCHANGED <<submitted, opened, sweep, unserved, calling, queue, worker, task, cancelled>>
  BY DEF Halt
<1>2. cancelled = {}
  BY <1>1 DEF ServicesInv, ThreadsKept, HaltingKept
<1>3. ThreadsKept'
  <2>1. ServicesTyped'
    BY <1>1 DEF ServicesInv, ThreadsKept, ServicesTyped, States, ClosingStates
  <2>2. QueuesKept' /\ WorkersKept' /\ HaltingKept'
    BY <1>1, <1>2 DEF ServicesInv, ThreadsKept, QueuesKept, WorkersKept, HaltingKept
  <2> QED
    BY <2>1, <2>2 DEF ThreadsKept
<1>4. ASSUME NEW t \in Services PROVE InOrder(t)'
  <2>1. InOrder(t) /\ status'[t] = "stopping"
    BY <1>1 DEF ServicesInv
  <2>2. /\ InLine(t)' <=> InLine(t)
        /\ Working(t)' <=> Working(t)
        /\ Taken(t)' <=> Taken(t)
        /\ Running(t)' <=> Running(t)
    BY <1>1, PlacesStay
  <2> QED
    BY <1>1, <2>1, <2>2 DEF InOrder, OnePlace, StatusTells, Remembered, InSweep
<1> QED
  BY <1>3, <1>4 DEF ServicesInv

-----------------------------------------------------------------------------
(* The executor's steps.  What is queued and the service that is being     *)
(* submitted are different services, so the queues always have room.       *)
LEMMA RoomForAll ==
  ASSUME ServicesInv, NEW s \in calling
  PROVE  QueuedUp < Capacity /\ QueuedUp \in Nat
<1> DEFINE places == {p \in Lanes \X (1..Capacity) : p[2] <= Len(queue[p[1]])}
           at(p) == queue[p[1]][p[2]]
           f == [p \in places |-> at(p)]
<1>1. s \in Services /\ ~InLine(s) /\ QueuesKept /\ queue \in [Lanes -> Seq(Services)]
  BY DEF ServicesInv, ThreadsKept, ServicesTyped, InOrder, OnePlace
<1>2. ASSUME NEW p \in places
      PROVE  /\ p = <<p[1], p[2]>> /\ p[1] \in Lanes /\ p[2] \in 1..Len(queue[p[1]])
             /\ at(p) \in Services \ {s} /\ LaneOf[at(p)] = p[1]
  <2>1. p = <<p[1], p[2]>> /\ p[1] \in Lanes /\ p[2] \in 1..Capacity /\ p[2] <= Len(queue[p[1]])
    OBVIOUS
  <2>2. queue[p[1]] \in Seq(Services) /\ Len(queue[p[1]]) \in Nat
    BY <1>1, <2>1, LenProperties
  <2>3. p[2] \in 1..Len(queue[p[1]])
    BY <2>1, <2>2, BackgroundAssumption
  <2>4. at(p) \in Services
    BY <2>2, <2>3, ElementOfSeq
  <2>5. LaneOf[at(p)] = p[1]
    BY <1>1, <2>1, <2>3 DEF QueuesKept
  <2>6. at(p) # s
    BY <1>1, <2>3, <2>5 DEF InLine
  <2> QED
    BY <2>1, <2>3, <2>4, <2>5, <2>6
<1>3. ASSUME NEW p \in places, NEW o \in places, at(p) = at(o) PROVE p = o
  <2>1. p[1] = o[1]
    BY <1>2, <1>3
  <2>2. p[2] = o[2]
    BY <1>1, <1>2, <1>3, <2>1 DEF QueuesKept
  <2> QED
    BY <1>2, <2>1, <2>2
<1> HIDE DEF places
<1>4. f \in Injection(places, Services \ {s})
  <2> HIDE DEF at
  <2>1. f \in [places -> Services \ {s}]
    BY <1>2
  <2>2. \A a, b \in places : f[a] = f[b] => a = b
    BY <1>3
  <2> QED
    BY <2>1, <2>2 DEF Injection, IsInjective
<1>5. IsFiniteSet(Services \ {s}) /\ Cardinality(Services \ {s}) = Cardinality(Services) - 1
  BY <1>1, FS_RemoveElement, BackgroundAssumption
<1> HIDE DEF f
<1>6. IsFiniteSet(places) /\ Cardinality(places) <= Cardinality(Services \ {s})
  BY <1>4, <1>5, FS_Injection
<1>7. Cardinality(places) \in Nat /\ Cardinality(Services) \in Nat
  BY <1>6, BackgroundAssumption, FS_CardinalityType
<1>8. Cardinality(places) < Capacity
  BY <1>5, <1>6, <1>7, BackgroundAssumption
<1> QED
  BY <1>7, <1>8 DEF QueuedUp, places

LEMMA SubmitKeeps ==
  ASSUME ServicesInv, NEW s \in Services, Submit(s)
  PROVE  ServicesInv'
<1>1. /\ s \in calling /\ calling' = calling \ {s}
      /\ UNCHANGED <<rerun, opened, sweep, halting, unserved, task, closing, cancelled>>
      /\ \/ /\ queue' = [queue EXCEPT ![LaneOf[s]] = Append(@, s)]
            /\ worker' = Woken
            /\ UNCHANGED <<status, submitted>>
         \/ /\ closing \notin {"open", "called"}
            /\ submitted' = submitted \ {s}
            /\ status' = [status EXCEPT ![s] = IF halting THEN "stopping" ELSE "idle"]
            /\ UNCHANGED <<queue, worker>>
  <2>1. s \in calling => QueuedUp < Capacity /\ ~(QueuedUp >= Capacity)
    BY RoomForAll, BackgroundAssumption
  <2> QED
    BY <2>1 DEF Submit
<1>2. /\ status \in [Services -> States] /\ InOrder(s) /\ ServicesTyped /\ QueuesKept
      /\ WorkersKept /\ HaltingKept
  BY DEF ServicesInv, ThreadsKept, ServicesTyped
<1>3. s \notin cancelled /\ ~InLine(s) /\ ~Working(s) /\ s \in submitted
  BY <1>1, <1>2 DEF InOrder, OnePlace, StatusTells
<1>4. CASE /\ queue' = [queue EXCEPT ![LaneOf[s]] = Append(@, s)]
           /\ worker' = Woken
           /\ UNCHANGED <<status, submitted>>
  <2>1. /\ queue' \in [Lanes -> Seq(Services)] /\ QueuesKept'
        /\ \A t \in Services : InLine(t)' <=> InLine(t) \/ t = s
    BY <1>2, <1>3, <1>4, JoiningTheQueue
  <2>2. /\ worker' \in [Lanes -> WorkerStates] /\ WorkersKept'
        /\ \A t \in Services : /\ Working(t)' <=> Working(t)
                               /\ Taken(t)' <=> Taken(t)
                               /\ Running(t)' <=> Running(t)
    BY <1>1, <1>4, WakingKeeps DEF ServicesInv
  <2>3. ThreadsKept'
    <3>1. ServicesTyped'
      BY <1>1, <1>2, <1>4, <2>1, <2>2 DEF ServicesTyped
    <3> QED
      BY <1>1, <1>2, <2>1, <2>2, <3>1 DEF ThreadsKept, HaltingKept
  <2>4. ASSUME NEW t \in Services, t # s PROVE InOrder(t)'
    <3>1. Still(t)
      BY <1>1, <1>4, <2>1, <2>2, <2>4 DEF Still, InSweep
    <3> QED
      BY <3>1, StillInOrder DEF ServicesInv
  <2>5. InOrder(s)'
    <3>1. OnePlace(s)' /\ StatusTells(s)'
      BY <1>1, <1>2, <1>3, <1>4, <2>1, <2>2 DEF InOrder, OnePlace, StatusTells
    <3>2. Remembered(s)'
      BY <1>1, <1>2, <1>3, <1>4 DEF InOrder, Remembered, InSweep
    <3> QED
      BY <3>1, <3>2 DEF InOrder
  <2> QED
    BY <2>3, <2>4, <2>5 DEF ServicesInv
<1>5. CASE /\ closing \notin {"open", "called"}
           /\ submitted' = submitted \ {s}
           /\ status' = [status EXCEPT ![s] = IF halting THEN "stopping" ELSE "idle"]
           /\ UNCHANGED <<queue, worker>>
  <2>1. halting
    BY <1>2, <1>5 DEF HaltingKept
  <2>2. status' = [status EXCEPT ![s] = "stopping"] /\ status'[s] = "stopping"
        /\ status' \in [Services -> States]
    BY <1>2, <1>5, <2>1 DEF States
  <2>3. ThreadsKept'
    <3>1. /\ submitted' \subseteq Services /\ rerun' \subseteq Services /\ unserved' \subseteq Services
          /\ calling' \subseteq Services /\ sweep' \subseteq GateNames \X Services
      BY <1>1, <1>2, <1>5 DEF ServicesTyped
    <3> QED
      BY <1>1, <1>5, <2>2, <3>1, RestingThreads DEF ServicesInv
  <2>4. \A t \in Services : /\ InLine(t)' <=> InLine(t)
                            /\ Working(t)' <=> Working(t)
                            /\ Taken(t)' <=> Taken(t)
                            /\ Running(t)' <=> Running(t)
    BY <1>1, <1>5, PlacesStay
  <2>5. ASSUME NEW t \in Services, t # s PROVE InOrder(t)'
    <3>1. status'[t] = status[t]
      BY <1>2, <2>2, <2>5
    <3>2. Still(t)
      BY <1>1, <1>5, <2>4, <2>5, <3>1 DEF Still, InSweep
    <3> QED
      BY <3>2, StillInOrder DEF ServicesInv
  <2>6. InOrder(s)'
    <3>1. ~Taken(s) /\ ~Running(s)
      BY <1>3 DEF Taken, Running
    <3> QED
      BY <1>1, <1>3, <1>5, <2>1, <2>2, <2>4, <3>1 DEF InOrder, OnePlace, StatusTells, Remembered, InSweep
  <2> QED
    BY <2>3, <2>5, <2>6 DEF ServicesInv
<1> QED
  BY <1>1, <1>4, <1>5

LEMMA TestKeeps ==
  ASSUME ServicesInv, NEW lane \in Lanes, Test(lane)
  PROVE  ServicesInv'
<1>1. /\ worker[lane] = "testing"
      /\ UNCHANGED <<status, submitted, rerun, opened, sweep, halting, unserved>>
      /\ UNCHANGED <<calling, closing, cancelled>>
      /\ \/ /\ queue[lane] # <<>>
            /\ worker' = [worker EXCEPT ![lane] = "taken"]
            /\ task' = [task EXCEPT ![lane] = Head(queue[lane])]
            /\ queue' = [queue EXCEPT ![lane] = Tail(@)]
         \/ /\ \E where \in {"exited", "dozing"} : worker' = [worker EXCEPT ![lane] = where]
            /\ UNCHANGED <<task, queue>>
  BY DEF Test, supervisorVars
<1>2. /\ ServicesTyped /\ QueuesKept /\ WorkersKept /\ HaltingKept
      /\ worker \in [Lanes -> WorkerStates] /\ task \in [Lanes -> Services \cup {None}]
  BY DEF ServicesInv, ThreadsKept, ServicesTyped
<1>3. task[lane] = None
  BY <1>1, <1>2 DEF WorkersKept
<1>4. CASE /\ queue[lane] # <<>>
           /\ worker' = [worker EXCEPT ![lane] = "taken"]
           /\ task' = [task EXCEPT ![lane] = Head(queue[lane])]
           /\ queue' = [queue EXCEPT ![lane] = Tail(@)]
  <2>7. PICK s \in Services : s = Head(queue[lane])
    BY <1>2, <1>4, LeavingTheQueue
  <2>1. /\ queue' \in [Lanes -> Seq(Services)] /\ QueuesKept'
        /\ LaneOf[s] = lane /\ InLine(s)
        /\ \A t \in Services : InLine(t)' <=> InLine(t) /\ t # s
    BY <1>2, <1>4, <2>7, LeavingTheQueue
  <2>2. /\ worker' \in [Lanes -> WorkerStates] /\ task' \in [Lanes -> Services \cup {None}]
        /\ worker'[lane] = "taken" /\ task'[lane] = s
        /\ \A other \in Lanes : other # lane => worker'[other] = worker[other] /\ task'[other] = task[other]
    BY <1>2, <1>4, <2>7 DEF WorkerStates
  <2>3. ThreadsKept'
    <3>1. ServicesTyped'
      BY <1>1, <1>2, <2>1, <2>2 DEF ServicesTyped
    <3>2. WorkersKept'
      <4> SUFFICES ASSUME NEW other \in Lanes
                   PROVE  /\ task'[other] # None <=> worker'[other] \in {"taken", "running", "handing"}
                          /\ task'[other] # None => LaneOf[task'[other]] = other
        BY DEF WorkersKept
      <4>1. CASE other = lane
        BY <2>1, <2>2, <4>1, Lane
      <4>2. CASE other # lane
        BY <1>2, <2>2, <4>2 DEF WorkersKept
      <4> QED
        BY <4>1, <4>2
    <3> QED
      BY <1>1, <1>2, <2>1, <3>1, <3>2 DEF ThreadsKept, HaltingKept
  <2>4. ASSUME NEW t \in Services, t # s
        PROVE  (Working(t)' <=> Working(t)) /\ (Taken(t)' <=> Taken(t)) /\ (Running(t)' <=> Running(t))
    <3>1. CASE LaneOf[t] = lane
      <4>1. ~Working(t) /\ ~Working(t)'
        BY <1>3, <2>2, <2>4, <3>1, Lane DEF Working
      <4> QED
        BY <4>1 DEF Taken, Running
    <3>2. CASE LaneOf[t] # lane
      BY <2>2, <3>2, Lane DEF Working, Taken, Running
    <3> QED
      BY <3>1, <3>2
  <2>5. ASSUME NEW t \in Services, t # s PROVE InOrder(t)'
    <3>1. Still(t)
      BY <1>1, <2>1, <2>4, <2>5 DEF Still, InSweep
    <3> QED
      BY <2>5, <3>1, StillInOrder DEF ServicesInv
  <2>6. InOrder(s)'
    <3>1. InOrder(s)
      BY <2>1 DEF ServicesInv
    <3>2. Working(s)' /\ Taken(s)' /\ ~Running(s)' /\ ~InLine(s)'
      BY <2>1, <2>2 DEF Working, Taken, Running
    <3>3. ~Working(s) /\ s \notin calling /\ s \notin cancelled /\ s \in submitted /\ ~Running(s)
      BY <2>1, <3>1 DEF InOrder, OnePlace, StatusTells, Running
    <3>4. OnePlace(s)' /\ StatusTells(s)'
      BY <1>1, <3>1, <3>2, <3>3 DEF InOrder, OnePlace, StatusTells
    <3>5. Remembered(s)'
      BY <1>1, <3>1 DEF InOrder, Remembered, Gated, InSweep
    <3> QED
      BY <3>4, <3>5 DEF InOrder
  <2> QED
    BY <2>3, <2>5, <2>6 DEF ServicesInv
<1>5. CASE /\ \E where \in {"exited", "dozing"} : worker' = [worker EXCEPT ![lane] = where]
           /\ UNCHANGED <<task, queue>>
  <2>1. /\ worker' \in [Lanes -> WorkerStates] /\ worker'[lane] \in {"exited", "dozing"}
        /\ \A other \in Lanes : other # lane => worker'[other] = worker[other]
    BY <1>2, <1>5 DEF WorkerStates
  <2>2. ThreadsKept'
    <3>1. ServicesTyped'
      BY <1>1, <1>2, <1>5, <2>1 DEF ServicesTyped
    <3>2. WorkersKept'
      BY <1>2, <1>3, <1>5, <2>1 DEF WorkersKept
    <3> QED
      BY <1>1, <1>2, <1>5, <3>1, <3>2 DEF ThreadsKept, HaltingKept, QueuesKept
  <2>3. ASSUME NEW t \in Services PROVE InOrder(t)'
    <3>1. (Working(t)' <=> Working(t)) /\ (Taken(t)' <=> Taken(t)) /\ (Running(t)' <=> Running(t))
      BY <1>1, <1>3, <1>5, <2>1, Lane DEF Working, Taken, Running
    <3>2. InLine(t)' <=> InLine(t)
      BY <1>5 DEF InLine
    <3>3. Still(t)
      BY <1>1, <3>1, <3>2 DEF Still, InSweep
    <3> QED
      BY <3>3, StillInOrder DEF ServicesInv
  <2> QED
    BY <2>2, <2>3 DEF ServicesInv
<1> QED
  BY <1>1, <1>4, <1>5

LEMMA FallAsleepKeeps ==
  ASSUME ServicesInv, NEW lane \in Lanes, FallAsleep(lane)
  PROVE  ServicesInv'
<1>1. /\ worker[lane] = "dozing" /\ worker' = [worker EXCEPT ![lane] = "asleep"]
      /\ UNCHANGED <<status, submitted, rerun, opened, sweep, halting, unserved>>
      /\ UNCHANGED <<calling, queue, task, closing, cancelled>>
  BY DEF FallAsleep, supervisorVars
<1>2. ServicesTyped /\ QueuesKept /\ WorkersKept /\ HaltingKept
  BY DEF ServicesInv, ThreadsKept
<1>3. /\ worker' \in [Lanes -> WorkerStates] /\ worker'[lane] = "asleep" /\ task[lane] = None
      /\ \A other \in Lanes : other # lane => worker'[other] = worker[other]
  BY <1>1, <1>2 DEF ServicesTyped, WorkersKept, WorkerStates
<1>4. ThreadsKept'
  <2>1. ServicesTyped'
    BY <1>1, <1>2, <1>3 DEF ServicesTyped
  <2>2. WorkersKept'
    BY <1>1, <1>2, <1>3 DEF WorkersKept
  <2> QED
    BY <1>1, <1>2, <2>1, <2>2 DEF ThreadsKept, HaltingKept, QueuesKept
<1>5. ASSUME NEW t \in Services PROVE InOrder(t)'
  <2>1. (Working(t)' <=> Working(t)) /\ (Taken(t)' <=> Taken(t)) /\ (Running(t)' <=> Running(t))
    BY <1>1, <1>3, Lane DEF Working, Taken, Running
  <2>2. InLine(t)' <=> InLine(t)
    BY <1>1 DEF InLine
  <2>3. Still(t)
    BY <1>1, <2>1, <2>2 DEF Still, InSweep
  <2> QED
    BY <2>3, StillInOrder DEF ServicesInv
<1> QED
  BY <1>4, <1>5 DEF ServicesInv

LEMMA BeginKeeps ==
  ASSUME ServicesInv, NEW lane \in Lanes, Begin(lane)
  PROVE  ServicesInv'
<1>2. ServicesTyped /\ QueuesKept /\ WorkersKept /\ HaltingKept
  BY DEF ServicesInv, ThreadsKept
<1>3. PICK s \in Services : s = task[lane] /\ LaneOf[s] = lane /\ s # None
  BY <1>2 DEF Begin, ServicesTyped, WorkersKept
<1>1. /\ worker[lane] = "taken" /\ worker' = [worker EXCEPT ![lane] = "running"]
      /\ status' = [status EXCEPT ![s] = "running"]
      /\ submitted' = submitted \ {s} /\ unserved' = unserved \ {s}
      /\ UNCHANGED <<rerun, opened, sweep, halting, calling, queue, task, closing, cancelled>>
  BY <1>3 DEF Begin
<1>4. /\ worker' \in [Lanes -> WorkerStates] /\ worker'[lane] = "running" /\ task[lane] = s
      /\ \A other \in Lanes : other # lane => worker'[other] = worker[other]
      /\ status' \in [Services -> States] /\ status'[s] = "running"
      /\ \A t \in Services : t # s => status'[t] = status[t]
  BY <1>1, <1>2, <1>3 DEF ServicesTyped, WorkerStates, States
<1>5. ThreadsKept'
  <2>1. ServicesTyped'
    BY <1>1, <1>2, <1>4 DEF ServicesTyped
  <2>2. WorkersKept'
    BY <1>1, <1>2, <1>4 DEF WorkersKept
  <2> QED
    BY <1>1, <1>2, <2>1, <2>2 DEF ThreadsKept, HaltingKept, QueuesKept
<1>6. \A t \in Services : InLine(t)' <=> InLine(t)
  BY <1>1 DEF InLine
<1>7. ASSUME NEW t \in Services, t # s PROVE InOrder(t)'
  <2>1. (Working(t)' <=> Working(t)) /\ (Taken(t)' <=> Taken(t)) /\ (Running(t)' <=> Running(t))
    BY <1>1, <1>4, <1>7, Lane DEF Working, Taken, Running
  <2>2. Still(t)
    BY <1>1, <1>4, <1>6, <1>7, <2>1 DEF Still, InSweep
  <2> QED
    BY <1>7, <2>2, StillInOrder DEF ServicesInv
<1>8. InOrder(s)'
  <2>1. InOrder(s)
    BY <1>3 DEF ServicesInv
  <2>2. Working(s)' /\ Running(s)' /\ ~Taken(s)' /\ Working(s)
    BY <1>1, <1>3, <1>4 DEF Working, Taken, Running
  <2>3. OnePlace(s)' /\ StatusTells(s)'
    BY <1>1, <1>4, <1>6, <2>1, <2>2 DEF InOrder, OnePlace, StatusTells
  <2>4. Remembered(s)'
    BY <1>1, <1>4 DEF Remembered, InSweep
  <2> QED
    BY <2>3, <2>4 DEF InOrder
<1> QED
  BY <1>5, <1>7, <1>8 DEF ServicesInv

LEMMA ReturnKeeps ==
  ASSUME ServicesInv, NEW lane \in Lanes, Return(lane)
  PROVE  ServicesInv'
<1>1. /\ worker[lane] = "handing" /\ worker' = [worker EXCEPT ![lane] = "testing"]
      /\ task' = [task EXCEPT ![lane] = None]
      /\ UNCHANGED <<status, submitted, rerun, opened, sweep, halting, unserved>>
      /\ UNCHANGED <<calling, queue, closing, cancelled>>
  BY DEF Return, supervisorVars
<1>2. ServicesTyped /\ QueuesKept /\ WorkersKept /\ HaltingKept
  BY DEF ServicesInv, ThreadsKept
<1>3. /\ worker' \in [Lanes -> WorkerStates] /\ task' \in [Lanes -> Services \cup {None}]
      /\ worker'[lane] = "testing" /\ task'[lane] = None
      /\ \A other \in Lanes : other # lane => worker'[other] = worker[other] /\ task'[other] = task[other]
  BY <1>1, <1>2 DEF ServicesTyped, WorkerStates
<1>4. ThreadsKept'
  <2>1. ServicesTyped'
    BY <1>1, <1>2, <1>3 DEF ServicesTyped
  <2>2. WorkersKept'
    BY <1>2, <1>3 DEF WorkersKept
  <2> QED
    BY <1>1, <1>2, <2>1, <2>2 DEF ThreadsKept, HaltingKept, QueuesKept
<1>5. ASSUME NEW t \in Services PROVE InOrder(t)'
  <2>1. (Working(t)' <=> Working(t)) /\ (Taken(t)' <=> Taken(t)) /\ (Running(t)' <=> Running(t))
    BY <1>1, <1>3, Lane DEF Working, Taken, Running
  <2>2. InLine(t)' <=> InLine(t)
    BY <1>1 DEF InLine
  <2>3. Still(t)
    BY <1>1, <2>1, <2>2 DEF Still, InSweep
  <2> QED
    BY <2>3, StillInOrder DEF ServicesInv
<1> QED
  BY <1>4, <1>5 DEF ServicesInv

(* A service that was with a worker or taken back from a queue is done     *)
(* with, or is submitted once more.                                        *)
LEMMA CompletedKeeps ==
  ASSUME ServicesInv, ServicesTyped', QueuesKept', WorkersKept',
         NEW s \in Services, NEW result, Completed(s, result),
         Running(s) \/ s \in cancelled, ~Working(s)', s \notin cancelled',
         UNCHANGED <<queue, closing>>, cancelled' \subseteq cancelled,
         s \in cancelled => result = "cancelled",
         \A t \in Services : t # s =>
           /\ t \in cancelled' <=> t \in cancelled
           /\ Working(t)' <=> Working(t)
           /\ Taken(t)' <=> Taken(t)
           /\ Running(t)' <=> Running(t)
  PROVE  ServicesInv'
<1> DEFINE more == IF result = "failed" THEN failures[s] + 1
                   ELSE IF result = "succeeded" THEN 0 ELSE failures[s]
           disabled == result = "failed" /\ more >= FailureLimit
           ends == IF disabled THEN "disabled"
                   ELSE IF halting THEN "stopping"
                   ELSE IF s \in rerun THEN "pending" ELSE "idle"
<1>1. /\ rerun' = rerun \ {s} /\ UNCHANGED <<opened, sweep, halting, unserved>>
      /\ \/ /\ ~disabled /\ ~halting /\ s \in rerun /\ ~Gated(s, opened)
            /\ status' = [status EXCEPT ![s] = "pending"]
            /\ submitted' = submitted \cup {s} /\ calling' = calling \cup {s}
         \/ /\ ~(~disabled /\ ~halting /\ s \in rerun /\ ~Gated(s, opened))
            /\ status' = [status EXCEPT ![s] = ends]
            /\ submitted' = submitted \ {s} /\ calling' = calling
  BY DEF Completed, Dispatch
<1> HIDE DEF more
<1>2. disabled \in BOOLEAN /\ (disabled => result # "cancelled")
  OBVIOUS
<1> HIDE DEF disabled
<1>3. status \in [Services -> States] /\ InOrder(s) /\ HaltingKept
  BY DEF ServicesInv, ThreadsKept, ServicesTyped
<1>4. s \notin calling /\ ~InLine(s) /\ (s \in cancelled => halting)
  BY <1>3 DEF InOrder, OnePlace, Running, HaltingKept
<1>5. \A t \in Services : InLine(t)' <=> InLine(t)
  BY DEF InLine
<1>6. ~Taken(s)' /\ ~Running(s)' /\ ~InLine(s)'
  BY <1>4, <1>5 DEF Taken, Running
<1>7. ThreadsKept'
  BY <1>1, <1>3 DEF ThreadsKept, HaltingKept
<1>8. ASSUME NEW t \in Services, t # s PROVE InOrder(t)'
  <2>1. status'[t] = status[t]
    BY <1>1, <1>3, <1>8
  <2>2. Still(t)
    BY <1>1, <1>5, <1>8, <2>1 DEF Still, InSweep
  <2> QED
    BY <1>8, <2>2, StillInOrder DEF ServicesInv
<1>9. InOrder(s)'
  <2>1. Gated(s, opened)' <=> Gated(s, opened)
    BY <1>1 DEF Gated
  <2>2. CASE /\ ~disabled /\ ~halting /\ s \in rerun /\ ~Gated(s, opened)
             /\ status' = [status EXCEPT ![s] = "pending"]
             /\ submitted' = submitted \cup {s} /\ calling' = calling \cup {s}
    <3>1. status'[s] = "pending" /\ s \in submitted' /\ s \in calling' /\ ~halting'
      BY <1>1, <1>3, <2>2
    <3> QED
      BY <1>6, <3>1 DEF InOrder, OnePlace, StatusTells, Remembered, InSweep
  <2>3. CASE /\ ~(~disabled /\ ~halting /\ s \in rerun /\ ~Gated(s, opened))
             /\ status' = [status EXCEPT ![s] = ends]
             /\ submitted' = submitted \ {s} /\ calling' = calling
    <3>1. status'[s] = ends /\ s \notin submitted' /\ s \notin calling'
      BY <1>3, <1>4, <2>3
    <3>2. OnePlace(s)'
      BY <1>6, <3>1 DEF OnePlace
    <3>3. ends # "running" /\ (halting => ends \in {"stopping", "disabled"})
      OBVIOUS
    <3>4. StatusTells(s)'
      BY <1>1, <1>6, <3>1, <3>3 DEF StatusTells
    <3>5. Remembered(s)'
      <4>1. ends = "pending" => ~disabled /\ ~halting /\ s \in rerun
        OBVIOUS
      <4>2. ends = "pending" => Gated(s, opened)
        BY <2>3, <4>1
      <4>3. s \in unserved /\ ~halting => s \in rerun
        <5>1. ~halting => status[s] = "running"
          BY <1>3, <1>4 DEF InOrder, StatusTells
        <5> QED
          BY <1>3, <5>1 DEF InOrder, Remembered, InSweep
      <4>4. s \in unserved /\ ~halting /\ ends # "disabled" => ends = "pending"
        BY <4>3
      <4> HIDE DEF ends
      <4> QED
        BY <1>1, <2>1, <3>1, <4>2, <4>4 DEF Remembered, InSweep
    <3> QED
      BY <3>2, <3>4, <3>5 DEF InOrder
  <2> QED
    BY <1>1, <2>2, <2>3
<1> QED
  BY <1>7, <1>8, <1>9 DEF ServicesInv

LEMMA CompletedTypes ==
  ASSUME ServicesInv, NEW s \in Services, NEW result, Completed(s, result)
  PROVE  /\ status' \in [Services -> States]
         /\ submitted' \subseteq Services /\ rerun' \subseteq Services /\ unserved' \subseteq Services
         /\ calling' \subseteq Services /\ sweep' \subseteq GateNames \X Services /\ halting' = halting
<1>1. /\ status \in [Services -> States]
      /\ submitted \subseteq Services /\ rerun \subseteq Services /\ unserved \subseteq Services
      /\ calling \subseteq Services /\ sweep \subseteq GateNames \X Services
  BY DEF ServicesInv, ThreadsKept, ServicesTyped
<1>2. /\ \E next \in States : status' = [status EXCEPT ![s] = next]
      /\ submitted' = submitted \cup {s} \/ submitted' = submitted \ {s}
      /\ calling' = calling \cup {s} \/ calling' = calling
      /\ rerun' = rerun \ {s} /\ UNCHANGED <<sweep, halting, unserved>>
  BY DEF Completed, Dispatch, States
<1>3. status' \in [Services -> States]
  BY <1>1, <1>2
<1> QED
  BY <1>1, <1>2, <1>3

LEMMA EndKeeps ==
  ASSUME ServicesInv, NEW lane \in Lanes, NEW result, End(lane, result)
  PROVE  ServicesInv'
<1>1. ServicesTyped /\ QueuesKept /\ WorkersKept
  BY DEF ServicesInv, ThreadsKept
<1>2. PICK s \in Services : s = task[lane] /\ LaneOf[s] = lane /\ s # None
  BY <1>1 DEF End, ServicesTyped, WorkersKept
<1>3. /\ worker[lane] = "running" /\ worker' = [worker EXCEPT ![lane] = "handing"]
      /\ Completed(s, result) /\ UNCHANGED <<queue, task, asked, closing, cancelled>>
  BY <1>2 DEF End
<1>4. /\ worker' \in [Lanes -> WorkerStates] /\ worker'[lane] = "handing"
      /\ \A other \in Lanes : other # lane => worker'[other] = worker[other]
  BY <1>1, <1>3 DEF ServicesTyped, WorkerStates
<1>5. ServicesTyped'
  BY <1>1, <1>3, <1>4, CompletedTypes DEF ServicesTyped
<1>6. QueuesKept' /\ WorkersKept'
  BY <1>1, <1>2, <1>3, <1>4 DEF QueuesKept, WorkersKept
<1>7. Running(s) /\ Working(s) /\ ~Working(s)'
  BY <1>2, <1>3, <1>4 DEF Running, Working
<1>8. s \notin cancelled /\ s \notin cancelled'
  BY <1>3, <1>7 DEF ServicesInv, InOrder, OnePlace
<1>9. ASSUME NEW t \in Services, t # s
      PROVE  (Working(t)' <=> Working(t)) /\ (Taken(t)' <=> Taken(t)) /\ (Running(t)' <=> Running(t))
  BY <1>2, <1>3, <1>4, <1>9, Lane DEF Working, Taken, Running
<1> QED
  BY <1>3, <1>5, <1>6, <1>7, <1>8, <1>9, CompletedKeeps

LEMMA TellKeeps ==
  ASSUME ServicesInv, NEW s \in Services, Tell(s)
  PROVE  ServicesInv'
<1>1. /\ s \in cancelled /\ cancelled' = cancelled \ {s} /\ Completed(s, "cancelled")
      /\ UNCHANGED <<queue, worker, task, asked, closing>>
  BY DEF Tell
<1>2. ServicesTyped'
  BY <1>1, CompletedTypes DEF ServicesInv, ThreadsKept, ServicesTyped
<1>3. QueuesKept' /\ WorkersKept'
  BY <1>1 DEF ServicesInv, ThreadsKept, QueuesKept, WorkersKept
<1>4. \A t \in Services : /\ Working(t)' <=> Working(t)
                          /\ Taken(t)' <=> Taken(t)
                          /\ Running(t)' <=> Running(t)
  BY <1>1 DEF Working, Taken, Running
<1>5. ~Working(s) /\ ~Working(s)'
  BY <1>1, <1>4 DEF ServicesInv, InOrder, OnePlace
<1> QED
  BY <1>1, <1>2, <1>3, <1>4, <1>5, CompletedKeeps

LEMMA TakeQueuesKeeps ==
  ASSUME ServicesInv, TakeQueues
  PROVE  ServicesInv'
<1>1. /\ closing = "called" /\ closing' = "stopping" /\ cancelled' = Queued
      /\ queue' = [lane \in Lanes |-> <<>>]
      /\ UNCHANGED <<status, submitted, rerun, opened, sweep, halting, unserved>>
      /\ UNCHANGED <<calling, worker, task>>
  BY DEF TakeQueues, supervisorVars
<1>2. ServicesTyped /\ QueuesKept /\ WorkersKept /\ HaltingKept
  BY DEF ServicesInv, ThreadsKept
<1>3. cancelled = {} /\ halting
  BY <1>1, <1>2 DEF HaltingKept
<1>4. ASSUME NEW lane \in Lanes
      PROVE  /\ queue[lane] \in Seq(Services) /\ ToSet(queue[lane]) \subseteq Services
             /\ \A t : t \in ToSet(queue[lane]) <=> \E i \in 1..Len(queue[lane]) : queue[lane][i] = t
  <2>1. queue[lane] \in Seq(Services)
    BY <1>2, <1>4 DEF ServicesTyped
  <2>2. DOMAIN queue[lane] = 1..Len(queue[lane]) /\ \A i \in 1..Len(queue[lane]) : queue[lane][i] \in Services
    BY <2>1, LenProperties, ElementOfSeq
  <2> QED
    BY <2>1, <2>2 DEF ToSet
<1>5. cancelled' \subseteq Services
  BY <1>1, <1>4 DEF Queued
<1>6. \A t \in Services : t \in cancelled' <=> InLine(t)
  <2> SUFFICES ASSUME NEW t \in Services PROVE t \in Queued <=> InLine(t)
    BY <1>1
  <2>1. ASSUME InLine(t) PROVE t \in Queued
    <3>1. LaneOf[t] \in Lanes
      BY Lane
    <3>2. t \in ToSet(queue[LaneOf[t]])
      BY <1>4, <2>1, <3>1 DEF InLine
    <3> QED
      BY <3>1, <3>2 DEF Queued
  <2>2. ASSUME t \in Queued PROVE InLine(t)
    <3>1. PICK lane \in Lanes : t \in ToSet(queue[lane])
      BY <2>2 DEF Queued
    <3>2. PICK i \in 1..Len(queue[lane]) : queue[lane][i] = t
      BY <1>4, <3>1
    <3>3. LaneOf[t] = lane
      BY <1>2, <3>2 DEF QueuesKept
    <3> QED
      BY <3>2, <3>3 DEF InLine
  <2> QED
    BY <2>1, <2>2
<1>7. \A lane \in Lanes : queue'[lane] = <<>> /\ Len(queue'[lane]) = 0
  BY <1>1
<1>8. ThreadsKept'
  <2>1. queue' \in [Lanes -> Seq(Services)]
    <3>1. <<>> \in Seq(Services)
      BY EmptySeq
    <3> QED
      BY <1>1, <3>1
  <2>2. ServicesTyped'
    BY <1>1, <1>2, <1>5, <2>1 DEF ServicesTyped, ClosingStates
  <2>3. \A lane \in Lanes : \A i \in 1..Len(queue'[lane]) : FALSE
    BY <1>7
  <2> QED
    BY <1>1, <1>2, <1>3, <2>2, <2>3 DEF ThreadsKept, QueuesKept, WorkersKept, HaltingKept
<1>9. ASSUME NEW t \in Services PROVE InOrder(t)'
  <2>1. InOrder(t) /\ t \notin cancelled
    BY <1>3 DEF ServicesInv
  <2>2. ~InLine(t)'
    <3>1. \A i \in 1..Len(queue'[LaneOf[t]]) : FALSE
      BY <1>7, Lane
    <3> QED
      BY <1>1, <3>1 DEF InLine
  <2>3. (Working(t)' <=> Working(t)) /\ (Taken(t)' <=> Taken(t)) /\ (Running(t)' <=> Running(t))
    BY <1>1 DEF Working, Taken, Running
  <2>4. OnePlace(t)' /\ StatusTells(t)'
    BY <1>1, <1>6, <2>1, <2>2, <2>3 DEF InOrder, OnePlace, StatusTells
  <2>5. Remembered(t)'
    BY <1>1, <2>1 DEF InOrder, Remembered, Gated, InSweep
  <2> QED
    BY <2>4, <2>5 DEF InOrder
<1> QED
  BY <1>8, <1>9 DEF ServicesInv

LEMMA ClosingKeeps ==
  ASSUME ServicesInv, (\E lane \in Lanes : RequestStop(lane)) \/ NotifyAll \/ Joined
  PROVE  ServicesInv'
<1>1. /\ UNCHANGED <<status, submitted, rerun, opened, sweep, halting, unserved>>
      /\ UNCHANGED <<calling, queue, task, cancelled>>
      /\ worker' = Woken \/ worker' = worker
      /\ closing' \in ClosingStates /\ closing # "open" /\ closing' # "open"
      /\ cancelled # {} => closing' \in {"stopping", "telling"}
  BY DEF RequestStop, NotifyAll, Joined, supervisorVars, ClosingStates
<1>2. ThreadsKept
  BY DEF ServicesInv
<1>3. /\ worker' \in [Lanes -> WorkerStates] /\ WorkersKept'
      /\ \A t \in Services : /\ Working(t)' <=> Working(t)
                             /\ Taken(t)' <=> Taken(t)
                             /\ Running(t)' <=> Running(t)
  <2>1. CASE worker' = Woken
    BY <1>1, <1>2, <2>1, WakingKeeps
  <2>2. CASE worker' = worker
    BY <1>1, <1>2, <2>2 DEF ThreadsKept, ServicesTyped, WorkersKept, Working, Taken, Running
  <2> QED
    BY <1>1, <2>1, <2>2
<1>4. ThreadsKept'
  <2>1. ServicesTyped'
    BY <1>1, <1>2, <1>3 DEF ThreadsKept, ServicesTyped
  <2> QED
    BY <1>1, <1>2, <1>3, <2>1 DEF ThreadsKept, QueuesKept, HaltingKept
<1>5. ASSUME NEW t \in Services PROVE InOrder(t)'
  <2>1. InLine(t)' <=> InLine(t)
    BY <1>1 DEF InLine
  <2>2. Still(t)
    BY <1>1, <1>3, <2>1 DEF Still, InSweep
  <2> QED
    BY <2>2, StillInOrder DEF ServicesInv
<1> QED
  BY <1>4, <1>5 DEF ServicesInv

-----------------------------------------------------------------------------
LEMMA InitServices == BackgroundInit => ServicesInv
<1> SUFFICES ASSUME BackgroundInit PROVE ServicesInv
  OBVIOUS
<1>1. /\ status = [s \in Services |-> "idle"] /\ submitted = {} /\ rerun = {}
      /\ sweep = {} /\ ~halting /\ halting \in BOOLEAN /\ unserved = {} /\ calling = {}
      /\ queue = [lane \in Lanes |-> <<>>] /\ worker = [lane \in Lanes |-> "testing"]
      /\ task = [lane \in Lanes |-> None] /\ closing = "open" /\ cancelled = {}
  BY DEF BackgroundInit
<1>2. queue \in [Lanes -> Seq(Services)]
  <2>1. <<>> \in Seq(Services)
    BY EmptySeq
  <2> QED
    BY <1>1, <2>1
<1>3. \A lane \in Lanes : \A i \in 1..Len(queue[lane]) : FALSE
  BY <1>1
<1>4. ThreadsKept
  <2>1. ServicesTyped
    BY <1>1, <1>2 DEF ServicesTyped, States, WorkerStates, ClosingStates
  <2> QED
    BY <1>1, <1>3, <2>1 DEF ThreadsKept, QueuesKept, WorkersKept, HaltingKept
<1>5. ASSUME NEW s \in Services PROVE InOrder(s)
  <2>1. ~InLine(s)
    BY <1>3, Lane DEF InLine
  <2>2. ~Working(s) /\ ~Taken(s) /\ ~Running(s)
    BY <1>1, Lane DEF Working, Taken, Running
  <2> QED
    BY <1>1, <2>1, <2>2 DEF InOrder, OnePlace, StatusTells, Remembered, InSweep
<1> QED
  BY <1>4, <1>5 DEF ServicesInv

LEMMA NextServices ==
  ASSUME ServicesInv, [BackgroundNext]_backgroundVars
  PROVE  ServicesInv'
<1>1. ASSUME NEW s \in Services, Trigger(s) PROVE ServicesInv'
  BY <1>1, TriggerKeeps
<1>2. ASSUME NEW gate \in GateNames, SetGate(gate) PROVE ServicesInv'
  BY <1>2, SetGateKeeps
<1>3. ASSUME Halt PROVE ServicesInv'
  BY <1>3, HaltKeeps
<1>4. ASSUME CallerStep PROVE ServicesInv'
  BY <1>4, SubmitKeeps, SweepOverKeeps DEF CallerStep
<1>5. ASSUME NEW lane \in Lanes, WorkerStep(lane) PROVE ServicesInv'
  BY <1>5, TestKeeps, FallAsleepKeeps, BeginKeeps, ReturnKeeps, EndKeeps DEF WorkerStep
<1>6. ASSUME CloserStep PROVE ServicesInv'
  BY <1>6, TakeQueuesKeeps, ClosingKeeps, TellKeeps DEF CloserStep
<1>7. ASSUME UNCHANGED backgroundVars PROVE ServicesInv'
  <2>1. /\ UNCHANGED <<status, submitted, rerun, opened, sweep, halting, unserved>>
        /\ UNCHANGED <<calling, queue, worker, task, closing, cancelled>>
    BY <1>7 DEF backgroundVars, supervisorVars, executorVars
  <2>2. ThreadsKept'
    BY <2>1, RestingThreads DEF ServicesInv, ThreadsKept, ServicesTyped
  <2>3. ASSUME NEW t \in Services PROVE InOrder(t)'
    <3>1. Still(t)
      BY <2>1, PlacesStay DEF Still, InSweep
    <3> QED
      BY <3>1, StillInOrder DEF ServicesInv
  <2> QED
    BY <2>2, <2>3 DEF ServicesInv
<1> QED
  BY <1>1, <1>2, <1>3, <1>4, <1>5, <1>6, <1>7 DEF BackgroundNext

-----------------------------------------------------------------------------
LEMMA QueuesFit ==
  ASSUME ServicesInv, NEW lane \in Lanes
  PROVE  Len(queue[lane]) <= Capacity /\ Len(queue[lane]) \in Nat
<1> DEFINE q == queue[lane]
           f == [i \in 1..Len(q) |-> q[i]]
<1>1. q \in Seq(Services) /\ Len(q) \in Nat
  BY LenProperties DEF ServicesInv, ThreadsKept, ServicesTyped
<1>2. \A i \in 1..Len(q) : q[i] \in Services
  BY <1>1, ElementOfSeq
<1>3. \A i, j \in 1..Len(q) : q[i] = q[j] => i = j
  BY DEF ServicesInv, ThreadsKept, QueuesKept
<1> HIDE DEF q
<1>4. f \in Injection(1..Len(q), Services)
  <2>1. f \in [1..Len(q) -> Services]
    BY <1>2
  <2>2. \A a, b \in 1..Len(q) : f[a] = f[b] => a = b
    BY <1>3
  <2> QED
    BY <2>1, <2>2 DEF Injection, IsInjective
<1> HIDE DEF f
<1>5. Cardinality(1..Len(q)) <= Cardinality(Services)
  <2> DEFINE S == 1..Len(q)
  <2>1. f \in Injection(S, Services) /\ IsFiniteSet(Services)
    BY <1>4, BackgroundAssumption
  <2> HIDE DEF S
  <2>2. Cardinality(S) <= Cardinality(Services)
    BY <2>1, FS_Injection
  <2> QED
    BY <2>2 DEF S
<1>6. Cardinality(1..Len(q)) = Len(q)
  <2>1. \A n \in Nat : Cardinality(1..n) = n
    BY FS_Interval
  <2> QED
    BY <1>1, <2>1
<1>7. Cardinality(Services) \in Nat
  BY BackgroundAssumption, FS_CardinalityType
<1>8. Len(q) <= Capacity
  BY <1>1, <1>5, <1>6, <1>7, BackgroundAssumption
<1> QED
  BY <1>1, <1>8 DEF q

(* What a service's places are.                                            *)
LEMMA PlacesAre ==
  ASSUME ServicesInv, NEW s \in Services
  PROVE  /\ Places(s) # {} <=> s \in calling \/ s \in cancelled \/ InLine(s) \/ Working(s)
         /\ \A p, o \in Places(s) : p = o
<1> DEFINE lane == LaneOf[s]
<1>1. lane \in Lanes /\ s # None
  BY Lane
<1>2. \A l \in Lanes : task[l] = s => l = lane
  BY <1>1 DEF ServicesInv, ThreadsKept, WorkersKept
<1>3. \A p \in Places(s) :
        \/ p = <<"calling", s>> /\ s \in calling
        \/ p = <<"cancelled", s>> /\ s \in cancelled
        \/ p = <<"worker", lane>> /\ Working(s)
        \/ /\ p = <<p[1], p[2]>> /\ p[1] = lane /\ p[2] \in 1..Len(queue[lane])
           /\ queue[lane][p[2]] = s
  <2> SUFFICES ASSUME NEW p \in Places(s)
               PROVE  \/ p = <<"calling", s>> /\ s \in calling
                      \/ p = <<"cancelled", s>> /\ s \in cancelled
                      \/ p = <<"worker", lane>> /\ Working(s)
                      \/ /\ p = <<p[1], p[2]>> /\ p[1] = lane /\ p[2] \in 1..Len(queue[lane])
                         /\ queue[lane][p[2]] = s
    OBVIOUS
  <2>1. CASE p \in {<<"calling", s>> : x \in calling \cap {s}}
    BY <2>1
  <2>2. CASE p \in {<<"cancelled", s>> : x \in cancelled \cap {s}}
    BY <2>2
  <2>3. CASE p \in {<<"worker", l>> : l \in {k \in Lanes : task[k] = s /\ worker[k] # "handing"}}
    <3>1. PICK l \in Lanes : p = <<"worker", l>> /\ task[l] = s /\ worker[l] # "handing"
      BY <2>3
    <3> QED
      BY <1>2, <3>1 DEF Working
  <2>4. CASE p \in {o \in Lanes \X (1..Capacity) : o[2] <= Len(queue[o[1]]) /\ queue[o[1]][o[2]] = s}
    <3>1. /\ p = <<p[1], p[2]>> /\ p[1] \in Lanes /\ p[2] \in 1..Capacity
          /\ p[2] <= Len(queue[p[1]]) /\ queue[p[1]][p[2]] = s
      BY <2>4
    <3>2. Len(queue[p[1]]) \in Nat
      BY <3>1, QueuesFit
    <3>3. p[2] \in 1..Len(queue[p[1]])
      BY <3>1, <3>2, BackgroundAssumption
    <3>4. p[1] = lane
      BY <3>1, <3>3 DEF ServicesInv, ThreadsKept, QueuesKept
    <3> QED
      BY <3>1, <3>3, <3>4
  <2> QED
    BY <2>1, <2>2, <2>3, <2>4 DEF Places
<1>4. InOrder(s) /\ \A i, j \in 1..Len(queue[lane]) : queue[lane][i] = queue[lane][j] => i = j
  BY <1>1 DEF ServicesInv, ThreadsKept, QueuesKept
<1>5. InLine(s) <=> \E i \in 1..Len(queue[lane]) : queue[lane][i] = s
  BY DEF InLine
<1>6. ASSUME NEW p \in Places(s), NEW o \in Places(s) PROVE p = o
  <2>1. CASE s \in calling
    BY <1>3, <1>4, <1>5, <2>1 DEF InOrder, OnePlace
  <2>2. CASE s \in cancelled
    BY <1>3, <1>4, <1>5, <2>2 DEF InOrder, OnePlace
  <2>3. CASE Working(s)
    BY <1>3, <1>4, <1>5, <2>3 DEF InOrder, OnePlace
  <2>4. CASE s \notin calling /\ s \notin cancelled /\ ~Working(s)
    <3>1. /\ p = <<lane, p[2]>> /\ p[2] \in 1..Len(queue[lane]) /\ queue[lane][p[2]] = s
          /\ o = <<lane, o[2]>> /\ o[2] \in 1..Len(queue[lane]) /\ queue[lane][o[2]] = s
      BY <1>3, <2>4
    <3>2. p[2] = o[2]
      BY <1>4, <3>1
    <3> QED
      BY <3>1, <3>2
  <2> QED
    BY <2>1, <2>2, <2>3, <2>4
<1>7. ASSUME s \in calling \/ s \in cancelled \/ InLine(s) \/ Working(s)
      PROVE  Places(s) # {}
  <2>1. s \in calling => <<"calling", s>> \in Places(s)
    BY DEF Places
  <2>2. s \in cancelled => <<"cancelled", s>> \in Places(s)
    BY DEF Places
  <2>3. Working(s) => <<"worker", lane>> \in Places(s)
    BY <1>1 DEF Places, Working
  <2>4. ASSUME InLine(s) PROVE Places(s) # {}
    <3>1. PICK i \in 1..Len(queue[lane]) : queue[lane][i] = s
      BY <1>5, <2>4
    <3>2. i \in 1..Capacity /\ i <= Len(queue[lane])
      <4>1. Len(queue[lane]) \in Nat /\ Len(queue[lane]) <= Capacity
        BY <1>1, QueuesFit
      <4> QED
        BY <3>1, <4>1, BackgroundAssumption
    <3>3. <<lane, i>> \in Places(s)
      BY <1>1, <3>1, <3>2 DEF Places
    <3> QED
      BY <3>3
  <2> QED
    BY <1>7, <2>1, <2>2, <2>3, <2>4
<1>8. ASSUME Places(s) # {} PROVE s \in calling \/ s \in cancelled \/ InLine(s) \/ Working(s)
  BY <1>3, <1>5, <1>8
<1> QED
  BY <1>6, <1>7, <1>8

LEMMA AloneAndRemembered == ServicesInv => RunsAlone /\ NoTriggerForgotten
<1> SUFFICES ASSUME ServicesInv, NEW s \in Services
             PROVE  /\ Cardinality(Places(s)) <= 1
                    /\ status[s] \in {"disabled", "idle"} => Places(s) = {}
                    /\ status[s] = "running" =>
                         \E lane \in Lanes : worker[lane] = "running" /\ task[lane] = s
                    /\ s \in unserved /\ ~halting /\ status[s] # "disabled" =>
                         status[s] = "pending" \/ (status[s] = "running" /\ s \in rerun)
                    /\ status[s] = "pending" /\ ~halting =>
                         Places(s) # {} \/ Gated(s, opened) \/ InSweep(s)
  BY DEF RunsAlone, NoTriggerForgotten
<1>1. InOrder(s)
  BY DEF ServicesInv
<1>2. /\ Places(s) # {} <=> s \in calling \/ s \in cancelled \/ InLine(s) \/ Working(s)
      /\ \A p, o \in Places(s) : p = o
  BY PlacesAre
<1>3. Working(s) <=> Taken(s) \/ Running(s)
  BY WorkingIsTakenOrRunning DEF ServicesInv
<1>4. Cardinality(Places(s)) <= 1
  <2>1. CASE Places(s) = {}
    BY <2>1, FS_EmptySet
  <2>2. CASE Places(s) # {}
    <3>1. PICK p : Places(s) = {p}
      BY <1>2, <2>2
    <3>2. Cardinality({p}) = 1
      BY FS_Singleton
    <3> QED
      BY <3>1, <3>2
  <2> QED
    BY <2>1, <2>2
<1>5. status[s] \in {"disabled", "idle"} => Places(s) = {}
  BY <1>1, <1>2, <1>3 DEF InOrder, StatusTells
<1>6. status[s] = "running" => \E lane \in Lanes : worker[lane] = "running" /\ task[lane] = s
  BY <1>1, Lane DEF InOrder, StatusTells, Running, Working
<1>7. s \in submitted => Places(s) # {}
  BY <1>1, <1>2, <1>3 DEF InOrder, StatusTells
<1> QED
  BY <1>1, <1>4, <1>5, <1>6, <1>7 DEF InOrder, Remembered, InSweep

LEMMA ServicesAlways == BackgroundSpec => []ServicesInv
BY InitServices, NextServices, PTL DEF BackgroundSpec

(* A service is being submitted, queued, with a worker or taken back, and  *)
(* never in two of these at once, whatever triggers, reruns, gates and the *)
(* end of the program do to it meanwhile (background_supervisor.cpp).      *)
THEOREM Alone == BackgroundSpec => []RunsAlone
BY ServicesAlways, AloneAndRemembered, PTL

(* A trigger that was taken is answered by a run, unless the service was   *)
(* switched off or everything stops: it is on its way, waits for its gate, *)
(* or stands behind the run that goes on (background_supervisor.cpp).      *)
THEOREM Kept == BackgroundSpec => []NoTriggerForgotten
BY ServicesAlways, AloneAndRemembered, PTL

-----------------------------------------------------------------------------
(* The throttle of the log.  Of events there are some that are quietest,   *)
(* so what is forgotten for a new event was watched.                       *)
ThrottleRow == [emitted : Nat, seen : Nat, since : Nat, held : Nat]

ThrottleTyped ==
  /\ DOMAIN entries \subseteq Events /\ \A e \in DOMAIN entries : entries[e] \in ThrottleRow
  /\ clock \in Nat
  /\ seen \in [Events -> Nat] /\ told \in [Events -> Nat]

HeldBack(e) == IF e \in DOMAIN entries THEN entries[e].held ELSE 0

ThrottleInv == ThrottleTyped /\ \A e \in Events : seen[e] = told[e] + HeldBack(e)

LEMMA ForgottenWasWatched == ASSUME ThrottleTyped PROVE Forgotten \subseteq DOMAIN entries
<1> SUFFICES ASSUME ~(Cardinality(DOMAIN entries) < Watched)
             PROVE  Quietest \in DOMAIN entries
  BY DEF Forgotten
<1>1. DOMAIN entries # {}
  BY FS_EmptySet, LogFilesAssumption
<1> DEFINE times == {entries[e].seen : e \in DOMAIN entries}
<1>2. times \subseteq Nat /\ times # {}
  BY <1>1 DEF ThrottleTyped, ThrottleRow
<1>3. PICK m \in times : \A k \in times : m <= k
  <2> HIDE DEF times
  <2> QED
    BY <1>2, LeastMember
<1>4. PICK e \in DOMAIN entries : entries[e].seen = m
  BY <1>3
<1>5. \A f \in DOMAIN entries : entries[e].seen <= entries[f].seen
  BY <1>3, <1>4
<1> QED
  BY <1>5 DEF Quietest

(* An event that is noted has its entry, and only what is forgotten goes.  *)
LEMMA NotingKeeps ==
  ASSUME ThrottleTyped, NEW e \in Events, NEW row \in ThrottleRow, entries' = Note(e, row)
  PROVE  /\ DOMAIN entries' = (DOMAIN entries \ (IF e \in DOMAIN entries THEN {} ELSE Forgotten)) \cup {e}
         /\ entries'[e] = row
         /\ \A f \in DOMAIN entries' : f # e => entries'[f] = entries[f]
         /\ DOMAIN entries' \subseteq Events /\ \A f \in DOMAIN entries' : entries'[f] \in ThrottleRow
<1>1. /\ DOMAIN entries' = (DOMAIN entries \ (IF e \in DOMAIN entries THEN {} ELSE Forgotten)) \cup {e}
      /\ \A f \in DOMAIN entries' : entries'[f] = IF f = e THEN row ELSE entries[f]
  BY DEF Note
<1> QED
  BY <1>1 DEF ThrottleTyped

LEMMA RowsCount ==
  ASSUME NEW row \in ThrottleRow, NEW time \in Nat
  PROVE  /\ row.held \in Nat
         /\ [row EXCEPT !.seen = time, !.since = @ + 1, !.held = @ + 1] \in ThrottleRow
         /\ [row EXCEPT !.seen = time, !.since = @ + 1, !.held = @ + 1].held = row.held + 1
<1>1. row.since + 1 \in Nat /\ row.held + 1 \in Nat /\ row.held \in Nat
  BY DEF ThrottleRow
<1> DEFINE since == row.since + 1
           held == row.held + 1
<1>2. [row EXCEPT !.seen = time, !.since = @ + 1, !.held = @ + 1]
        = [row EXCEPT !.seen = time, !.since = since, !.held = held]
  BY DEF ThrottleRow
<1>3. since \in Nat /\ held \in Nat /\ held = row.held + 1
  BY <1>1
<1> HIDE DEF since, held
<1>4. /\ [row EXCEPT !.seen = time, !.since = since, !.held = held] \in ThrottleRow
      /\ [row EXCEPT !.seen = time, !.since = since, !.held = held].held = held
  BY <1>3 DEF ThrottleRow
<1> QED
  BY <1>1, <1>2, <1>3, <1>4

LEMMA RowsAreEmptied ==
  ASSUME NEW row \in ThrottleRow
  PROVE  /\ [row EXCEPT !.held = 0, !.since = 0] \in ThrottleRow
         /\ [row EXCEPT !.held = 0, !.since = 0].held = 0
BY DEF ThrottleRow

LEMMA LogKeeps ==
  ASSUME ThrottleInv, NEW e \in Events, Log(e)
  PROVE  ThrottleInv'
<1>1. /\ ThrottleTyped /\ clock' = clock /\ clock \in Nat
      /\ seen' = [seen EXCEPT ![e] = @ + 1]
      /\ seen \in [Events -> Nat] /\ told \in [Events -> Nat]
  BY DEF ThrottleInv, ThrottleTyped, Log
<1>2. /\ seen' \in [Events -> Nat] /\ seen'[e] = seen[e] + 1
      /\ \A f \in Events : f # e => seen'[f] = seen[f]
  BY <1>1
<1>3. \A f \in Events : HeldBack(f) \in Nat /\ seen[f] = told[f] + HeldBack(f)
  BY <1>1 DEF ThrottleInv, ThrottleTyped, ThrottleRow, HeldBack
<1> DEFINE fresh == [emitted |-> clock, seen |-> clock, since |-> 0, held |-> 0]
<1>4. fresh \in ThrottleRow /\ fresh.held = 0
  BY <1>1 DEF ThrottleRow
<1> HIDE DEF fresh
<1>5. CASE told' = Telling(e, 1) /\ UNCHANGED entries
  <2>1. /\ told' \in [Events -> Nat] /\ told'[e] = told[e] + 1
        /\ \A f \in Events : f # e => told'[f] = told[f]
    BY <1>1, <1>5 DEF Telling
  <2>2. \A f \in Events : HeldBack(f)' = HeldBack(f)
    BY <1>5 DEF HeldBack
  <2>3. ThrottleTyped'
    BY <1>1, <1>2, <1>5, <2>1 DEF ThrottleTyped
  <2>4. \A f \in Events : seen'[f] = told'[f] + HeldBack(f)'
    BY <1>1, <1>2, <1>3, <2>1, <2>2
  <2> QED
    BY <2>3, <2>4 DEF ThrottleInv
<1>6. CASE e \in DOMAIN entries /\ Repeated(e)
  <2> DEFINE entry == entries[e]
             more == [entry EXCEPT !.seen = clock, !.since = @ + 1, !.held = @ + 1]
  <2>1. entry \in ThrottleRow /\ HeldBack(e) = entry.held /\ entry.held \in Nat
    BY <1>1, <1>6 DEF ThrottleTyped, ThrottleRow, HeldBack
  <2>2. more \in ThrottleRow /\ more.held = entry.held + 1
    BY <1>1, <2>1, RowsCount
  <2>3. \/ entries' = Note(e, fresh) /\ told' = Telling(e, entry.held + 1)
        \/ entries' = Note(e, more) /\ UNCHANGED told
    BY <1>6 DEF Repeated, fresh
  <2> HIDE DEF more, entry
  <2>4. PICK row \in ThrottleRow :
          /\ entries' = Note(e, row)
          /\ \/ row.held = 0 /\ told' = Telling(e, entry.held + 1)
             \/ row.held = entry.held + 1 /\ UNCHANGED told
    BY <1>4, <2>2, <2>3
  <2>5. /\ DOMAIN entries' = DOMAIN entries
        /\ entries'[e] = row /\ \A f \in DOMAIN entries' : f # e => entries'[f] = entries[f]
        /\ DOMAIN entries' \subseteq Events /\ \A f \in DOMAIN entries' : entries'[f] \in ThrottleRow
    BY <1>1, <1>6, <2>4, NotingKeeps
  <2>6. /\ told' \in [Events -> Nat] /\ told'[e] + row.held = told[e] + entry.held + 1
        /\ \A f \in Events : f # e => told'[f] = told[f]
    <3>1. CASE row.held = 0 /\ told' = Telling(e, entry.held + 1)
      BY <1>1, <2>1, <3>1 DEF Telling
    <3>2. CASE row.held = entry.held + 1 /\ UNCHANGED told
      BY <1>1, <2>1, <3>2
    <3> QED
      BY <2>4, <3>1, <3>2
  <2>7. /\ HeldBack(e)' = row.held
        /\ \A f \in Events : f # e => HeldBack(f)' = HeldBack(f)
    BY <1>6, <2>5 DEF HeldBack
  <2>8. ThrottleTyped'
    BY <1>1, <1>2, <2>5, <2>6 DEF ThrottleTyped
  <2>9. \A f \in Events : seen'[f] = told'[f] + HeldBack(f)'
    <3>1. seen'[e] = told'[e] + HeldBack(e)'
      <4>1. seen[e] = told[e] + entry.held
        BY <1>3, <2>1
      <4>2. told'[e] + HeldBack(e)' = told[e] + entry.held + 1
        BY <2>6, <2>7
      <4> QED
        BY <1>2, <4>1, <4>2
    <3>2. ASSUME NEW f \in Events, f # e PROVE seen'[f] = told'[f] + HeldBack(f)'
      BY <1>2, <1>3, <2>6, <2>7, <3>2
    <3> QED
      BY <3>1, <3>2
  <2> QED
    BY <2>8, <2>9 DEF ThrottleInv
<1>7. CASE e \notin DOMAIN entries /\ FirstSighting(e)
  <2>1. /\ entries' = Note(e, fresh)
        /\ told' = [f \in Events |-> told[f] + (IF f \in Forgotten THEN entries[f].held ELSE 0)
                                             + (IF f = e THEN 1 ELSE 0)]
    BY <1>7 DEF FirstSighting, fresh
  <2>2. Forgotten \subseteq DOMAIN entries
    BY <1>1, ForgottenWasWatched
  <2>3. /\ DOMAIN entries' = (DOMAIN entries \ Forgotten) \cup {e}
        /\ entries'[e] = fresh /\ \A f \in DOMAIN entries' : f # e => entries'[f] = entries[f]
        /\ DOMAIN entries' \subseteq Events /\ \A f \in DOMAIN entries' : entries'[f] \in ThrottleRow
    BY <1>1, <1>4, <1>7, <2>1, NotingKeeps
  <2>4. HeldBack(e)' = 0 /\ HeldBack(e) = 0 /\ e \notin Forgotten
    BY <1>4, <1>7, <2>2, <2>3 DEF HeldBack
  <2>5. ASSUME NEW f \in Events, f # e
        PROVE  told'[f] \in Nat /\ seen'[f] = told'[f] + HeldBack(f)'
    <3>1. CASE f \in Forgotten
      <4>1. HeldBack(f) = entries[f].held /\ HeldBack(f)' = 0
        BY <2>2, <2>3, <2>5, <3>1 DEF HeldBack
      <4>2. told'[f] = told[f] + HeldBack(f)
        <5>1. told'[f] = told[f] + entries[f].held + 0
          BY <2>1, <2>5, <3>1
        <5>2. told[f] \in Nat /\ entries[f].held \in Nat
          BY <1>1, <1>3, <4>1
        <5> QED
          BY <4>1, <5>1, <5>2
      <4> QED
        BY <1>1, <1>2, <1>3, <2>5, <4>1, <4>2
    <3>2. CASE f \notin Forgotten
      <4>1. HeldBack(f)' = HeldBack(f)
        BY <2>3, <2>5, <3>2 DEF HeldBack
      <4>2. told'[f] = told[f] + 0 + 0
        BY <2>1, <2>5, <3>2
      <4> QED
        BY <1>1, <1>2, <1>3, <2>5, <4>1, <4>2
    <3> QED
      BY <3>1, <3>2
  <2>6. told'[e] \in Nat /\ seen'[e] = told'[e] + HeldBack(e)'
    <3>1. told'[e] = told[e] + 0 + 1
      BY <2>1, <2>4
    <3> QED
      BY <1>1, <1>2, <1>3, <2>4, <3>1
  <2>7. told' \in [Events -> Nat]
    <3>1. \A f \in Events : told'[f] \in Nat
      BY <2>5, <2>6
    <3> QED
      BY <2>1, <3>1
  <2>8. ThrottleTyped'
    BY <1>1, <1>2, <2>3, <2>7 DEF ThrottleTyped
  <2> QED
    BY <2>5, <2>6, <2>8 DEF ThrottleInv
<1> QED
  BY <1>5, <1>6, <1>7 DEF Log

LEMMA DrainKeeps ==
  ASSUME ThrottleInv, Drain
  PROVE  ThrottleInv'
<1>1. /\ DOMAIN entries' = DOMAIN entries
      /\ \A e \in DOMAIN entries : entries'[e] = [entries[e] EXCEPT !.held = 0, !.since = 0]
      /\ UNCHANGED <<clock, seen>>
  BY DEF Drain
<1>2. \A e \in DOMAIN entries : entries[e] \in ThrottleRow
  BY DEF ThrottleInv, ThrottleTyped
<1>3. \A e \in DOMAIN entries : entries'[e] \in ThrottleRow /\ entries'[e].held = 0
  <2> SUFFICES ASSUME NEW e \in DOMAIN entries
               PROVE  entries'[e] \in ThrottleRow /\ entries'[e].held = 0
    OBVIOUS
  <2> DEFINE row == entries[e]
  <2>1. row \in ThrottleRow /\ entries'[e] = [row EXCEPT !.held = 0, !.since = 0]
    BY <1>1, <1>2
  <2> HIDE DEF row
  <2> QED
    BY <2>1, RowsAreEmptied
<1>4. \A e \in Events : HeldBack(e) \in Nat /\ HeldBack(e)' = 0 /\ told[e] \in Nat
  BY <1>1, <1>2, <1>3 DEF HeldBack, ThrottleRow, ThrottleInv, ThrottleTyped
<1>8. told' = [e \in Events |-> told[e] + HeldBack(e)]
  BY DEF Drain, HeldBack
<1>5. told' \in [Events -> Nat] /\ \A e \in Events : told'[e] = told[e] + HeldBack(e)
  <2>1. \A e \in Events : told[e] + HeldBack(e) \in Nat
    BY <1>4
  <2> QED
    BY <1>8, <2>1
<1>6. ThrottleTyped'
  BY <1>1, <1>3, <1>5 DEF ThrottleInv, ThrottleTyped
<1>7. ASSUME NEW e \in Events PROVE seen'[e] = told'[e] + HeldBack(e)'
  <2>1. seen[e] = told[e] + HeldBack(e) /\ seen'[e] = seen[e]
    BY <1>1 DEF ThrottleInv
  <2>2. told'[e] = told[e] + HeldBack(e) /\ HeldBack(e)' = 0 /\ told'[e] \in Nat
    BY <1>4, <1>5
  <2> QED
    BY <2>1, <2>2
<1> QED
  BY <1>6, <1>7 DEF ThrottleInv

LEMMA InitThrottle == ThrottleInit => ThrottleInv
<1> SUFFICES ASSUME ThrottleInit PROVE ThrottleInv
  OBVIOUS
<1>1. DOMAIN entries = {} /\ clock = 0 /\ seen = [e \in Events |-> 0] /\ told = seen
  BY DEF ThrottleInit
<1> QED
  BY <1>1 DEF ThrottleInv, ThrottleTyped, HeldBack

LEMMA NextThrottle ==
  ASSUME ThrottleInv, [ThrottleNext]_throttleVars
  PROVE  ThrottleInv'
<1>1. ASSUME SetClock \/ UNCHANGED throttleVars PROVE ThrottleInv'
  <2>1. clock' \in Nat /\ UNCHANGED <<entries, seen, told>>
    BY <1>1, LogFilesAssumption DEF SetClock, throttleVars, ThrottleInv, ThrottleTyped
  <2> QED
    BY <2>1 DEF ThrottleInv, ThrottleTyped, HeldBack
<1> QED
  BY <1>1, LogKeeps, DrainKeeps DEF ThrottleNext

(* "A gap in the log always says how big it was": of every event the log   *)
(* tells of each record, or the throttle still has it to tell, however the *)
(* clock is set, events are pushed out and held records are drained        *)
(* (log_throttle.hpp).                                                     *)
THEOREM Told == ThrottleInit /\ [][ThrottleNext]_throttleVars => []GapsAreTold
<1>1. ThrottleInv => GapsAreTold
  BY DEF ThrottleInv, HeldBack, GapsAreTold
<1> QED
  BY <1>1, InitThrottle, NextThrottle, PTL

-----------------------------------------------------------------------------
(* The files of the log: what enforcing the budget and reading compute.    *)

Stock == [Generations -> Seq(Nat)]

Lengths(fs) == [g \in Generations |-> Len(fs[g])]

(* The lines of the files up to generation g.                              *)
Upto(fs, g) == SumOver(Lengths(fs), 0 .. g)

(* fs without the files of generation g and older.                         *)
Without(fs, g) == [k \in Generations |-> IF k < g THEN fs[k] ELSE <<>>]

Emptied(fs, g, stuck) ==
  IF Occupied(fs) <= Budget \/ g \in stuck THEN fs ELSE [fs EXCEPT ![g] = <<>>]

(* The files as generation g and the older ones have been looked at.       *)
IsEnforcing(after, fs, stuck) ==
  after = [g \in Generations |->
             Emptied(IF g = Oldest THEN fs ELSE after[g + 1], g, stuck)]

LEMMA GenerationsCount ==
  /\ Generations = 0 .. Oldest /\ IsFiniteSet(Generations)
  /\ 0 \in Generations /\ Oldest \in Generations /\ Oldest \in Nat
<1> QED
  BY LogFilesAssumption, FS_Interval DEF Generations

LEMMA EmptiedIsStock ==
  ASSUME NEW fs \in Stock, NEW g \in Generations, NEW stuck
  PROVE  /\ Emptied(fs, g, stuck) \in Stock
         /\ \A k \in Generations : Emptied(fs, g, stuck)[k] \in {fs[k], <<>>}
BY EmptySeq DEF Emptied, Stock

LEMMA EnforcingIsDefined ==
  ASSUME NEW fs \in Stock, NEW stuck
  PROVE  \E after : /\ IsEnforcing(after, fs, stuck)
                    /\ after \in [Generations -> Stock]
                    /\ Enforced(fs, stuck) = after[0]
<1> DEFINE step == [n \in 0 .. Oldest |-> [x \in Stock |-> Emptied(x, Oldest - n, stuck)]]
<1>0. \A n \in 0 .. Oldest : \A x \in Stock : step[n][x] = Emptied(x, Oldest - n, stuck)
  OBVIOUS
<1> HIDE DEF step
<1>1. ASSUME NEW n \in 0 .. Oldest, NEW x \in Stock PROVE step[n][x] \in Stock
  <2>1. Oldest - n \in Generations
    BY GenerationsCount
  <2>2. Emptied(x, Oldest - n, stuck) \in Stock
    BY <2>1, EmptiedIsStock
  <2> QED
    BY <1>0, <2>2
<1>2. PICK f : StepsTo(f, Stock, fs, Oldest, step)
  <2>1. Oldest \in Nat /\ fs \in Stock
    BY GenerationsCount
  <2>2. HasSteps(Stock, fs, Oldest, step)
    BY <1>1, <2>1, StepByStep
  <2> QED
    BY <2>2 DEF HasSteps
<1> DEFINE a == [g \in Generations |-> f[Oldest - g]]
<1>3. a \in [Generations -> Stock]
  BY <1>2, GenerationsCount DEF StepsTo
<1>4. ASSUME NEW g \in Generations
      PROVE  a[g] = Emptied(IF g = Oldest THEN fs ELSE a[g + 1], g, stuck)
  <2>1. Oldest - g \in 0 .. Oldest /\ a[g] = f[Oldest - g] /\ Oldest - (Oldest - g) = g
    BY GenerationsCount
  <2>2. CASE g = Oldest
    <3>1. Oldest - g = 0 /\ 0 \in 0 .. Oldest
      BY <2>1, <2>2, GenerationsCount
    <3>2. f[0] = step[0][fs]
      BY <1>2 DEF StepsTo
    <3>3. step[0][fs] = Emptied(fs, Oldest - 0, stuck) /\ Oldest - 0 = Oldest
      BY <1>0, <3>1, GenerationsCount
    <3> QED
      BY <2>1, <2>2, <3>1, <3>2, <3>3
  <2>3. CASE g # Oldest
    <3>1. /\ Oldest - g - 1 \in 0 .. Oldest /\ Oldest - g # 0
          /\ g + 1 \in Generations /\ Oldest - (g + 1) = Oldest - g - 1
      BY <2>3, GenerationsCount
    <3>2. f[Oldest - g - 1] \in Stock /\ a[g + 1] = f[Oldest - g - 1]
      BY <1>2, <3>1 DEF StepsTo
    <3>3. f[Oldest - g] = step[Oldest - g][f[Oldest - g - 1]]
      <4>1. Oldest - g \in 1 .. Oldest
        BY <2>1, <3>1
      <4> QED
        BY <1>2, <4>1 DEF StepsTo
    <3>4. f[Oldest - g] = Emptied(f[Oldest - g - 1], Oldest - (Oldest - g), stuck)
      BY <1>0, <2>1, <3>2, <3>3
    <3> QED
      BY <2>1, <2>3, <3>2, <3>4
  <2> QED
    BY <2>2, <2>3
<1>5. IsEnforcing(a, fs, stuck)
  BY <1>4, Zenon DEF IsEnforcing
<1> DEFINE c == CHOOSE after : IsEnforcing(after, fs, stuck)
<1>6. IsEnforcing(c, fs, stuck) /\ DOMAIN c = Generations
  BY <1>5 DEF IsEnforcing
<1>7. Enforced(fs, stuck) = c[0]
  BY DEF Enforced, IsEnforcing, Emptied
<1> HIDE DEF a, c
<1>8. \A n \in 0 .. Oldest : n \in {m \in Nat : c[Oldest - m] \in Stock}
  <2> DEFINE G == {m \in Nat : c[Oldest - m] \in Stock}
  <2>1. ASSUME NEW n \in 0 .. Oldest, n > 0 => n - 1 \in G PROVE n \in G
    <3>1. Oldest - n \in Generations
      BY GenerationsCount
    <3>2. c[Oldest - n] = Emptied(IF n = 0 THEN fs ELSE c[Oldest - n + 1], Oldest - n, stuck)
      BY <1>6, <3>1, GenerationsCount DEF IsEnforcing
    <3>3. n # 0 => c[Oldest - n + 1] \in Stock
      <4>1. n # 0 => Oldest - (n - 1) = Oldest - n + 1
        BY GenerationsCount
      <4> QED
        BY <2>1, <4>1
    <3>4. c[Oldest - n] \in Stock
      BY <3>1, <3>2, <3>3, EmptiedIsStock
    <3> QED
      BY <3>4
  <2> HIDE DEF G
  <2>2. \A n \in 0 .. Oldest : n \in G
    BY <2>1, GenerationsCount, NumberInduction
  <2> QED
    BY <2>2 DEF G
<1>9. \A g \in Generations : c[g] \in Stock
  <2> SUFFICES ASSUME NEW g \in Generations PROVE c[g] \in Stock
    OBVIOUS
  <2>1. Oldest - g \in 0 .. Oldest /\ Oldest - (Oldest - g) = g
    BY GenerationsCount
  <2> QED
    BY <1>8, <2>1
<1>10. c \in [Generations -> Stock]
  BY <1>6, <1>9 DEF IsEnforcing
<1> QED
  BY <1>6, <1>7, <1>10

LEMMA UptoGrows ==
  ASSUME NEW fs \in Stock
  PROVE  /\ \A g \in Generations : Upto(fs, g) \in Nat
         /\ Upto(fs, 0) = Len(fs[0])
         /\ \A g \in 1 .. Oldest : Upto(fs, g) = Upto(fs, g - 1) + Len(fs[g])
         /\ Occupied(fs) = Upto(fs, Oldest)
<1>1. \A g \in Generations : Lengths(fs)[g] = Len(fs[g]) /\ Len(fs[g]) \in Nat
  BY LenProperties DEF Lengths, Stock
<1>2. \A g \in Generations : IsFiniteSet(0 .. g) /\ 0 .. g \subseteq Generations
  BY GenerationsCount, FS_Interval
<1>3. ASSUME NEW g \in Generations PROVE Upto(fs, g) \in Nat
  <2>1. IsFiniteSet(0 .. g) /\ \A x \in 0 .. g : Lengths(fs)[x] \in Nat
    BY <1>1, <1>2
  <2> QED
    BY <2>1, SumNat DEF Upto
<1>4. Upto(fs, 0) = Len(fs[0])
  <2>0. 0 .. 0 = {0} /\ 0 \in Generations
    BY GenerationsCount
  <2>1. IsFiniteSet({0})
    BY FS_Singleton, Zenon
  <2>2. SumOver(Lengths(fs), {0}) = Lengths(fs)[0] + SumOver(Lengths(fs), {0} \ {0})
    <3>1. \A x \in {0} : Lengths(fs)[x] \in Int
      BY <1>1, <2>0
    <3>2. 0 \in {0}
      OBVIOUS
    <3> QED
      BY <2>1, <3>1, <3>2, SumTakeOut
  <2>3. {0} \ {0} = {} /\ SumOver(Lengths(fs), {}) = 0
    BY FS_EmptySet, SumStep
  <2>4. Upto(fs, 0) = SumOver(Lengths(fs), {0})
    BY <2>0 DEF Upto
  <2>5. SumOver(Lengths(fs), {0}) = Lengths(fs)[0] + 0
    BY <2>2, <2>3
  <2> QED
    BY <1>1, <2>0, <2>4, <2>5
<1>5. ASSUME NEW g \in 1 .. Oldest PROVE Upto(fs, g) = Upto(fs, g - 1) + Len(fs[g])
  <2>1. g \in Generations /\ g - 1 \in Generations /\ (0 .. g) \ {g} = 0 .. g - 1 /\ g \in 0 .. g
    BY GenerationsCount
  <2>2. IsFiniteSet(0 .. g) /\ \A x \in 0 .. g : Lengths(fs)[x] \in Int
    BY <1>1, <1>2, <2>1
  <2>3. SumOver(Lengths(fs), 0 .. g)
          = Lengths(fs)[g] + SumOver(Lengths(fs), (0 .. g) \ {g})
    BY <2>1, <2>2, SumTakeOut
  <2>4. Upto(fs, g - 1) \in Nat /\ Len(fs[g]) \in Nat /\ Lengths(fs)[g] = Len(fs[g])
    BY <1>1, <1>3, <2>1
  <2>5. Upto(fs, g - 1) = SumOver(Lengths(fs), (0 .. g) \ {g})
    BY <2>1 DEF Upto
  <2>6. Upto(fs, g) = SumOver(Lengths(fs), 0 .. g)
    BY DEF Upto
  <2>7. Upto(fs, g) = Lengths(fs)[g] + Upto(fs, g - 1)
    BY <2>3, <2>5, <2>6, Zenon
  <2> QED
    BY <2>4, <2>7
<1>6. Occupied(fs) = Upto(fs, Oldest)
  BY GenerationsCount DEF Occupied, Upto, Lengths
<1> QED
  BY <1>3, <1>4, <1>5, <1>6

(* The same files, the same lines.                                         *)
LEMMA UptoOfThese ==
  ASSUME NEW fs \in Stock, NEW other \in Stock, NEW g \in Generations,
         \A k \in 0 .. g : other[k] = fs[k]
  PROVE  Upto(other, g) = Upto(fs, g)
<1> DEFINE G == {m \in Nat : Upto(other, m) = Upto(fs, m)}
<1>1. ASSUME NEW n \in 0 .. g, n > 0 => n - 1 \in G PROVE n \in G
  <2>1. CASE n = 0
    BY <2>1, UptoGrows, GenerationsCount
  <2>2. CASE n # 0
    <3>1. n \in 1 .. Oldest
      BY <2>2, GenerationsCount
    <3> QED
      BY <1>1, <2>2, <3>1, UptoGrows
  <2> QED
    BY <2>1, <2>2
<1> HIDE DEF G
<1>2. g \in Nat /\ \A n \in 0 .. g : n \in G
  BY <1>1, GenerationsCount, NumberInduction
<1> QED
  BY <1>2 DEF G

LEMMA NothingUpto ==
  ASSUME NEW fs \in Stock, \A k \in Generations : fs[k] = <<>>
  PROVE  Occupied(fs) = 0
<1> DEFINE G == {m \in Nat : Upto(fs, m) = 0}
<1>1. ASSUME NEW n \in 0 .. Oldest, n > 0 => n - 1 \in G PROVE n \in G
  <2>1. n \in Generations /\ Len(fs[n]) = 0
    BY GenerationsCount, EmptySeq
  <2>2. CASE n = 0
    BY <2>1, <2>2, UptoGrows
  <2>3. CASE n # 0
    <3>1. n \in 1 .. Oldest
      BY <2>3, GenerationsCount
    <3>2. Upto(fs, n) = Upto(fs, n - 1) + Len(fs[n]) /\ Upto(fs, n - 1) = 0
      BY <1>1, <3>1, UptoGrows
    <3> QED
      BY <2>1, <3>2
  <2> QED
    BY <2>2, <2>3
<1> HIDE DEF G
<1>2. Oldest \in 0 .. Oldest /\ \A n \in 0 .. Oldest : n \in G
  BY <1>1, GenerationsCount, NumberInduction
<1> QED
  BY <1>2, UptoGrows DEF G

(* Enforcing removes files and does nothing else to them.                  *)
LEMMA EnforcedRemoves ==
  ASSUME NEW fs \in Stock, NEW stuck
  PROVE  /\ Enforced(fs, stuck) \in Stock
         /\ \A k \in Generations : Enforced(fs, stuck)[k] \in {fs[k], <<>>}
<1>1. PICK a \in [Generations -> Stock] :
        IsEnforcing(a, fs, stuck) /\ Enforced(fs, stuck) = a[0]
  BY EnforcingIsDefined
<1> DEFINE G == {m \in Nat : \A k \in Generations : a[Oldest - m][k] \in {fs[k], <<>>}}
<1>2. ASSUME NEW n \in 0 .. Oldest, n > 0 => n - 1 \in G PROVE n \in G
  <2> DEFINE g == Oldest - n
             before == IF g = Oldest THEN fs ELSE a[g + 1]
  <2>1. g \in Generations /\ (n # 0 => g # Oldest /\ Oldest - (n - 1) = g + 1 /\ g + 1 \in Generations)
        /\ (n = 0 => g = Oldest)
    BY GenerationsCount
  <2>2. a[g] = Emptied(before, g, stuck)
    BY <1>1, <2>1 DEF IsEnforcing
  <2>3. before \in Stock /\ \A k \in Generations : before[k] \in {fs[k], <<>>}
    BY <1>1, <1>2, <2>1
  <2> HIDE DEF before, g
  <2>4. \A k \in Generations : a[g][k] \in {before[k], <<>>}
    BY <2>1, <2>2, <2>3, EmptiedIsStock
  <2>5. \A k \in Generations : a[g][k] \in {fs[k], <<>>}
    BY <2>3, <2>4
  <2> QED
    BY <2>5 DEF g
<1> HIDE DEF G
<1>3. Oldest \in 0 .. Oldest /\ \A n \in 0 .. Oldest : n \in G
  BY <1>2, GenerationsCount, NumberInduction
<1>4. Oldest - Oldest = 0 /\ a[0] \in Stock
  BY <1>1, GenerationsCount
<1> QED
  BY <1>1, <1>3, <1>4 DEF G

(* Where nothing is stuck what is left fits, and no file is removed that   *)
(* is newer than one kept.                                                 *)
LEMMA EnforcedFits ==
  ASSUME NEW fs \in Stock
  PROVE  /\ Occupied(Enforced(fs, {})) <= Budget
         /\ \E k \in 0 .. Oldest + 1 : Enforced(fs, {}) = Without(fs, k)
<1>1. PICK a \in [Generations -> Stock] : IsEnforcing(a, fs, {}) /\ Enforced(fs, {}) = a[0]
  BY EnforcingIsDefined
<1> DEFINE Cut(g) == \E k \in g .. Oldest + 1 :
                        /\ a[g] = Without(fs, k)
                        /\ Occupied(a[g]) <= Budget \/ k = g
           G == {m \in Nat : Cut(Oldest - m)}
<1>2. ASSUME NEW n \in 0 .. Oldest, n > 0 => n - 1 \in G PROVE n \in G
  <2> DEFINE g == Oldest - n
             before == IF g = Oldest THEN fs ELSE a[g + 1]
  <2>1. g \in Generations /\ (n # 0 => g # Oldest /\ Oldest - (n - 1) = g + 1 /\ g + 1 \in Generations)
        /\ (n = 0 => g = Oldest)
    BY GenerationsCount
  <2>2. a[g] = Emptied(before, g, {})
    BY <1>1, <2>1 DEF IsEnforcing
  <2>3. PICK k \in g + 1 .. Oldest + 1 :
          before = Without(fs, k) /\ (Occupied(before) <= Budget \/ k = g + 1)
    <3>1. CASE n = 0
      <4>1. fs = Without(fs, Oldest + 1) /\ before = fs
        BY <2>1, <3>1, GenerationsCount DEF Without, Stock
      <4>2. Oldest + 1 \in g + 1 .. Oldest + 1 /\ Oldest + 1 = g + 1
        BY <2>1, <3>1, GenerationsCount
      <4> QED
        BY <4>1, <4>2
    <3>2. CASE n # 0
      <4>1. Cut(g + 1) /\ before = a[g + 1]
        BY <1>2, <2>1, <3>2
      <4> HIDE DEF before, g
      <4> QED
        BY <4>1
    <3> QED
      BY <3>1, <3>2
  <2> HIDE DEF before, g
  <2>4. Cut(g)
    <3>1. CASE Occupied(before) <= Budget
      <4>1. a[g] = before /\ k \in g .. Oldest + 1
        BY <2>1, <2>2, <3>1, GenerationsCount DEF Emptied
      <4> QED
        BY <2>3, <3>1, <4>1
    <3>2. CASE ~(Occupied(before) <= Budget)
      <4>1. a[g] = [before EXCEPT ![g] = <<>>] /\ before = Without(fs, g + 1)
        BY <2>2, <2>3, <3>2 DEF Emptied
      <4>2. [Without(fs, g + 1) EXCEPT ![g] = <<>>] = Without(fs, g)
        BY <2>1, GenerationsCount DEF Without
      <4>3. g \in g .. Oldest + 1
        BY <2>1, GenerationsCount
      <4> QED
        BY <4>1, <4>2, <4>3
    <3> QED
      BY <3>1, <3>2
  <2> QED
    BY <2>4 DEF g
<1> HIDE DEF G
<1>3. Oldest \in 0 .. Oldest /\ \A n \in 0 .. Oldest : n \in G
  BY <1>2, GenerationsCount, NumberInduction
<1>4. Cut(0)
  <2>1. Oldest - Oldest = 0
    BY GenerationsCount
  <2> QED
    BY <1>3, <2>1 DEF G
<1>5. PICK k \in 0 .. Oldest + 1 :
        a[0] = Without(fs, k) /\ (Occupied(a[0]) <= Budget \/ k = 0)
  BY <1>4
<1>6. CASE k = 0
  <2>0. a[0] = Without(fs, 0) /\ a[0] \in Stock
    BY <1>1, <1>5, <1>6, GenerationsCount
  <2>1. \A g \in Generations : a[0][g] = <<>>
    <3>1. \A g \in Generations : ~(g < 0)
      BY GenerationsCount
    <3> QED
      BY <2>0, <3>1 DEF Without
  <2>2. Occupied(a[0]) = 0
    BY <2>0, <2>1, NothingUpto
  <2> QED
    BY <1>1, <1>5, <2>2, LogFilesAssumption
<1> QED
  BY <1>1, <1>5, <1>6

-----------------------------------------------------------------------------
(* The log is in order, whatever the storage refuses.                      *)

(* No line is newer than line n, and those of an older generation, or      *)
(* before it in its file, are older.                                       *)
Rising(fs, n) ==
  /\ \A g \in Generations : \A i \in 1 .. Len(fs[g]) : fs[g][i] <= n
  /\ \A g, h \in Generations : \A i \in 1 .. Len(fs[g]) : \A j \in 1 .. Len(fs[h]) :
        h < g \/ (g = h /\ i < j) => fs[g][i] < fs[h][j]

(* Every file of other is one of fs, at another place among as old ones.   *)
Rearranged(fs, other, from) ==
  /\ \A g \in Generations : from[g] \in Generations /\ other[g] \in {fs[from[g]], <<>>}
  /\ \A g, h \in Generations :
        h < g /\ other[g] # <<>> /\ other[h] # <<>> => from[h] < from[g]

LEMMA StillRising ==
  ASSUME NEW fs \in Stock, NEW other \in Stock, NEW n, Rising(fs, n), NEW from, Rearranged(fs, other, from)
  PROVE  Rising(other, n)
<1>1. ASSUME NEW g \in Generations, NEW i \in 1 .. Len(other[g])
      PROVE  /\ from[g] \in Generations /\ other[g] = fs[from[g]] /\ other[g] # <<>>
             /\ i \in 1 .. Len(fs[from[g]])
  <2>1. other[g] # <<>>
    BY <1>1
  <2> QED
    BY <1>1, <2>1 DEF Rearranged
<1>2. ASSUME NEW g \in Generations, NEW i \in 1 .. Len(other[g]) PROVE other[g][i] <= n
  BY <1>1, <1>2 DEF Rising
<1>3. ASSUME NEW g \in Generations, NEW h \in Generations,
             NEW i \in 1 .. Len(other[g]), NEW j \in 1 .. Len(other[h]),
             h < g \/ (g = h /\ i < j)
      PROVE  other[g][i] < other[h][j]
  <2>1. from[h] < from[g] \/ (from[g] = from[h] /\ i < j)
    BY <1>1, <1>3 DEF Rearranged
  <2>2. /\ from[g] \in Generations /\ from[h] \in Generations
        /\ i \in 1 .. Len(fs[from[g]]) /\ j \in 1 .. Len(fs[from[h]])
        /\ other[g] = fs[from[g]] /\ other[h] = fs[from[h]]
    BY <1>1, <1>3
  <2>3. fs[from[g]][i] < fs[from[h]][j]
    BY <2>1, <2>2 DEF Rising
  <2> QED
    BY <2>2, <2>3
<1> QED
  BY <1>2, <1>3 DEF Rising

(* A file that is removed leaves the others in order.                      *)
LEMMA EnforcedIsRising ==
  ASSUME NEW fs \in Stock, NEW n, Rising(fs, n), NEW stuck
  PROVE  Enforced(fs, stuck) \in Stock /\ Rising(Enforced(fs, stuck), n)
<1> DEFINE from == [g \in Generations |-> g]
<1>1. Rearranged(fs, Enforced(fs, stuck), from)
  <2>1. \A g \in Generations : from[g] = g
    OBVIOUS
  <2> HIDE DEF from
  <2> QED
    BY <2>1, EnforcedRemoves, GenerationsCount DEF Rearranged
<1> HIDE DEF from
<1> QED
  BY <1>1, EnforcedRemoves, StillRising

(* A generation moves behind the one it followed, which moved before it or *)
(* is overwritten; a live file that is stuck may be kept where it is.      *)
LEMMA MovedIsRising ==
  ASSUME files \in Stock, NEW n, Rising(files, n), NEW stuck
  PROVE  /\ Moved(stuck) \in Stock /\ Rising(Moved(stuck), n)
         /\ 0 \in stuck => /\ [Moved(stuck) EXCEPT ![0] = files[0]] \in Stock
                           /\ Rising([Moved(stuck) EXCEPT ![0] = files[0]], n)
<1> DEFINE Leaves(g) == files[g] # <<>> /\ g \notin stuck
           moved == Moved(stuck)
           kept == [moved EXCEPT ![0] = files[0]]
           from == [g \in Generations |-> IF g > 0 /\ Leaves(g - 1) THEN g - 1 ELSE g]
<1>1. \A g \in Generations : g - 1 \in Generations \/ g = 0
  BY GenerationsCount
<1>2. /\ moved[0] = <<>>
      /\ \A g \in Generations : g > 0 /\ Leaves(g - 1) => moved[g] = files[g - 1]
      /\ \A g \in Generations : g > 0 /\ ~Leaves(g - 1) =>
            moved[g] = <<>> \/ (moved[g] = files[g] /\ g \in stuck)
  BY GenerationsCount DEF Moved
<1>3. moved \in Stock
  <2>1. \A g \in Generations : files[g] \in Seq(Nat) /\ <<>> \in Seq(Nat)
    BY EmptySeq DEF Stock
  <2>2. ASSUME NEW g \in Generations PROVE moved[g] \in Seq(Nat)
    <3> HIDE DEF moved
    <3>1. g = 0 \/ (g > 0 /\ g - 1 \in Generations)
      BY <1>1, GenerationsCount
    <3> QED
      BY <1>2, <2>1, <3>1
  <2>3. moved = [g \in Generations |-> moved[g]]
    BY DEF Moved
  <2> HIDE DEF moved
  <2> QED
    BY <2>2, <2>3 DEF Stock
<1>4. kept \in Stock /\ kept[0] = files[0] /\ \A g \in Generations : g # 0 => kept[g] = moved[g]
  <2> HIDE DEF moved
  <2> QED
    BY <1>3, GenerationsCount DEF Stock
<1>5. \A g \in Generations : /\ from[g] \in Generations
                             /\ g > 0 /\ Leaves(g - 1) => from[g] = g - 1
                             /\ ~(g > 0 /\ Leaves(g - 1)) => from[g] = g
  BY <1>1
<1> HIDE DEF moved, kept, from
<1>6. Rearranged(files, moved, from)
  <2>1. \A g \in Generations : moved[g] \in {files[from[g]], <<>>}
    BY <1>2, <1>5, GenerationsCount
  <2>2. ASSUME NEW g \in Generations, NEW h \in Generations, h < g,
               moved[g] # <<>>, moved[h] # <<>>
        PROVE  from[h] < from[g]
    <3>1. h > 0 /\ g > 0
      BY <1>2, <2>2, GenerationsCount
    <3>2. CASE from[h] = h - 1
      BY <1>5, <2>2, <3>1, <3>2, GenerationsCount
    <3>3. CASE from[h] # h - 1
      <4>1. ~Leaves(h - 1) /\ from[h] = h /\ h \in stuck
        BY <1>2, <1>5, <2>2, <3>1, <3>3
      <4>2. g = h + 1 => ~Leaves(g - 1)
        BY <4>1, GenerationsCount
      <4> QED
        BY <1>5, <2>2, <3>1, <4>1, <4>2, GenerationsCount
    <3> QED
      BY <3>2, <3>3
  <2> QED
    BY <1>5, <2>1, <2>2 DEF Rearranged
<1>7. ASSUME 0 \in stuck PROVE Rearranged(files, kept, from)
  <2>1. from[0] = 0 /\ 0 \in Generations
    BY <1>5, GenerationsCount
  <2>2. \A g \in Generations : kept[g] \in {files[from[g]], <<>>}
    BY <1>4, <1>6, <2>1 DEF Rearranged
  <2>3. ASSUME NEW g \in Generations, NEW h \in Generations, h < g,
               kept[g] # <<>>, kept[h] # <<>>
        PROVE  from[h] < from[g]
    <3>0. g > 0 /\ kept[g] = moved[g]
      BY <1>4, <2>3, GenerationsCount
    <3>1. CASE h = 0
      <4>1. g = 1 => ~Leaves(g - 1)
        BY <1>7
      <4>2. from[g] \in {g, g - 1} /\ (g = 1 => from[g] = 1)
        BY <1>5, <4>1
      <4> QED
        BY <2>1, <3>0, <3>1, <4>2, GenerationsCount
    <3>2. CASE h # 0
      BY <1>4, <1>6, <2>3, <3>0, <3>2 DEF Rearranged
    <3> QED
      BY <3>1, <3>2
  <2> QED
    BY <1>5, <2>2, <2>3 DEF Rearranged
<1>8. Rising(moved, n) /\ (0 \in stuck => Rising(kept, n))
  BY <1>3, <1>4, <1>6, <1>7, StillRising
<1> QED
  BY <1>3, <1>4, <1>8 DEF moved, kept

LEMMA ReadyIsRising ==
  ASSUME files \in Stock, NEW n, Rising(files, n), NEW stuck, NEW lasting
  PROVE  Ready(stuck, lasting) \in Stock /\ Rising(Ready(stuck, lasting), n)
BY MovedIsRising, EnforcedIsRising DEF Ready

(* fs with line e at the end of the live file.                             *)
With(fs, e) == [fs EXCEPT ![0] = Append(@, e)]

LEMMA WithLine ==
  ASSUME NEW fs \in Stock, NEW e \in Nat
  PROVE  /\ With(fs, e) \in Stock
         /\ \A g \in Generations : g # 0 => With(fs, e)[g] = fs[g]
         /\ Len(With(fs, e)[0]) = Len(fs[0]) + 1 /\ Len(fs[0]) \in Nat
         /\ \A i \in 1 .. Len(fs[0]) : With(fs, e)[0][i] = fs[0][i]
         /\ With(fs, e)[0][Len(fs[0]) + 1] = e
<1>1. fs[0] \in Seq(Nat) /\ DOMAIN fs = Generations /\ 0 \in Generations
  BY GenerationsCount DEF Stock
<1>2. With(fs, e)[0] = Append(fs[0], e)
  BY <1>1 DEF With
<1>3. With(fs, e) \in Stock
  BY <1>1, AppendProperties DEF With, Stock
<1> QED
  BY <1>1, <1>2, <1>3, Appending DEF With

LEMMA WithIsRising ==
  ASSUME NEW fs \in Stock, NEW n \in Nat, Rising(fs, n)
  PROVE  Rising(With(fs, n + 1), n + 1)
<1> DEFINE other == With(fs, n + 1)
<1>0. \A g \in Generations : \A i \in 1 .. Len(fs[g]) : fs[g][i] \in Nat /\ fs[g][i] <= n
  BY ElementOfSeq DEF Stock, Rising
<1>1. /\ \A g \in Generations : g # 0 => other[g] = fs[g]
      /\ Len(other[0]) = Len(fs[0]) + 1 /\ Len(fs[0]) \in Nat
      /\ \A i \in 1 .. Len(fs[0]) : other[0][i] = fs[0][i]
      /\ other[0][Len(fs[0]) + 1] = n + 1
  BY WithLine
<1> HIDE DEF other
<1>2. ASSUME NEW g \in Generations, NEW i \in 1 .. Len(other[g])
      PROVE  \/ i \in 1 .. Len(fs[g]) /\ other[g][i] = fs[g][i]
             \/ g = 0 /\ i = Len(fs[0]) + 1 /\ other[g][i] = n + 1
  BY <1>1, <1>2
<1>3. \A g \in Generations : \A i \in 1 .. Len(other[g]) : other[g][i] <= n + 1
  BY <1>0, <1>2
<1>4. ASSUME NEW g \in Generations, NEW h \in Generations,
             NEW i \in 1 .. Len(other[g]), NEW j \in 1 .. Len(other[h]),
             h < g \/ (g = h /\ i < j)
      PROVE  other[g][i] < other[h][j]
  <2>1. i \in 1 .. Len(fs[g]) /\ other[g][i] = fs[g][i]
    BY <1>1, <1>2, <1>4, GenerationsCount
  <2>2. CASE j \in 1 .. Len(fs[h]) /\ other[h][j] = fs[h][j]
    BY <1>4, <2>1, <2>2 DEF Rising
  <2>3. CASE other[h][j] = n + 1
    BY <1>0, <2>1, <2>3
  <2> QED
    BY <1>2, <2>2, <2>3
<1> QED
  BY <1>3, <1>4 DEF Rising, other

-----------------------------------------------------------------------------
(* Where the storage refuses nothing, the files hold the last lines.       *)

Gapless(fs, n) ==
  \A g \in Generations : \A i \in 1 .. Len(fs[g]) : fs[g][i] = n - Upto(fs, g) + i

LEMMA GaplessWithout ==
  ASSUME NEW fs \in Stock, NEW n, Gapless(fs, n), NEW k \in 0 .. Oldest + 1
  PROVE  Without(fs, k) \in Stock /\ Gapless(Without(fs, k), n)
<1>1. Without(fs, k) \in Stock
  BY EmptySeq DEF Without, Stock
<1>2. ASSUME NEW g \in Generations, NEW i \in 1 .. Len(Without(fs, k)[g])
      PROVE  Without(fs, k)[g][i] = n - Upto(Without(fs, k), g) + i
  <2>1. g < k /\ Without(fs, k)[g] = fs[g]
    BY <1>2 DEF Without
  <2>2. \A j \in 0 .. g : Without(fs, k)[j] = fs[j]
    BY <2>1, GenerationsCount DEF Without
  <2>3. Upto(Without(fs, k), g) = Upto(fs, g)
    BY <1>1, <2>2, UptoOfThese
  <2> QED
    BY <1>2, <2>1, <2>3 DEF Gapless
<1> QED
  BY <1>1, <1>2 DEF Gapless

LEMMA GaplessEnforced ==
  ASSUME NEW fs \in Stock, NEW n, Gapless(fs, n)
  PROVE  Enforced(fs, {}) \in Stock /\ Gapless(Enforced(fs, {}), n)
<1>1. PICK k \in 0 .. Oldest + 1 : Enforced(fs, {}) = Without(fs, k)
  BY EnforcedFits
<1> QED
  BY <1>1, GaplessWithout

LEMMA GaplessWith ==
  ASSUME NEW fs \in Stock, NEW n \in Nat, Gapless(fs, n)
  PROVE  Gapless(With(fs, n + 1), n + 1)
<1> DEFINE other == With(fs, n + 1)
<1>1. /\ other \in Stock
      /\ \A g \in Generations : g # 0 => other[g] = fs[g]
      /\ Len(other[0]) = Len(fs[0]) + 1 /\ Len(fs[0]) \in Nat
      /\ \A i \in 1 .. Len(fs[0]) : other[0][i] = fs[0][i]
      /\ other[0][Len(fs[0]) + 1] = n + 1
  BY WithLine
<1> HIDE DEF other
<1> DEFINE G == {m \in Nat : Upto(other, m) = Upto(fs, m) + 1}
<1>2. ASSUME NEW m \in 0 .. Oldest, m > 0 => m - 1 \in G PROVE m \in G
  <2>1. CASE m = 0
    BY <1>1, <2>1, UptoGrows
  <2>2. CASE m # 0
    <3>1. m \in 1 .. Oldest /\ m - 1 \in Generations /\ other[m] = fs[m] /\ Len(fs[m]) \in Nat
      <4>1. m \in Generations
        BY GenerationsCount
      <4>2. m \in 1 .. Oldest /\ m - 1 \in Generations
        BY <2>2, GenerationsCount
      <4> QED
        BY <1>1, <2>2, <4>1, <4>2, LenProperties DEF Stock
    <3>2. Upto(other, m) = Upto(other, m - 1) + Len(fs[m]) /\ Upto(fs, m) = Upto(fs, m - 1) + Len(fs[m])
      BY <1>1, <3>1, UptoGrows
    <3>3. Upto(other, m - 1) = Upto(fs, m - 1) + 1 /\ Upto(fs, m - 1) \in Nat
      BY <1>2, <3>1, UptoGrows
    <3> QED
      BY <3>1, <3>2, <3>3
  <2> QED
    BY <2>1, <2>2
<1> HIDE DEF G
<1>3. \A g \in Generations : Upto(other, g) = Upto(fs, g) + 1 /\ Upto(fs, g) \in Nat
  <2>1. \A m \in 0 .. Oldest : m \in G
    BY <1>2, GenerationsCount, NumberInduction
  <2> QED
    BY <2>1, GenerationsCount, UptoGrows DEF G
<1>4. ASSUME NEW g \in Generations, NEW i \in 1 .. Len(other[g])
      PROVE  other[g][i] = (n + 1) - Upto(other, g) + i
  <2>1. CASE i \in 1 .. Len(fs[g]) /\ other[g][i] = fs[g][i]
    <3>1. fs[g][i] = n - Upto(fs, g) + i /\ i \in Nat
      BY <2>1 DEF Gapless
    <3> QED
      BY <1>3, <2>1, <3>1
  <2>2. CASE g = 0 /\ i = Len(fs[0]) + 1
    <3>1. Upto(fs, 0) = Len(fs[0])
      BY UptoGrows
    <3> QED
      BY <1>1, <1>3, <2>2, <3>1
  <2> QED
    BY <1>1, <2>1, <2>2
<1> QED
  BY <1>4 DEF Gapless, other

LEMMA GaplessMoved ==
  ASSUME files \in Stock, NEW n, Gapless(files, n)
  PROVE  Moved({}) \in Stock /\ Gapless(Moved({}), n)
<1> DEFINE moved == Moved({})
<1>1. moved[0] = <<>> /\ \A g \in 1 .. Oldest : moved[g] = files[g - 1]
  BY GenerationsCount DEF Moved
<1>2. moved \in Stock
  <2>1. \A g \in 1 .. Oldest : g - 1 \in Generations
    BY GenerationsCount
  <2>2. \A g \in Generations : g = 0 \/ g \in 1 .. Oldest
    BY GenerationsCount
  <2>3. moved = [g \in Generations |-> moved[g]]
    BY DEF Moved
  <2> HIDE DEF moved
  <2>4. \A g \in Generations : moved[g] \in Seq(Nat)
    BY <1>1, <2>1, <2>2, EmptySeq DEF Stock
  <2> QED
    BY <2>3, <2>4 DEF Stock
<1> HIDE DEF moved
<1> DEFINE G == {m \in Nat : m > 0 => Upto(moved, m) = Upto(files, m - 1)}
<1>3. ASSUME NEW m \in 0 .. Oldest, m > 0 => m - 1 \in G PROVE m \in G
  <2> SUFFICES ASSUME m > 0 PROVE Upto(moved, m) = Upto(files, m - 1)
    OBVIOUS
  <2>1. m \in 1 .. Oldest /\ m - 1 \in Generations /\ moved[m] = files[m - 1]
    BY <1>1, GenerationsCount
  <2>2. Upto(moved, m) = Upto(moved, m - 1) + Len(files[m - 1])
    BY <1>2, <2>1, UptoGrows
  <2>3. CASE m = 1
    <3>1. Upto(moved, 0) = 0 /\ Upto(files, 0) = Len(files[0]) /\ Upto(files, 0) \in Nat
      BY <1>1, <1>2, UptoGrows, GenerationsCount, EmptySeq
    <3> QED
      BY <2>2, <2>3, <3>1
  <2>4. CASE m # 1
    <3>1. m - 1 \in 1 .. Oldest /\ m - 1 > 0
      BY <2>1, <2>4, GenerationsCount
    <3>2. Upto(moved, m - 1) = Upto(files, (m - 1) - 1)
      BY <1>3, <3>1
    <3>3. Upto(files, m - 1) = Upto(files, (m - 1) - 1) + Len(files[m - 1])
      BY <3>1, UptoGrows
    <3> QED
      BY <2>2, <3>2, <3>3
  <2> QED
    BY <2>3, <2>4
<1> HIDE DEF G
<1>4. \A g \in 1 .. Oldest : Upto(moved, g) = Upto(files, g - 1)
  <2>1. \A m \in 0 .. Oldest : m \in G
    BY <1>3, GenerationsCount, NumberInduction
  <2> QED
    BY <2>1, GenerationsCount DEF G
<1>5. ASSUME NEW g \in Generations, NEW i \in 1 .. Len(moved[g])
      PROVE  moved[g][i] = n - Upto(moved, g) + i
  <2>1. g # 0
    BY <1>1, <1>5, EmptySeq
  <2>2. g \in 1 .. Oldest /\ g - 1 \in Generations
    BY <2>1, GenerationsCount
  <2>3. moved[g] = files[g - 1] /\ Upto(moved, g) = Upto(files, g - 1)
    BY <1>1, <1>4, <2>2
  <2>4. files[g - 1][i] = n - Upto(files, g - 1) + i
    BY <1>5, <2>2, <2>3 DEF Gapless
  <2> QED
    BY <2>3, <2>4
<1>6. moved \in Stock /\ Gapless(moved, n)
  BY <1>2, <1>5 DEF Gapless
<1> QED
  BY <1>6 DEF moved

-----------------------------------------------------------------------------
(* What is kept of the files by every line.                                *)

FilesInv ==
  /\ files \in Stock /\ lines \in Nat /\ refusals \in Nat
  /\ Rising(files, lines)
  /\ refusals = 0 => Occupied(files) <= Budget /\ Gapless(files, lines)

LEMMA InitFiles == FilesInit => FilesInv
<1> SUFFICES ASSUME FilesInit PROVE FilesInv
  OBVIOUS
<1>1. files \in Stock /\ lines = 0 /\ refusals = 0 /\ \A g \in Generations : files[g] = <<>>
  BY EmptySeq DEF FilesInit, Stock
<1>2. \A g \in Generations : 1 .. Len(files[g]) = {}
  BY <1>1, EmptySeq
<1>3. Rising(files, lines) /\ Gapless(files, lines)
  BY <1>2 DEF Rising, Gapless
<1>4. Occupied(files) = 0
  BY <1>1, NothingUpto
<1> QED
  BY <1>1, <1>3, <1>4, LogFilesAssumption DEF FilesInv

LEMMA WriteLineKeeps ==
  ASSUME FilesInv, WriteLine
  PROVE  FilesInv'
<1>1. files \in Stock /\ lines \in Nat /\ refusals \in Nat /\ Rising(files, lines) /\ lines' = lines + 1
  BY DEF FilesInv, WriteLine
<1>2. PICK stuck \in SUBSET Generations, lasting \in SUBSET Generations, lost \in {0, 1} :
        /\ refusals' = refusals + Cardinality(stuck) + Cardinality(lasting) + lost
        /\ 0 \in stuck \cap lasting => lost = 1
        /\ files' = IF lost = 0
                    THEN Enforced(With(Ready(stuck, lasting), lines'), lasting)
                    ELSE IF Full /\ 0 \in stuck \cap lasting
                    THEN [Moved(stuck) EXCEPT ![0] = files[0]]
                    ELSE Ready(stuck, lasting)
  BY DEF WriteLine, With
<1>3. Ready(stuck, lasting) \in Stock /\ Rising(Ready(stuck, lasting), lines)
  BY <1>1, ReadyIsRising
<1>4. \A fs \in Stock : Rising(fs, lines) => Rising(fs, lines')
  <2> SUFFICES ASSUME NEW fs \in Stock, Rising(fs, lines) PROVE Rising(fs, lines')
    OBVIOUS
  <2>1. \A g \in Generations : \A i \in 1 .. Len(fs[g]) : fs[g][i] \in Nat /\ fs[g][i] <= lines
    BY ElementOfSeq DEF Stock, Rising
  <2>2. \A g \in Generations : \A i \in 1 .. Len(fs[g]) : fs[g][i] <= lines'
    BY <1>1, <2>1
  <2> QED
    BY <2>2 DEF Rising
<1>5. files' \in Stock /\ Rising(files', lines')
  <2>1. CASE lost = 0
    <3>1. With(Ready(stuck, lasting), lines') \in Stock
      BY <1>1, <1>3, WithLine
    <3>2. Rising(With(Ready(stuck, lasting), lines'), lines')
      BY <1>1, <1>3, WithIsRising
    <3> QED
      BY <1>2, <2>1, <3>1, <3>2, EnforcedIsRising
  <2>2. CASE lost # 0 /\ Full /\ 0 \in stuck \cap lasting
    BY <1>1, <1>2, <1>4, <2>2, MovedIsRising
  <2>3. CASE lost # 0 /\ ~(Full /\ 0 \in stuck \cap lasting)
    BY <1>2, <1>3, <1>4, <2>3
  <2> QED
    BY <2>1, <2>2, <2>3
<1>6. /\ IsFiniteSet(stuck) /\ IsFiniteSet(lasting)
      /\ Cardinality(stuck) \in Nat /\ Cardinality(lasting) \in Nat /\ lost \in Nat
      /\ refusals' = refusals + Cardinality(stuck) + Cardinality(lasting) + lost
  <2>1. IsFiniteSet(stuck) /\ IsFiniteSet(lasting)
    BY GenerationsCount, FS_Subset
  <2> QED
    BY <1>2, <2>1, FS_CardinalityType
<1>7. refusals' \in Nat
  BY <1>1, <1>6
<1>8. ASSUME refusals' = 0
      PROVE  Occupied(files') <= Budget /\ Gapless(files', lines')
  <2>1. refusals = 0 /\ Cardinality(stuck) = 0 /\ Cardinality(lasting) = 0 /\ lost = 0
    <3>1. \A a, b, c, d \in Nat : a + b + c + d = 0 => a = 0 /\ b = 0 /\ c = 0 /\ d = 0
      OBVIOUS
    <3>2. refusals + Cardinality(stuck) + Cardinality(lasting) + lost = 0
      BY <1>6, <1>8
    <3> QED
      BY <1>1, <1>6, <3>1, <3>2
  <2>2. stuck = {} /\ lasting = {} /\ Gapless(files, lines)
    BY <1>6, <2>1, FS_EmptySet DEF FilesInv
  <2>3. Gapless(Ready({}, {}), lines)
    BY <1>1, <2>2, GaplessMoved, GaplessEnforced DEF Ready
  <2>4. With(Ready({}, {}), lines') \in Stock /\ Gapless(With(Ready({}, {}), lines'), lines')
    BY <1>1, <1>3, <2>2, <2>3, WithLine, GaplessWith
  <2>5. files' = Enforced(With(Ready({}, {}), lines'), {})
    BY <1>2, <2>1, <2>2
  <2> QED
    BY <2>4, <2>5, GaplessEnforced, EnforcedFits
<1>9. lines' \in Nat
  BY <1>1
<1>10. Occupied(files)' = Occupied(files') /\ Gapless(files, lines)' = Gapless(files', lines')
       /\ Rising(files, lines)' = Rising(files', lines')
  OBVIOUS
<1> QED
  BY <1>5, <1>7, <1>8, <1>9, <1>10 DEF FilesInv

-----------------------------------------------------------------------------
(* The files are read from the oldest to the live one.                     *)

IsReading(read) ==
  read = [g \in Generations |-> IF g = 0 THEN files[0] ELSE files[g] \o read[g - 1]]

LEMMA ReadingIsDefined ==
  ASSUME files \in Stock
  PROVE  /\ \A g \in Generations : ReadFrom[g] \in Seq(Nat)
         /\ ReadFrom[0] = files[0]
         /\ \A g \in 1 .. Oldest : ReadFrom[g] = files[g] \o ReadFrom[g - 1]
<1> DEFINE step == [n \in 0 .. Oldest |->
                      [x \in Seq(Nat) |-> IF n = 0 THEN files[0] ELSE files[n] \o x]]
<1>0. \A n \in 0 .. Oldest : \A x \in Seq(Nat) :
        step[n][x] = IF n = 0 THEN files[0] ELSE files[n] \o x
  OBVIOUS
<1> HIDE DEF step
<1>1. \A n \in 0 .. Oldest : \A x \in Seq(Nat) : step[n][x] \in Seq(Nat)
  <2>1. \A n \in 0 .. Oldest : files[n] \in Seq(Nat)
    BY GenerationsCount DEF Stock
  <2>2. \A s, x \in Seq(Nat) : s \o x \in Seq(Nat)
    BY ConcatProperties
  <2>3. files[0] \in Seq(Nat)
    BY <2>1, GenerationsCount
  <2> SUFFICES ASSUME NEW n \in 0 .. Oldest, NEW x \in Seq(Nat) PROVE step[n][x] \in Seq(Nat)
    OBVIOUS
  <2>4. files[n] \o x \in Seq(Nat)
    BY <2>1, <2>2
  <2> QED
    BY <1>0, <2>3, <2>4
<1>2. PICK f : StepsTo(f, Seq(Nat), <<>>, Oldest, step)
  <2>1. HasSteps(Seq(Nat), <<>>, Oldest, step)
    BY <1>1, GenerationsCount, EmptySeq, StepByStep
  <2> QED
    BY <2>1 DEF HasSteps
<1>3. f \in [Generations -> Seq(Nat)]
  BY <1>2 DEF StepsTo, Generations
<1>4. f[0] = files[0]
  BY <1>0, <1>2, GenerationsCount, EmptySeq DEF StepsTo
<1>5. ASSUME NEW g \in 1 .. Oldest PROVE f[g] = files[g] \o f[g - 1]
  <2>1. g \in 0 .. Oldest /\ g # 0 /\ f[g - 1] \in Seq(Nat)
    BY <1>3, GenerationsCount
  <2> QED
    BY <1>0, <1>2, <2>1 DEF StepsTo
<1>6. IsReading(f)
  <2>1. \A g \in Generations : f[g] = IF g = 0 THEN files[0] ELSE files[g] \o f[g - 1]
    <3> SUFFICES ASSUME NEW g \in Generations
                 PROVE  f[g] = IF g = 0 THEN files[0] ELSE files[g] \o f[g - 1]
      OBVIOUS
    <3>1. CASE g = 0
      BY <1>4, <3>1
    <3>2. CASE g # 0
      <4>1. g \in 1 .. Oldest
        BY <3>2, GenerationsCount
      <4> QED
        BY <1>5, <3>2, <4>1
    <3> QED
      BY <3>1, <3>2
  <2> QED
    BY <1>3, <2>1 DEF IsReading
<1> DEFINE c == CHOOSE read : IsReading(read)
<1>7. IsReading(c) /\ ReadFrom = c
  BY <1>6 DEF ReadFrom, IsReading
<1> HIDE DEF c
<1>8. c[0] = files[0] /\ \A g \in 1 .. Oldest : c[g] = files[g] \o c[g - 1]
  BY <1>7, GenerationsCount DEF IsReading
<1> DEFINE G == {m \in Nat : c[m] \in Seq(Nat)}
<1>9. ASSUME NEW n \in 0 .. Oldest, n > 0 => n - 1 \in G PROVE n \in G
  <2>1. files[n] \in Seq(Nat)
    BY GenerationsCount DEF Stock
  <2>2. CASE n = 0
    BY <1>8, <2>1, <2>2
  <2>3. CASE n # 0
    <3>1. n \in 1 .. Oldest /\ c[n - 1] \in Seq(Nat)
      BY <1>9, <2>3
    <3>2. files[n] \o c[n - 1] \in Seq(Nat)
      BY <2>1, <3>1, ConcatProperties
    <3>3. c[n] = files[n] \o c[n - 1]
      BY <1>8, <3>1
    <3>4. c[n] \in Seq(Nat)
      BY <3>2, <3>3
    <3> QED
      BY <3>1, <3>4
  <2> QED
    BY <2>2, <2>3
<1> HIDE DEF G
<1>10. \A n \in 0 .. Oldest : n \in G
  BY <1>9, GenerationsCount, NumberInduction
<1> QED
  BY <1>7, <1>8, <1>10, GenerationsCount DEF G

(* Lines are read in order when the files are, and without a gap.          *)
ReadsInOrder(g) ==
  LET read == ReadFrom[g]
  IN /\ Len(read) = Upto(files, g)
     /\ \A i \in 1 .. Len(read) : \E k \in 0 .. g : \E j \in 1 .. Len(files[k]) : read[i] = files[k][j]
     /\ \A i, j \in 1 .. Len(read) : i < j => read[i] < read[j]
     /\ refusals = 0 => \A i \in 1 .. Len(read) : read[i] = lines - Len(read) + i

LEMMA LiveFileInOrder == ASSUME FilesInv PROVE ReadsInOrder(0)
<1>1. ReadFrom[0] = files[0] /\ Upto(files, 0) = Len(files[0]) /\ 0 \in Generations
  BY ReadingIsDefined, UptoGrows, GenerationsCount DEF FilesInv
<1>2. \A i, j \in 1 .. Len(files[0]) : i < j => files[0][i] < files[0][j]
  BY <1>1 DEF FilesInv, Rising
<1>3. refusals = 0 => \A i \in 1 .. Len(files[0]) : files[0][i] = lines - Len(files[0]) + i
  BY <1>1 DEF FilesInv, Gapless
<1>4. 0 \in 0 .. 0
  OBVIOUS
<1> QED
  BY <1>1, <1>2, <1>3, <1>4 DEF ReadsInOrder

LEMMA OlderFileInOrder ==
  ASSUME FilesInv, NEW g \in 1 .. Oldest, ReadsInOrder(g - 1)
  PROVE  ReadsInOrder(g)
<1> DEFINE old == files[g]
           rest == ReadFrom[g - 1]
           read == ReadFrom[g]
<1>1. g \in Generations /\ g - 1 \in Generations /\ \A k \in 0 .. g - 1 : k \in Generations /\ k < g /\ k \in 0 .. g
  BY GenerationsCount
<1>2. old \in Seq(Nat) /\ rest \in Seq(Nat) /\ read = old \o rest
  BY <1>1, ReadingIsDefined DEF FilesInv, Stock
<1>3. Len(rest) = Upto(files, g - 1) /\ Upto(files, g) = Upto(files, g - 1) + Len(old)
  BY UptoGrows DEF ReadsInOrder, FilesInv
<1> HIDE DEF old, rest, read
<1>4. /\ Len(old) \in Nat /\ Len(rest) \in Nat /\ Len(read) = Len(old) + Len(rest)
      /\ \A i \in 1 .. Len(old) : read[i] = old[i]
      /\ \A i \in 1 .. Len(rest) : read[Len(old) + i] = rest[i]
      /\ \A i \in 1 .. Len(read) :
            i \in 1 .. Len(old) \/ (i - Len(old) \in 1 .. Len(rest) /\ Len(old) + (i - Len(old)) = i)
  <2>1. Len(old) \in Nat /\ Len(rest) \in Nat
    BY <1>2, LenProperties
  <2>2. /\ Len(read) = Len(old) + Len(rest)
        /\ \A i \in 1 .. Len(old) + Len(rest) :
              read[i] = IF i <= Len(old) THEN old[i] ELSE rest[i - Len(old)]
    BY <1>2, ConcatProperties
  <2>3. \A i \in 1 .. Len(old) : read[i] = old[i]
    BY <2>1, <2>2
  <2>4. ASSUME NEW i \in 1 .. Len(rest) PROVE read[Len(old) + i] = rest[i]
    <3>1. Len(old) + i \in 1 .. Len(old) + Len(rest) /\ ~(Len(old) + i <= Len(old))
          /\ (Len(old) + i) - Len(old) = i
      BY <2>1
    <3> QED
      BY <2>2, <3>1
  <2> QED
    BY <2>1, <2>2, <2>3, <2>4
<1>5. ASSUME NEW i \in 1 .. Len(rest)
      PROVE  \E k \in 0 .. g - 1 : \E j \in 1 .. Len(files[k]) : rest[i] = files[k][j]
  BY DEF ReadsInOrder, rest
<1>6. ASSUME NEW i \in 1 .. Len(read)
      PROVE  \E k \in 0 .. g : \E j \in 1 .. Len(files[k]) : read[i] = files[k][j]
  <2>1. CASE i \in 1 .. Len(old)
    <3>1. g \in 0 .. g /\ read[i] = old[i]
      BY <1>1, <1>4, <2>1
    <3> QED
      BY <2>1, <3>1 DEF old
  <2>2. CASE i \notin 1 .. Len(old)
    <3>1. i - Len(old) \in 1 .. Len(rest) /\ read[i] = rest[i - Len(old)]
      BY <1>4, <2>2
    <3>2. PICK k \in 0 .. g - 1 : \E j \in 1 .. Len(files[k]) : rest[i - Len(old)] = files[k][j]
      BY <1>5, <3>1
    <3> QED
      BY <1>1, <3>1, <3>2
  <2> QED
    BY <2>1, <2>2
<1>7. ASSUME NEW i \in 1 .. Len(read), NEW j \in 1 .. Len(read), i < j
      PROVE  read[i] < read[j]
  <2>1. CASE j \in 1 .. Len(old)
    <3>1. i \in 1 .. Len(old)
      BY <1>4, <1>7, <2>1
    <3>2. old[i] < old[j]
      BY <1>1, <1>7, <2>1, <3>1 DEF FilesInv, Rising, old
    <3> QED
      BY <1>4, <2>1, <3>1, <3>2
  <2>2. CASE j \notin 1 .. Len(old) /\ i \in 1 .. Len(old)
    <3>1. j - Len(old) \in 1 .. Len(rest) /\ read[j] = rest[j - Len(old)]
      BY <1>4, <2>2
    <3>2. PICK k \in 0 .. g - 1 : \E m \in 1 .. Len(files[k]) : rest[j - Len(old)] = files[k][m]
      BY <1>5, <3>1
    <3>3. PICK m \in 1 .. Len(files[k]) : rest[j - Len(old)] = files[k][m]
      BY <3>2
    <3>4. old[i] < files[k][m]
      BY <1>1, <2>2 DEF FilesInv, Rising, old
    <3> QED
      BY <1>4, <2>2, <3>1, <3>3, <3>4
  <2>3. CASE j \notin 1 .. Len(old) /\ i \notin 1 .. Len(old)
    <3>1. /\ i - Len(old) \in 1 .. Len(rest) /\ read[i] = rest[i - Len(old)]
          /\ j - Len(old) \in 1 .. Len(rest) /\ read[j] = rest[j - Len(old)]
      BY <1>4, <2>3
    <3>2. i - Len(old) < j - Len(old)
      BY <1>4, <1>7
    <3>3. \A a, b \in 1 .. Len(rest) : a < b => rest[a] < rest[b]
      BY DEF ReadsInOrder, rest
    <3> QED
      BY <3>1, <3>2, <3>3
  <2> QED
    BY <2>1, <2>2, <2>3
<1>8. ASSUME refusals = 0, NEW i \in 1 .. Len(read)
      PROVE  read[i] = lines - Len(read) + i
  <2>0. lines \in Nat /\ i \in Nat
    BY DEF FilesInv
  <2>1. CASE i \in 1 .. Len(old)
    <3>1. old[i] = lines - Upto(files, g) + i
      BY <1>1, <1>8, <2>1 DEF FilesInv, Gapless, old
    <3> QED
      BY <1>3, <1>4, <2>0, <2>1, <3>1
  <2>2. CASE i \notin 1 .. Len(old)
    <3>1. i - Len(old) \in 1 .. Len(rest) /\ read[i] = rest[i - Len(old)]
      BY <1>4, <2>2
    <3>2. rest[i - Len(old)] = lines - Len(rest) + (i - Len(old))
      BY <1>8, <3>1 DEF ReadsInOrder, rest
    <3> QED
      BY <1>4, <2>0, <3>1, <3>2
  <2> QED
    BY <2>1, <2>2
<1>9. Len(read) = Upto(files, g)
  BY <1>3, <1>4
<1> QED
  BY <1>6, <1>7, <1>8, <1>9 DEF ReadsInOrder, read

LEMMA ReadsAsOne == ASSUME FilesInv PROVE LogReadsAsOne
<1> DEFINE G == {m \in Nat : ReadsInOrder(m)}
<1>1. ASSUME NEW n \in 0 .. Oldest, n > 0 => n - 1 \in G PROVE n \in G
  <2>1. CASE n = 0
    BY <2>1, LiveFileInOrder
  <2>2. CASE n # 0
    <3>1. n \in 1 .. Oldest /\ ReadsInOrder(n - 1)
      BY <1>1, <2>2
    <3> QED
      BY <3>1, OlderFileInOrder
  <2> QED
    BY <2>1, <2>2
<1> HIDE DEF G
<1>2. Oldest \in 0 .. Oldest /\ \A n \in 0 .. Oldest : n \in G
  BY <1>1, GenerationsCount, NumberInduction
<1>3. ReadsInOrder(Oldest)
  BY <1>2 DEF G
<1> DEFINE all == ReadFrom[Oldest]
<1>4. all \in Seq(Nat) /\ Len(all) \in Nat /\ DOMAIN all = 1 .. Len(all)
  BY GenerationsCount, ReadingIsDefined, LenProperties DEF FilesInv
<1>5. Len(all) = Occupied(files)
  BY <1>3, UptoGrows DEF ReadsInOrder, FilesInv
<1>6. \A i, j \in 1 .. Len(all) : i < j => all[i] < all[j]
  BY <1>3 DEF ReadsInOrder
<1>7. refusals = 0 => \A i \in 1 .. Len(all) : all[i] = lines - Len(all) + i
  BY <1>3 DEF ReadsInOrder
<1>8. refusals = 0 => Occupied(files) <= Budget
  BY DEF FilesInv
<1> HIDE DEF all
<1>9. \A i \in 1 .. Len(all) - 1 : all[i] < all[i + 1]
  <2> TAKE i \in 1 .. Len(all) - 1
  <2>1. i \in 1 .. Len(all) /\ i + 1 \in 1 .. Len(all) /\ i < i + 1
    BY <1>4
  <2> QED
    BY <1>6, <2>1
<1> QED
  BY <1>4, <1>5, <1>7, <1>8, <1>9 DEF LogReadsAsOne, all

(* "The budget is a promise": however many lines are written, and whatever *)
(* the storage refuses, the files read as one log in order, and where it   *)
(* refuses nothing they hold its last lines without a gap, within the      *)
(* budget (rotating_log_file.hpp).                                         *)
THEOREM Readable == FilesInit /\ [][WriteLine]_filesVars => []LogReadsAsOne
<1>1. ASSUME FilesInv, [WriteLine]_filesVars PROVE FilesInv'
  <2>1. CASE WriteLine
    BY <1>1, <2>1, WriteLineKeeps
  <2>2. CASE UNCHANGED filesVars
    BY <1>1, <2>2 DEF filesVars, FilesInv, Rising, Gapless, Upto, Lengths, Occupied
  <2> QED
    BY <1>1, <2>1, <2>2
<1>2. FilesInv => LogReadsAsOne
  BY ReadsAsOne
<1> QED
  BY <1>1, <1>2, InitFiles, PTL

-----------------------------------------------------------------------------
(* The shell: what is shown is allowed, session after session.             *)

(* Where a screen is in the order they are shown in.                       *)
Place(s) == 1000 * s.group + s.rank

LEMMA InPlace ==
  /\ \A s \in Screens : Place(s) \in Nat
  /\ \A s, t \in Screens : s = t \/ Place(s) # Place(t)
  /\ \A s, t \in Screens : Place(s) < Place(t) => Before(s, t)
<1> USE DEF Screen
<1>1. DOMAIN Manifest = 1..14
  BY DEF Manifest
<1>2. \A i \in 1..14 : Place(Manifest[i]) \in Nat
  BY DEF Manifest, Place
<1>3. \A i, j \in 1..14 : Place(Manifest[i]) = Place(Manifest[j]) => i = j
  BY DEF Manifest, Place
<1>4. \A i, j \in 1..14 : Place(Manifest[i]) < Place(Manifest[j]) => Before(Manifest[i], Manifest[j])
  BY DEF Manifest, Place, Before
<1> QED
  BY <1>1, <1>2, <1>3, <1>4 DEF Screens

LEMMA FirstIsShown ==
  ASSUME NEW shown \in SUBSET Routes, shown # {}
  PROVE  FirstOf(shown) \in shown
<1> DEFINE places == {Place(s) : s \in shown}
<1>1. \A s \in shown : s \in Screens
  BY NavigationAssumption
<1>2. \A s \in shown : Place(s) \in Nat
  BY <1>1, InPlace
<1>3. places \in SUBSET Nat /\ places # {}
  BY <1>2
<1>4. PICK n \in places : \A m \in places : n <= m
  <2> HIDE DEF places
  <2> QED
    BY <1>3, LeastMember
<1>5. PICK s \in shown : Place(s) = n
  BY <1>4
<1>6. ASSUME NEW other \in shown \ {s} PROVE Before(s, other)
  <2>1. Place(s) <= Place(other)
    BY <1>4, <1>5
  <2>2. s \in Screens /\ other \in Screens /\ s # other
    BY <1>1
  <2>3. Place(s) \in Nat /\ Place(other) \in Nat /\ Place(s) # Place(other)
    BY <2>2, InPlace
  <2>4. Place(s) < Place(other)
    BY <2>1, <2>3
  <2> QED
    BY <2>2, <2>4, InPlace
<1> QED
  BY <1>6 DEF FirstOf

-----------------------------------------------------------------------------
(* A history that is pruned.                                               *)

Keeping(before, past, n, shown) ==
  IF past[n] \in shown THEN Append(before, past[n]) ELSE before

IsPruning(kept, past, shown) ==
  kept = [n \in 0..Len(past) |->
            IF n = 0 THEN <<>> ELSE Keeping(kept[n - 1], past, n, shown)]

LEMMA PruningIsDefined ==
  ASSUME NEW S, NEW past \in Seq(S), NEW shown
  PROVE  \E kept : IsPruning(kept, past, shown) /\ Pruned(past, shown) = kept[Len(past)]
<1> DEFINE N == Len(past)
           step == [n \in 0..N |-> [x \in Seq(S) |-> IF n = 0 THEN <<>> ELSE Keeping(x, past, n, shown)]]
<1>0. N \in Nat /\ \A n \in 1..N : past[n] \in S
  BY LenProperties, ElementOfSeq
<1> HIDE DEF N
<1>1. \A n \in 0..N : \A x \in Seq(S) :
        step[n][x] = IF n = 0 THEN <<>> ELSE Keeping(x, past, n, shown)
  OBVIOUS
<1> HIDE DEF step
<1>2. ASSUME NEW n \in 0..N, NEW x \in Seq(S) PROVE step[n][x] \in Seq(S)
  <2>1. n # 0 => past[n] \in S
    BY <1>0
  <2>2. n # 0 => Append(x, past[n]) \in Seq(S)
    BY <2>1, AppendProperties
  <2>3. <<>> \in Seq(S)
    BY EmptySeq
  <2> QED
    BY <1>1, <2>2, <2>3 DEF Keeping
<1>3. PICK f : StepsTo(f, Seq(S), <<>>, N, step)
  <2>1. HasSteps(Seq(S), <<>>, N, step)
    BY <1>0, <1>2, EmptySeq, StepByStep
  <2> QED
    BY <2>1 DEF HasSteps
<1>4. f \in [0..N -> Seq(S)]
  BY <1>3 DEF StepsTo
<1>5. ASSUME NEW n \in 0..N
      PROVE  f[n] = IF n = 0 THEN <<>> ELSE Keeping(f[n - 1], past, n, shown)
  <2>1. CASE n = 0
    BY <1>0, <1>1, <1>3, <2>1, EmptySeq DEF StepsTo
  <2>2. CASE n # 0
    <3>1. n \in 1..N /\ f[n - 1] \in Seq(S)
      BY <1>0, <1>4, <2>2
    <3>2. f[n] = step[n][f[n - 1]]
      BY <1>3, <3>1 DEF StepsTo
    <3> QED
      BY <1>1, <2>2, <3>1, <3>2
  <2> QED
    BY <2>1, <2>2
<1>6. IsPruning(f, past, shown)
  <2>1. f = [n \in 0..N |-> IF n = 0 THEN <<>> ELSE Keeping(f[n - 1], past, n, shown)]
    BY <1>4, <1>5
  <2> QED
    BY <2>1 DEF IsPruning, N
<1> DEFINE c == CHOOSE kept : IsPruning(kept, past, shown)
<1>7. IsPruning(c, past, shown)
  BY <1>6
<1>8. Pruned(past, shown) = c[Len(past)]
  BY DEF Pruned, IsPruning, Keeping
<1> QED
  BY <1>7, <1>8

(* It holds only what is shown, and no more than it did.                   *)
LEMMA PrunedIsShown ==
  ASSUME NEW S, NEW past \in Seq(S), NEW shown
  PROVE  Pruned(past, shown) \in Seq(shown) /\ Len(Pruned(past, shown)) <= Len(past)
<1> DEFINE N == Len(past)
<1>1. PICK kept : IsPruning(kept, past, shown) /\ Pruned(past, shown) = kept[N]
  BY PruningIsDefined
<1>2. N \in Nat
  BY LenProperties
<1>3. \A n \in 0..N : kept[n] = IF n = 0 THEN <<>> ELSE Keeping(kept[n - 1], past, n, shown)
  BY <1>1 DEF IsPruning
<1> HIDE DEF N
<1> DEFINE G == {n \in Nat : kept[n] \in Seq(shown) /\ Len(kept[n]) <= n}
<1>4. ASSUME NEW n \in 0..N, n > 0 => n - 1 \in G PROVE n \in G
  <2>1. CASE n = 0
    <3>1. kept[0] = <<>> /\ <<>> \in Seq(shown) /\ Len(<<>>) = 0
      BY <1>2, <1>3, <2>1, EmptySeq
    <3>2. kept[0] \in Seq(shown) /\ Len(kept[0]) <= 0
      BY <3>1
    <3> QED
      BY <2>1, <3>2
  <2>2. CASE n # 0
    <3> DEFINE before == kept[n - 1]
    <3>1. before \in Seq(shown) /\ Len(before) <= n - 1 /\ Len(before) \in Nat
      BY <1>4, <2>2, LenProperties
    <3>2. kept[n] = Keeping(before, past, n, shown)
      BY <1>3, <2>2
    <3> HIDE DEF before
    <3>3. CASE past[n] \in shown
      <4>1. kept[n] = Append(before, past[n])
        BY <3>2, <3>3 DEF Keeping
      <4>2. kept[n] \in Seq(shown) /\ Len(kept[n]) = Len(before) + 1
        BY <3>1, <3>3, <4>1, AppendProperties
      <4> QED
        BY <1>4, <3>1, <4>2
    <3>4. CASE past[n] \notin shown
      BY <1>4, <3>1, <3>2, <3>4 DEF Keeping
    <3> QED
      BY <3>3, <3>4
  <2> QED
    BY <2>1, <2>2
<1> HIDE DEF G
<1>5. N \in 0..N /\ \A n \in 0..N : n \in G
  BY <1>2, <1>4, NumberInduction
<1> QED
  BY <1>1, <1>5 DEF G, N

-----------------------------------------------------------------------------
(* What every step of the shell keeps.                                     *)

HistoryKept(past, shown) == past \in Seq(shown) /\ Len(past) <= MaxHistory

NavigationInv ==
  /\ access \in AccessRows \cup {Nil}
  /\ posted \in Seq(AccessRows)
  /\ rows = IF access = Nil THEN {} ELSE Visible(access)
  /\ bridge # Nil <=> current # Nil
  /\ bridge # Nil => /\ bridge \in [route : Routes, session : 1..MaxSession]
                     /\ bridge.route = current /\ bridge.session = access.session
                     /\ current \in rows
  /\ HistoryKept(back, rows) /\ HistoryKept(forward, rows)

LEMMA RoutesAreNotNil ==
  /\ \A s \in Routes : s # Nil
  /\ \A a \in AccessRows : a # Nil
  /\ \A b \in [route : Routes, session : 1..MaxSession] : b # Nil
  /\ MaxHistory \in Nat \ {0}
BY NavigationAssumption DEF AccessRows

LEMMA RowsAreRoutes ==
  ASSUME NavigationInv
  PROVE  /\ rows \subseteq Routes
         /\ current # Nil => current \in rows /\ access \in AccessRows
         /\ rows # {} => access \in AccessRows
BY DEF NavigationInv, Visible

LEMMA PrunedIsKept ==
  ASSUME NEW S, NEW past, HistoryKept(past, S), NEW shown
  PROVE  HistoryKept(Pruned(past, shown), shown)
<1>1. past \in Seq(S) /\ Len(past) <= MaxHistory /\ Len(past) \in Nat
  BY LenProperties DEF HistoryKept
<1>2. Pruned(past, shown) \in Seq(shown) /\ Len(Pruned(past, shown)) <= Len(past)
  BY <1>1, PrunedIsShown
<1>3. Len(Pruned(past, shown)) \in Nat
  BY <1>2, LenProperties
<1> QED
  BY <1>1, <1>2, <1>3, RoutesAreNotNil DEF HistoryKept

LEMMA RememberedIsKept ==
  ASSUME NEW shown, NEW past, HistoryKept(past, shown), NEW s \in shown
  PROVE  HistoryKept(Remember(past, s), shown)
<1> DEFINE longer == Append(past, s)
<1>1. /\ longer \in Seq(shown) /\ Len(longer) = Len(past) + 1
      /\ Len(past) \in Nat /\ Len(past) <= MaxHistory /\ longer # <<>>
  BY AppendProperties, LenProperties, EmptySeq DEF HistoryKept
<1> HIDE DEF longer
<1>2. Tail(longer) \in Seq(shown) /\ Len(Tail(longer)) = Len(longer) - 1
  BY <1>1, HeadTailProperties
<1>3. Remember(past, s) = IF Len(longer) > MaxHistory THEN Tail(longer) ELSE longer
  BY DEF Remember, longer
<1> QED
  BY <1>1, <1>2, <1>3, RoutesAreNotNil DEF HistoryKept

LEMMA AllButTheLast ==
  ASSUME NEW shown, NEW past, HistoryKept(past, shown), past # <<>>
  PROVE  HistoryKept(Front(past), shown) /\ Last(past) \in shown
<1>1. past \in Seq(shown) /\ Len(past) \in Nat \ {0} /\ Len(past) <= MaxHistory
  BY LenProperties, EmptySeq DEF HistoryKept
<1>2. Front(past) = SubSeq(past, 1, Len(past) - 1)
  BY DEF Front
<1>3. /\ SubSeq(past, 1, Len(past) - 1) \in Seq(shown)
      /\ Len(SubSeq(past, 1, Len(past) - 1)) = Len(past) - 1
  <2>1. 1 \in Int /\ Len(past) - 1 \in Int
    BY <1>1
  <2>2. \A i \in 1..Len(past) - 1 : past[i] \in shown
    BY <1>1, ElementOfSeq
  <2>3. /\ SubSeq(past, 1, Len(past) - 1) \in Seq(shown)
        /\ Len(SubSeq(past, 1, Len(past) - 1))
             = IF 1 <= Len(past) - 1 THEN (Len(past) - 1) - 1 + 1 ELSE 0
    BY <2>1, <2>2, SubSeqProperties
  <2>4. \A n \in Nat \ {0} : (IF 1 <= n - 1 THEN (n - 1) - 1 + 1 ELSE 0) = n - 1
    OBVIOUS
  <2> QED
    BY <1>1, <2>3, <2>4
<1>4. Last(past) = past[Len(past)] /\ Len(past) \in 1..Len(past)
  BY <1>1 DEF Last
<1>5. Last(past) \in shown
  BY <1>1, <1>4, ElementOfSeq
<1> QED
  BY <1>1, <1>2, <1>3, <1>5, RoutesAreNotNil DEF HistoryKept

LEMMA BridgeIsForIt ==
  ASSUME NavigationInv, NEW s \in rows
  PROVE  /\ BridgeFor(s) \in [route : Routes, session : 1..MaxSession]
         /\ BridgeFor(s) # Nil /\ BridgeFor(s).route = s /\ BridgeFor(s).session = access.session
         /\ s \in Routes /\ s # Nil
<1>1. s \in Routes /\ s # Nil /\ access \in AccessRows
  BY RowsAreRoutes, RoutesAreNotNil
<1>2. access.session \in 1..MaxSession
  BY <1>1 DEF AccessRows
<1>3. [route |-> s, session |-> access.session] \in [route : Routes, session : 1..MaxSession]
  BY <1>1, <1>2
<1>4. CASE Alive(s)
  BY <1>1, <1>4, RoutesAreNotNil DEF Alive, BridgeFor, NavigationInv
<1>5. CASE ~Alive(s)
  BY <1>1, <1>3, <1>5, RoutesAreNotNil DEF BridgeFor
<1> QED
  BY <1>1, <1>4, <1>5

(* With the same snapshot in force, the route and the histories may be any *)
(* that it shows.                                                          *)
LEMMA SameSnapshot ==
  ASSUME NavigationInv, UNCHANGED <<access, rows, posted>>,
         UNCHANGED <<current, bridge>> \/ \E s \in rows : current' = s /\ bridge' = BridgeFor(s),
         HistoryKept(back', rows), HistoryKept(forward', rows)
  PROVE  NavigationInv'
<1>1. /\ access' \in AccessRows \cup {Nil} /\ posted' \in Seq(AccessRows)
      /\ rows' = IF access' = Nil THEN {} ELSE Visible(access')
      /\ HistoryKept(back', rows') /\ HistoryKept(forward', rows')
  BY DEF NavigationInv, HistoryKept
<1>2. /\ bridge' # Nil <=> current' # Nil
      /\ bridge' # Nil => /\ bridge' \in [route : Routes, session : 1..MaxSession]
                          /\ bridge'.route = current' /\ bridge'.session = access'.session
                          /\ current' \in rows'
  <2>1. CASE UNCHANGED <<current, bridge>>
    BY <2>1 DEF NavigationInv
  <2>2. ASSUME NEW s \in rows, current' = s, bridge' = BridgeFor(s)
        PROVE  /\ bridge' # Nil /\ current' # Nil
               /\ bridge' \in [route : Routes, session : 1..MaxSession]
               /\ bridge'.route = current' /\ bridge'.session = access'.session
               /\ current' \in rows'
    BY <2>2, BridgeIsForIt
  <2> QED
    BY <2>1, <2>2
<1> QED
  BY <1>1, <1>2 DEF NavigationInv, HistoryKept, Visible, Allows

LEMMA SelectRouteKeeps ==
  ASSUME NavigationInv, NEW s \in Routes, NEW made \in BOOLEAN, SelectRoute(s, made)
  PROVE  NavigationInv'
<1>1. s \in rows /\ current' = s /\ bridge' = BridgeFor(s) /\ UNCHANGED <<access, rows, posted>>
  BY DEF SelectRoute, Activates
<1>2. HistoryKept(back, rows) /\ HistoryKept(forward, rows) /\ HistoryKept(<<>>, rows)
  BY EmptySeq, RoutesAreNotNil DEF NavigationInv, HistoryKept
<1>3. HistoryKept(back', rows) /\ HistoryKept(forward', rows)
  <2>1. CASE Alive(s) \/ current = Nil
    BY <1>2, <2>1 DEF SelectRoute, history
  <2>2. CASE ~(Alive(s) \/ current = Nil)
    <3>1. current \in rows /\ back' = Remember(back, current) /\ forward' = <<>>
      BY <2>2, RowsAreRoutes DEF SelectRoute
    <3> QED
      BY <1>2, <3>1, RememberedIsKept
  <2> QED
    BY <2>1, <2>2
<1> QED
  BY <1>1, <1>3, SameSnapshot

(* Going back, and going forward with the histories exchanged.             *)
LEMMA GoingKeeps ==
  ASSUME NavigationInv, NEW made \in BOOLEAN, NEW ok \in BOOLEAN,
         NEW from, NEW to, HistoryKept(from, rows), HistoryKept(to, rows), from # <<>>,
         Activates(Last(from), made, ok),
         current' = (IF ok THEN Last(from) ELSE current),
         bridge' = (IF ok THEN BridgeFor(Last(from)) ELSE bridge)
  PROVE  /\ HistoryKept(Front(from), rows)
         /\ HistoryKept(IF ok /\ current # Nil THEN Remember(to, current) ELSE to, rows)
         /\ UNCHANGED <<current, bridge>> \/ \E s \in rows : current' = s /\ bridge' = BridgeFor(s)
<1>1. HistoryKept(Front(from), rows) /\ Last(from) \in rows
  BY AllButTheLast
<1>2. current # Nil => HistoryKept(Remember(to, current), rows)
  BY RowsAreRoutes, RememberedIsKept
<1>3. CASE ok
  BY <1>1, <1>2, <1>3
<1>4. CASE ~ok
  BY <1>1, <1>4
<1> QED
  BY <1>3, <1>4

LEMMA GoBackKeeps ==
  ASSUME NavigationInv, NEW made \in BOOLEAN, GoBack(made)
  PROVE  NavigationInv'
<1> DEFINE kept == Pruned(back, rows)
           ahead == Pruned(forward, rows)
<1>1. HistoryKept(kept, rows) /\ HistoryKept(ahead, rows)
  BY PrunedIsKept DEF NavigationInv
<1>2. /\ kept # <<>> /\ UNCHANGED <<access, rows, posted>>
      /\ \E ok \in BOOLEAN :
           /\ Activates(Last(kept), made, ok)
           /\ back' = Front(kept)
           /\ forward' = IF ok /\ current # Nil THEN Remember(ahead, current) ELSE ahead
           /\ current' = IF ok THEN Last(kept) ELSE current
           /\ bridge' = IF ok THEN BridgeFor(Last(kept)) ELSE bridge
  BY DEF GoBack
<1> HIDE DEF kept, ahead
<1>3. PICK ok \in BOOLEAN :
        /\ Activates(Last(kept), made, ok)
        /\ back' = Front(kept)
        /\ forward' = IF ok /\ current # Nil THEN Remember(ahead, current) ELSE ahead
        /\ current' = IF ok THEN Last(kept) ELSE current
        /\ bridge' = IF ok THEN BridgeFor(Last(kept)) ELSE bridge
  BY <1>2
<1>4. /\ HistoryKept(back', rows) /\ HistoryKept(forward', rows)
      /\ UNCHANGED <<current, bridge>> \/ \E s \in rows : current' = s /\ bridge' = BridgeFor(s)
  BY <1>1, <1>2, <1>3, GoingKeeps
<1> QED
  BY <1>2, <1>4, SameSnapshot

LEMMA GoForwardKeeps ==
  ASSUME NavigationInv, NEW made \in BOOLEAN, GoForward(made)
  PROVE  NavigationInv'
<1> DEFINE kept == Pruned(back, rows)
           ahead == Pruned(forward, rows)
<1>1. HistoryKept(kept, rows) /\ HistoryKept(ahead, rows)
  BY PrunedIsKept DEF NavigationInv
<1>2. /\ ahead # <<>> /\ UNCHANGED <<access, rows, posted>>
      /\ \E ok \in BOOLEAN :
           /\ Activates(Last(ahead), made, ok)
           /\ forward' = Front(ahead)
           /\ back' = IF ok /\ current # Nil THEN Remember(kept, current) ELSE kept
           /\ current' = IF ok THEN Last(ahead) ELSE current
           /\ bridge' = IF ok THEN BridgeFor(Last(ahead)) ELSE bridge
  BY DEF GoForward
<1> HIDE DEF kept, ahead
<1>3. PICK ok \in BOOLEAN :
        /\ Activates(Last(ahead), made, ok)
        /\ forward' = Front(ahead)
        /\ back' = IF ok /\ current # Nil THEN Remember(kept, current) ELSE kept
        /\ current' = IF ok THEN Last(ahead) ELSE current
        /\ bridge' = IF ok THEN BridgeFor(Last(ahead)) ELSE bridge
  BY <1>2
<1>4. /\ HistoryKept(back', rows) /\ HistoryKept(forward', rows)
      /\ UNCHANGED <<current, bridge>> \/ \E s \in rows : current' = s /\ bridge' = BridgeFor(s)
  BY <1>1, <1>2, <1>3, GoingKeeps
<1> QED
  BY <1>2, <1>4, SameSnapshot

(* A snapshot that is taken shows what it allows; of another session it    *)
(* finds the histories empty and a bridge that is its own.                 *)
LEMMA TakeAccessKeeps ==
  ASSUME NavigationInv, NEW a \in AccessRows, NEW made \in BOOLEAN, posted' \in Seq(AccessRows),
         NEW replaced \in BOOLEAN, replaced <=> access # Nil /\ a.session # access.session,
         TakeAccess(a, made, replaced)
  PROVE  /\ NavigationInv' /\ access' = a
         /\ replaced => back' = <<>> /\ forward' = <<>> /\ (bridge' # Nil => bridge' # bridge)
<1> DEFINE shown == Visible(a)
           stays == ~replaced /\ current \in shown
           entered == ~stays /\ shown # {} /\ made
<1>1. /\ access' = a /\ rows' = shown
      /\ current' = IF stays THEN current ELSE IF entered THEN FirstOf(shown) ELSE Nil
      /\ bridge' = IF stays THEN bridge
                   ELSE IF entered THEN [route |-> FirstOf(shown), session |-> a.session]
                   ELSE Nil
      /\ back' = IF replaced THEN <<>> ELSE Pruned(back, shown)
      /\ forward' = IF replaced THEN <<>> ELSE Pruned(forward, shown)
  BY DEF TakeAccess
<1>2. shown \subseteq Routes /\ a # Nil /\ a.session \in 1..MaxSession
      /\ (shown # {} => FirstOf(shown) \in shown)
  BY FirstIsShown, RoutesAreNotNil DEF Visible, AccessRows
<1>3. HistoryKept(back', rows') /\ HistoryKept(forward', rows')
  <2>1. HistoryKept(Pruned(back, shown), shown) /\ HistoryKept(Pruned(forward, shown), shown)
    BY PrunedIsKept DEF NavigationInv
  <2>2. HistoryKept(<<>>, shown)
    BY EmptySeq, RoutesAreNotNil DEF HistoryKept
  <2> HIDE DEF shown
  <2> QED
    BY <1>1, <2>1, <2>2
<1>4. rows' = IF access' = Nil THEN {} ELSE Visible(access')
  BY <1>1, <1>2
<1> HIDE DEF shown
<1>5. CASE stays
  <2>1. current' = current /\ bridge' = bridge /\ current \in rows' /\ current # Nil
    BY <1>1, <1>2, <1>5, RoutesAreNotNil
  <2>2. access # Nil /\ a.session = access.session
    BY <1>5, <2>1, RowsAreRoutes, RoutesAreNotNil
  <2>3. NavigationInv'
    BY <1>1, <1>3, <1>4, <2>1, <2>2 DEF NavigationInv, HistoryKept, Visible, Allows
  <2> QED
    BY <1>1, <1>5, <2>3
<1>6. CASE ~stays /\ entered
  <2> DEFINE first == FirstOf(shown)
  <2>1. current' = first /\ bridge' = [route |-> first, session |-> a.session] /\ first \in rows'
    BY <1>1, <1>2, <1>6
  <2>2. first \in Routes /\ first # Nil
    BY <1>2, <1>6, RoutesAreNotNil
  <2> HIDE DEF first
  <2>3. /\ bridge' \in [route : Routes, session : 1..MaxSession]
        /\ bridge'.route = current' /\ bridge'.session = access'.session
    BY <1>1, <1>2, <2>1, <2>2
  <2>4. bridge' # Nil /\ current' # Nil
    BY <2>1, <2>2, <2>3, RoutesAreNotNil
  <2>5. NavigationInv'
    BY <1>1, <1>3, <1>4, <2>1, <2>3, <2>4 DEF NavigationInv, HistoryKept, Visible, Allows
  <2>6. replaced => bridge' # bridge
    <3>1. CASE bridge = Nil
      BY <2>4, <3>1
    <3>2. CASE bridge # Nil
      BY <1>1, <2>3, <3>2 DEF NavigationInv
    <3> QED
      BY <3>1, <3>2
  <2> QED
    BY <1>1, <2>5, <2>6
<1>7. CASE ~stays /\ ~entered
  <2>1. current' = Nil /\ bridge' = Nil
    BY <1>1, <1>7
  <2>2. NavigationInv'
    BY <1>1, <1>3, <1>4, <2>1 DEF NavigationInv, HistoryKept, Visible, Allows
  <2> QED
    BY <1>1, <2>1, <2>2
<1> QED
  BY <1>5, <1>6, <1>7

(* What holds between the snapshots before and after a step.               *)
Onward ==
  access # Nil /\ access' # Nil =>
    /\ access'.session >= access.session
    /\ access'.session = access.session => access'.revision >= access.revision
    /\ access'.session # access.session =>
         back' = <<>> /\ forward' = <<>> /\ (bridge' # Nil => bridge' # bridge)

LEMMA SameIsOnward == ASSUME NavigationInv, access' = access PROVE Onward
<1>1. access # Nil => access.session \in Int /\ access.revision \in Int
  BY DEF NavigationInv, AccessRows
<1> QED
  BY <1>1 DEF Onward

LEMMA ApplyPostedKeeps ==
  ASSUME NavigationInv, NEW made \in BOOLEAN, ApplyPosted(made)
  PROVE  NavigationInv' /\ Onward
<1> DEFINE a == Head(posted)
<1>1. a \in AccessRows /\ posted' \in Seq(AccessRows)
  BY HeadTailProperties, ElementOfSeq, EmptySeq, LenProperties DEF NavigationInv, ApplyPosted
<1>2. \/ UNCHANGED <<access, rows, current, bridge, history>>
      \/ ~Stale(a) /\ TakeAccess(a, made, access # Nil /\ a.session # access.session)
  BY DEF ApplyPosted, ApplyAccess
<1> HIDE DEF a
<1>3. CASE UNCHANGED <<access, rows, current, bridge, history>>
  <2>1. NavigationInv'
    BY <1>1, <1>3 DEF NavigationInv, history, HistoryKept, Visible, Allows
  <2> QED
    BY <1>3, <2>1, SameIsOnward
<1>4. CASE ~Stale(a) /\ TakeAccess(a, made, access # Nil /\ a.session # access.session)
  <2> DEFINE replaced == access # Nil /\ a.session # access.session
  <2>1. replaced \in BOOLEAN /\ (replaced <=> access # Nil /\ a.session # access.session)
    OBVIOUS
  <2>2. TakeAccess(a, made, replaced)
    BY <1>4
  <2> HIDE DEF replaced
  <2>3. /\ NavigationInv' /\ access' = a
        /\ replaced => back' = <<>> /\ forward' = <<>> /\ (bridge' # Nil => bridge' # bridge)
    BY <1>1, <2>1, <2>2, TakeAccessKeeps
  <2>4. a.session \in Int /\ a.revision \in Int
    BY <1>1 DEF AccessRows
  <2>5. access # Nil => /\ access.session \in Int /\ access.revision \in Int
                        /\ ~(a.session < access.session)
                        /\ ~(a.session = access.session /\ a.revision < access.revision)
    BY <1>4 DEF Stale, NavigationInv, AccessRows
  <2>6. Onward
    BY <2>1, <2>3, <2>4, <2>5 DEF Onward
  <2> QED
    BY <2>3, <2>6
<1> QED
  BY <1>2, <1>3, <1>4

LEMMA PublishAccessKeeps ==
  ASSUME NavigationInv, NEW a \in AccessRows, PublishAccess(a)
  PROVE  NavigationInv' /\ Onward
<1>1. posted' \in Seq(AccessRows)
  BY AppendProperties DEF NavigationInv, PublishAccess
<1>2. UNCHANGED <<access, rows, current, bridge, history>>
  BY DEF PublishAccess
<1> QED
  BY <1>1, <1>2, SameIsOnward DEF NavigationInv, history, HistoryKept, Visible, Allows

LEMMA ClosedShell ==
  ASSUME access' = Nil, rows' = {}, current' = Nil, bridge' = Nil,
         back' = <<>>, forward' = <<>>, posted' = <<>>
  PROVE  NavigationInv' /\ Onward
<1>1. HistoryKept(<<>>, {}) /\ <<>> \in Seq(AccessRows)
  BY EmptySeq, RoutesAreNotNil DEF HistoryKept
<1>2. Onward
  BY DEF Onward
<1> QED
  BY <1>1, <1>2 DEF NavigationInv, HistoryKept

LEMMA InitNavigation == NavigationInit => NavigationInv
<1> SUFFICES ASSUME NavigationInit PROVE NavigationInv
  OBVIOUS
<1>1. HistoryKept(<<>>, {}) /\ <<>> \in Seq(AccessRows)
  BY EmptySeq, RoutesAreNotNil DEF HistoryKept
<1> QED
  BY <1>1 DEF NavigationInit, NavigationInv

LEMMA NextNavigation ==
  ASSUME NavigationInv, [NavigationNext]_navigationVars
  PROVE  NavigationInv' /\ Onward
<1>1. ASSUME NEW made \in BOOLEAN, NEW s \in Routes, SelectRoute(s, made)
      PROVE  NavigationInv' /\ Onward
  BY <1>1, SelectRouteKeeps, SameIsOnward DEF SelectRoute
<1>2. ASSUME NEW made \in BOOLEAN, GoBack(made) PROVE NavigationInv' /\ Onward
  <2>1. access' = access
    BY <1>2 DEF GoBack
  <2> QED
    BY <1>2, <2>1, GoBackKeeps, SameIsOnward
<1>3. ASSUME NEW made \in BOOLEAN, GoForward(made) PROVE NavigationInv' /\ Onward
  <2>1. access' = access
    BY <1>3 DEF GoForward
  <2> QED
    BY <1>3, <2>1, GoForwardKeeps, SameIsOnward
<1>4. ASSUME NEW made \in BOOLEAN, ApplyPosted(made) PROVE NavigationInv' /\ Onward
  BY <1>4, ApplyPostedKeeps
<1>5. ASSUME NEW modules \in {CompiledModules, CompiledModules \ {"orders"}},
             NEW rights \in SUBSET Grantable,
             NEW session \in 1..MaxSession, NEW revision \in 0..MaxRevision,
             PublishAccess([session |-> session, revision |-> revision,
                            modules |-> modules, rights |-> rights])
      PROVE  NavigationInv' /\ Onward
  <2>1. [session |-> session, revision |-> revision, modules |-> modules, rights |-> rights]
          \in AccessRows
    BY DEF AccessRows
  <2> QED
    BY <1>5, <2>1, PublishAccessKeeps
<1>6. ASSUME ShutdownNavigation PROVE NavigationInv' /\ Onward
  BY <1>6, ClosedShell DEF ShutdownNavigation
<1>7. CASE UNCHANGED navigationVars
  <2>1. NavigationInv'
    BY <1>7 DEF navigationVars, history, NavigationInv, HistoryKept, Visible, Allows
  <2> QED
    BY <1>7, <2>1, SameIsOnward DEF navigationVars
<1> QED
  BY <1>1, <1>2, <1>3, <1>4, <1>5, <1>6, <1>7 DEF NavigationNext

LEMMA ShownAsAllowed == ASSUME NavigationInv PROVE ShownIsAllowed
<1>1. Visible(access) = {s \in Routes : s.owner \in access.modules
                                          /\ s.right \in access.rights \cup {Nil}}
  BY DEF Visible, Allows
<1>2. ASSUME NEW past, HistoryKept(past, rows)
      PROVE  ToSet(past) \subseteq rows /\ Len(past) <= MaxHistory
  BY <1>2, LenProperties, ElementOfSeq DEF ToSet, HistoryKept
<1>3. /\ ToSet(back) \cup ToSet(forward) \subseteq rows
      /\ Len(back) <= MaxHistory /\ Len(forward) <= MaxHistory
  BY <1>2 DEF NavigationInv
<1>4. access = Nil => rows = {} /\ current = Nil
  BY DEF NavigationInv
<1>5. access # Nil => rows = Visible(access)
  BY DEF NavigationInv
<1> QED
  BY <1>1, <1>3, <1>4, <1>5 DEF ShownIsAllowed, NavigationInv

(* What is said of the modules that pages are asked under, of a step.      *)
Asked ==
  \/ access' = Nil
  \/ activation' = access'.modules
  \/ access' = access /\ activation' = activation
  \/ Stale(Head(posted)) /\ UNCHANGED <<access, rows, current, bridge, history, over>>

LEMMA ApplyPostedFollows ==
  ASSUME NavigationInv', PagesFollow, NEW made \in BOOLEAN, ApplyPosted(made)
  PROVE  PagesFollow' /\ Asked
<1> DEFINE a == Head(posted)
<1>1. /\ activation' = a.modules
      /\ over' = IF ~Stale(a) /\ (a # access /\ current' = Nil => rows' = {})
                  THEN bridge' ELSE over
      /\ \/ (Stale(a) \/ a = access) /\ UNCHANGED <<access, rows, current, bridge, history>>
         \/ ~Stale(a) /\ a # access /\ access' = a
  BY DEF ApplyPosted, Finish, ApplyAccess, TakeAccess
<1> HIDE DEF a
<1>2. CASE Stale(a)
  <2>1. UNCHANGED <<access, rows, current, bridge, history, over>>
    BY <1>1, <1>2
  <2>2. PagesFollow'
    BY <2>1 DEF PagesFollow
  <2> QED
    BY <1>2, <2>1, <2>2 DEF Asked, a
<1>3. CASE ~Stale(a)
  <2>1. access' = a
    BY <1>1, <1>3
  <2>2. Asked
    BY <1>1, <2>1 DEF Asked
  <2>3. over' = bridge' \/ (current' = Nil /\ rows' # {})
    BY <1>1, <1>3
  <2>4. current' = Nil => bridge' = Nil
    BY DEF NavigationInv
  <2> QED
    BY <2>2, <2>3, <2>4 DEF PagesFollow
<1> QED
  BY <1>2, <1>3

LEMMA PagesFollowOn ==
  ASSUME NavigationInv', PagesFollow, [NavigationNext]_navigationVars
  PROVE  PagesFollow' /\ Asked
<1>1. ASSUME UNCHANGED <<access, activation>>,
             \/ over' = bridge'
             \/ UNCHANGED <<rows, bridge, over>>
      PROVE  PagesFollow' /\ Asked
  BY <1>1 DEF PagesFollow, Asked
<1>2. ASSUME NEW made \in BOOLEAN, NEW s \in Routes, SelectRoute(s, made)
      PROVE  PagesFollow' /\ Asked
  BY <1>1, <1>2 DEF SelectRoute, Finish
<1>3. ASSUME NEW made \in BOOLEAN, GoBack(made) PROVE PagesFollow' /\ Asked
  BY <1>1, <1>3 DEF GoBack, Finish
<1>4. ASSUME NEW made \in BOOLEAN, GoForward(made) PROVE PagesFollow' /\ Asked
  BY <1>1, <1>4 DEF GoForward, Finish
<1>5. ASSUME NEW made \in BOOLEAN, ApplyPosted(made) PROVE PagesFollow' /\ Asked
  BY <1>5, ApplyPostedFollows
<1>6. ASSUME NEW a, PublishAccess(a) PROVE PagesFollow' /\ Asked
  BY <1>1, <1>6 DEF PublishAccess
<1>7. ASSUME ShutdownNavigation PROVE PagesFollow' /\ Asked
  BY <1>7 DEF ShutdownNavigation, PagesFollow, Asked
<1>8. CASE UNCHANGED navigationVars
  BY <1>1, <1>8 DEF navigationVars
<1> QED
  BY <1>2, <1>3, <1>4, <1>5, <1>6, <1>7, <1>8 DEF NavigationNext

(* Session after session, and however snapshots are posted, delayed and    *)
(* refused, the shell shows what the snapshot in force allows, keeps one   *)
(* bridge made for the current route under it, and takes nothing of a      *)
(* session into the next; its pages follow it unless the first route could *)
(* not be made, and are asked under its modules unless a snapshot was      *)
(* refused since (navigation_controller.cpp, apply_access, and             *)
(* navigation_bridge_qt.cpp, applyAccessOnGui and finish).                 *)
THEOREM Shell == NavigationInit /\ [][NavigationNext]_navigationVars => ShellSound
<1>1. NavigationInit => NavigationInv /\ PagesFollow
  BY InitNavigation DEF NavigationInit, PagesFollow
<1>2. ASSUME NavigationInv /\ PagesFollow, [NavigationNext]_navigationVars
      PROVE  (NavigationInv /\ PagesFollow)' /\ [Onward]_navigationVars /\ [Asked]_navigationVars
  BY <1>2, NextNavigation, PagesFollowOn
<1>3. NavigationInv => ShownIsAllowed
  BY ShownAsAllowed
<1>4. NavigationInit /\ [][NavigationNext]_navigationVars
        => [](ShownIsAllowed /\ PagesFollow) /\ [][Onward]_navigationVars
           /\ [][Asked]_navigationVars
  BY <1>1, <1>2, <1>3, PTL
<1> QED
  BY <1>4 DEF ShellSound, SessionsDoNotMix, Onward, AskedUnderTheLast, Asked
=============================================================================
