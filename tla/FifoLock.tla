------------------------------ MODULE FifoLock ------------------------------
(***************************************************************************)
(* What the writer gate promises: a lock granted in the order of arrival.  *)
(* Nobody overtakes a thread that keeps waiting; a thread may leave the    *)
(* line before it is served; the lock is free between two holders.         *)
(***************************************************************************)
EXTENDS Naturals

CONSTANTS Threads, None

VARIABLES arrivals, \* how many threads have ever joined the line
          place,    \* the arrival number of each thread, 0 when not in line
          holder    \* the thread that holds the lock, or None

vars == <<arrivals, place, holder>>

Waiting == {t \in Threads : place[t] # 0 /\ holder # t}

Init ==
  /\ arrivals = 0
  /\ place = [t \in Threads |-> 0]
  /\ holder = None

Join(t) ==
  /\ place[t] = 0
  /\ arrivals' = arrivals + 1
  /\ place' = [place EXCEPT ![t] = arrivals + 1]
  /\ UNCHANGED holder

Grant(t) ==
  /\ holder = None
  /\ t \in Waiting
  /\ \A u \in Waiting : place[t] <= place[u]
  /\ holder' = t
  /\ UNCHANGED <<arrivals, place>>

(* A thread that finds nobody in line is served as it joins.               *)
JoinAndHold(t) ==
  /\ holder = None
  /\ Waiting = {}
  /\ place[t] = 0
  /\ arrivals' = arrivals + 1
  /\ place' = [place EXCEPT ![t] = arrivals + 1]
  /\ holder' = t

Leave(t) ==
  /\ t \in Waiting
  /\ place' = [place EXCEPT ![t] = 0]
  /\ UNCHANGED <<arrivals, holder>>

Release(t) ==
  /\ holder = t
  /\ holder' = None
  /\ place' = [place EXCEPT ![t] = 0]
  /\ UNCHANGED arrivals

Next == \E t \in Threads :
  Join(t) \/ Grant(t) \/ JoinAndHold(t) \/ Leave(t) \/ Release(t)

Spec == Init /\ [][Next]_vars
=============================================================================
