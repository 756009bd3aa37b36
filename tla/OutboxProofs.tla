---------------------------- MODULE OutboxProofs ----------------------------
(***************************************************************************)
(* Theorems about the outbox, for any set of changes and records, any      *)
(* give-up limit, any batch sizes and any number of crashes, refusals and  *)
(* resends.  The argument rests on one inductive invariant, IInv: the      *)
(* attempt counter is a faithful record of what was handed out, positions  *)
(* sort the table in the order made, and behind a change that was handed   *)
(* out only applied rows of its record are left.                           *)
(***************************************************************************)
EXTENDS Outbox, TLAPS

(* Every key is made once, and rows and messages are of made changes.      *)
History ==
  /\ \A a, b \in DOMAIN made : made[a] = made[b] => a = b
  /\ Rows \subseteq Made
  /\ sent \subseteq Made

(* What the state of a row says about the network.                         *)
Evidence ==
  \A k \in Rows :
    /\ outbox[k].state \in {"InFlight", "Acknowledged", "Applied", "Conflicted"}
         => k \in sent
    /\ outbox[k].state = "Applied" => k \in landed

(* Ahead of a change that was handed out, only applied rows remain.        *)
OnlyAppliedAhead ==
  \A k \in sent : \A j \in Rows : Before(j, k) => outbox[j].state = "Applied"

IInv ==
  /\ TypeOK
  /\ History
  /\ Evidence
  /\ AttemptsTellWhatWasSent
  /\ PositionsFollowTheOrderMade
  /\ OnlyAppliedAhead
  /\ NoChangeLost

(* Everything but Enqueue leaves the history alone, adds no row, moves no  *)
(* row, and never takes a row out of Applied except by removing it.        *)
NoNewRows ==
  /\ made' = made
  /\ \A k \in Rows' :
       /\ k \in Rows
       /\ outbox'[k].position = outbox[k].position
       /\ outbox[k].state = "Applied" => outbox'[k].state = "Applied"

-----------------------------------------------------------------------------
(* What writing a state back does to the table.                            *)
LEMMA StoreStateEffect ==
  ASSUME outbox \in [Keys -> Entry], NEW k \in Rows, NEW s \in LiveStates,
         StoreState(k, s)
  PROVE  /\ outbox' \in [Keys -> Entry]
         /\ Rows' = Rows
         /\ \A j \in Keys : /\ outbox'[j].position = outbox[j].position
                            /\ outbox'[j].attempts = outbox[j].attempts
                            /\ outbox'[j].state = IF j = k THEN s ELSE outbox[j].state
<1>1. k \in Keys /\ outbox[k] \in Entry
  BY DEF Rows
<1>2. outbox' = [outbox EXCEPT ![k] = [outbox[k] EXCEPT !.state = s]]
  BY DEF StoreState
<1>3. [outbox[k] EXCEPT !.state = s] \in Entry
  BY <1>1 DEF Entry
<1>4. outbox' \in [Keys -> Entry]
  BY <1>1, <1>2, <1>3
<1>5. \A j \in Keys : outbox'[j] = IF j = k THEN [outbox[k] EXCEPT !.state = s] ELSE outbox[j]
  BY <1>1, <1>2
<1>6. \A j \in Keys : /\ outbox'[j].position = outbox[j].position
                     /\ outbox'[j].attempts = outbox[j].attempts
                     /\ outbox'[j].state = IF j = k THEN s ELSE outbox[j].state
  BY <1>1, <1>5 DEF Entry
<1>7. Rows' = Rows
  BY <1>1, <1>6 DEF Rows, LiveStates
<1> QED
  BY <1>4, <1>6, <1>7

(* The rows are the same ones, at their positions.                         *)
LEMMA SameRowsTyped ==
  ASSUME TypeOK, outbox' = [k \in Keys |-> outbox'[k]],
         \A k \in Keys : /\ outbox'[k] \in Entry
                         /\ outbox'[k].position = outbox[k].position
                         /\ outbox'[k].state = "Absent" <=> outbox[k].state = "Absent",
         waiting' \subseteq waiting,
         UNCHANGED <<kept, made, discarded>>,
         sent' \subseteq Keys, refused' \subseteq sent', landed' \subseteq sent',
         trouble' \in 0..MaxTrouble
  PROVE  TypeOK'
<1>1. outbox' \in [Keys -> Entry]
  OBVIOUS
<1>2. Rows' = Rows
  BY DEF Rows
<1>3. \A k \in Rows' : outbox'[k].position > 0
  BY <1>2 DEF TypeOK, Rows
<1> QED
  BY <1>1, <1>2, <1>3 DEF TypeOK

LEMMA ClaimTyped ==
  ASSUME TypeOK, NEW b \in Batches, Claim(b)
  PROVE  TypeOK'
<1>1. Claimed(b) \subseteq Keys /\ \A k \in Claimed(b) : outbox[k].state = "Pending"
  BY DEF Claimed, Eligible, Rows
<1>2. /\ outbox' = [k \in Keys |-> outbox'[k]]
      /\ \A k \in Keys \ Claimed(b) : outbox'[k] = outbox[k]
      /\ \A k \in Claimed(b) :
           outbox'[k] = [outbox[k] EXCEPT !.state = "InFlight",
                                          !.attempts = OneMoreAttempt(outbox[k].attempts)]
      /\ sent' = sent \cup Claimed(b) /\ refused' = refused \ Claimed(b)
      /\ UNCHANGED <<waiting, kept, made, landed, discarded, trouble>>
  BY <1>1 DEF Claim
<1>3. \A k \in Keys : outbox[k] \in Entry
  BY DEF TypeOK
<1>4. \A n \in 0..GiveUp : OneMoreAttempt(n) \in 0..GiveUp
  BY OutboxAssumption DEF OneMoreAttempt
<1>5. ASSUME NEW k \in Claimed(b)
      PROVE  /\ outbox'[k] \in Entry /\ outbox'[k].position = outbox[k].position
             /\ outbox'[k].state = "InFlight" /\ outbox[k].state = "Pending"
  <2>1. outbox[k] \in Entry /\ OneMoreAttempt(outbox[k].attempts) \in 0..GiveUp
    BY <1>1, <1>3, <1>4 DEF Entry
  <2> QED
    BY <1>1, <1>2, <2>1 DEF Entry, LiveStates
<1>6. \A k \in Keys : /\ outbox'[k] \in Entry
                      /\ outbox'[k].position = outbox[k].position
                      /\ outbox'[k].state = "Absent" <=> outbox[k].state = "Absent"
  BY <1>2, <1>3, <1>5
<1>7. /\ waiting' \subseteq waiting /\ UNCHANGED <<kept, made, discarded>>
      /\ sent' \subseteq Keys /\ refused' \subseteq sent' /\ landed' \subseteq sent'
      /\ trouble' \in 0..MaxTrouble
  BY <1>1, <1>2 DEF TypeOK
<1> QED
  BY <1>2, <1>6, <1>7, SameRowsTyped

LEMMA RestartTyped ==
  ASSUME TypeOK, Restart
  PROVE  TypeOK'
<1>1. /\ outbox' = [k \in Keys |-> outbox'[k]]
      /\ \A k \in Keys : \/ outbox'[k] = outbox[k]
                        \/ /\ outbox[k].state = "InFlight"
                           /\ outbox'[k] = [outbox[k] EXCEPT !.state = "Pending"]
      /\ waiting' \subseteq waiting
      /\ UNCHANGED <<kept, made, sent, refused, landed, discarded>>
  BY DEF Restart, server
<1>2. \A k \in Keys : outbox[k] \in Entry
  BY DEF TypeOK
<1>3. \A k \in Keys : /\ outbox'[k] \in Entry
                      /\ outbox'[k].position = outbox[k].position
                      /\ outbox'[k].state = "Absent" <=> outbox[k].state = "Absent"
  BY <1>1, <1>2 DEF Entry, LiveStates
<1>4. trouble' \in 0..MaxTrouble
  BY OutboxAssumption DEF Restart, Trouble, TypeOK
<1>5. sent' \subseteq Keys /\ refused' \subseteq sent' /\ landed' \subseteq sent'
  BY <1>1 DEF TypeOK
<1> QED
  BY <1>1, <1>3, <1>4, <1>5, SameRowsTyped

-----------------------------------------------------------------------------
(* Type correctness: the table holds well-formed rows whatever the order   *)
(* of the calls (TypeOK).                                                  *)
THEOREM TypeCorrect == Spec => []TypeOK
<1>1. Init => TypeOK
  BY OutboxAssumption DEF Init, TypeOK, Entry, NoRow, LiveStates, Rows
<1>2. TypeOK /\ [Next]_vars => TypeOK'
  <2> SUFFICES ASSUME TypeOK, [Next]_vars
               PROVE  TypeOK'
    OBVIOUS
  <2> USE OutboxAssumption DEF TypeOK, Entry, LiveStates, Rows
  <2>1. CASE UNCHANGED vars
    BY <2>1 DEF vars
  <2>2. ASSUME NEW b \in Batches, Claim(b)
        PROVE  TypeOK'
    BY <2>2, ClaimTyped
  <2>3. CASE Restart
    BY <2>3, RestartTyped
  <2>4. ASSUME NEW old \in SUBSET Keys, PruneApplied(old)
        PROVE  TypeOK'
    BY <2>4 DEF PruneApplied, NoRow, server
  <2>5. ASSUME NEW k \in Keys, Enqueue(k)
        PROVE  TypeOK'
    <3>1. NextPositions \subseteq Nat \ {0}
      BY DEF NextPositions
    <3>2. PICK next \in NextPositions :
            outbox' = [outbox EXCEPT ![k] =
              [state |-> "Pending", position |-> next, attempts |-> 0]]
      BY <2>5 DEF Enqueue
    <3>3. [state |-> "Pending", position |-> next, attempts |-> 0] \in Entry
      BY <3>1
    <3>4. outbox' \in [Keys -> Entry]
      BY <3>2, <3>3
    <3>5. \A j \in Rows' : outbox'[j].position > 0
      BY <3>1, <3>2
    <3>6. waiting' \subseteq Rows'
      BY <2>5, <3>2 DEF Enqueue
    <3> QED
      BY <2>5, <3>4, <3>5, <3>6 DEF Enqueue, server
  <2>6. ASSUME NEW k \in Keys, Expire(k) \/ Acknowledge(k) \/ MarkApplied(k)
        PROVE  TypeOK'
    <3>1. CASE Expire(k)
      BY <3>1 DEF Expire, server
    <3>2. CASE Acknowledge(k)
      BY <3>2, StoreStateEffect DEF Acknowledge, server
    <3>3. CASE MarkApplied(k)
      BY <3>3, StoreStateEffect DEF MarkApplied, server
    <3> QED
      BY <2>6, <3>1, <3>2, <3>3
  <2>7. ASSUME NEW k \in Keys, RetryLater(k) \/ MarkConflicted(k) \/ MarkFailed(k)
        PROVE  TypeOK'
    <3>1. CASE RetryLater(k)
      BY <3>1, StoreStateEffect DEF RetryLater, server
    <3>2. CASE MarkFailed(k)
      BY <3>2, StoreStateEffect DEF MarkFailed, server
    <3>3. CASE MarkConflicted(k)
      BY <3>3, StoreStateEffect DEF MarkConflicted, AwaitPerson, server
    <3> QED
      BY <2>7, <3>1, <3>2, <3>3
  <2>8. ASSUME NEW k \in Keys, Resend(k) \/ Discard(k)
        PROVE  TypeOK'
    <3>1. CASE Resend(k)
      BY <3>1, StoreStateEffect DEF Resend, SendAgain, Trouble, server
    <3>2. CASE Discard(k)
      BY <3>2 DEF Discard, Remove, NoRow, server
    <3> QED
      BY <2>8, <3>1, <3>2
  <2>9. ASSUME NEW k \in Keys, NEW facts \in Facts, Resolve(k, facts)
        PROVE  TypeOK'
    <3>1. CASE Retain(k) /\ Remove(k)
      BY <2>9, <3>1 DEF Resolve, Remove, Retain, NoRow, server
    <3>2. CASE SendAgain(k) /\ UNCHANGED kept
      BY <2>9, <3>2, StoreStateEffect DEF Resolve, SendAgain, server
    <3>3. CASE Retain(k) /\ AwaitPerson(k)
      BY <2>9, <3>3, StoreStateEffect DEF Resolve, Retain, AwaitPerson, server
    <3> QED
      BY <2>9, <3>1, <3>2, <3>3 DEF Resolve
  <2>10. ASSUME NEW k \in Keys, MarkSeen(k) \/ ServerApply(k) \/ ServerRefuse(k)
         PROVE  TypeOK'
    <3>1. CASE MarkSeen(k)
      BY <3>1 DEF MarkSeen, server
    <3>2. CASE ServerApply(k)
      BY <3>2 DEF ServerApply
    <3>3. CASE ServerRefuse(k)
      BY <3>3 DEF ServerRefuse, Trouble
    <3> QED
      BY <2>10, <3>1, <3>2, <3>3
  <2> QED
    BY <2>1, <2>2, <2>3, <2>4, <2>5, <2>6, <2>7, <2>8, <2>9, <2>10 DEF Next
<1> QED
  BY <1>1, <1>2, PTL DEF Spec

-----------------------------------------------------------------------------
(* Quiet is what every step but Enqueue establishes.                       *)
Quiet ==
  /\ NoNewRows
  /\ Evidence'
  /\ AttemptsTellWhatWasSent'
  /\ NoChangeLost'
  /\ \A k \in sent' : k \in sent \/ (k \in Rows /\ ~Blocked(k))

(* No record of where a change went is withdrawn.                          *)
RecordsKept ==
  /\ landed \subseteq landed'
  /\ discarded \subseteq discarded'
  /\ \A k \in Keys : kept[k] # "no" => kept'[k] # "no"

(* A step that leaves the table alone is quiet.                            *)
LEMMA SameTableQuiet ==
  ASSUME IInv, outbox' = outbox, made' = made, sent' = sent, RecordsKept
  PROVE  Quiet
<1>1. Rows' = Rows /\ Made' = Made
  BY DEF Rows, Made
<1>2. NoNewRows
  BY <1>1 DEF NoNewRows
<1>3. Evidence' /\ AttemptsTellWhatWasSent'
  BY <1>1 DEF IInv, Evidence, AttemptsTellWhatWasSent, RecordsKept
<1>4. Made \subseteq Keys
  BY DEF IInv, TypeOK, Made
<1>5. NoChangeLost'
  BY <1>1, <1>4 DEF IInv, NoChangeLost, RecordsKept
<1> QED
  BY <1>2, <1>3, <1>5 DEF Quiet

(* So is one that moves a row to a state its history entitles it to.       *)
LEMMA StoreStateQuiet ==
  ASSUME IInv, NEW k \in Rows, NEW s \in LiveStates, StoreState(k, s),
         outbox[k].state = "Applied" => s = "Applied",
         s \in {"InFlight", "Acknowledged", "Applied", "Conflicted"} => k \in sent,
         s = "Applied" => k \in landed,
         made' = made, sent' = sent, RecordsKept
  PROVE  Quiet
<1> USE DEF IInv
<1>1. /\ Rows' = Rows
      /\ \A j \in Keys : /\ outbox'[j].position = outbox[j].position
                         /\ outbox'[j].attempts = outbox[j].attempts
                         /\ outbox'[j].state = IF j = k THEN s ELSE outbox[j].state
  BY StoreStateEffect DEF TypeOK
<1>2. Rows \subseteq Keys /\ Made \subseteq Keys /\ Made' = Made
  BY DEF Rows, TypeOK, Made
<1>3. NoNewRows
  BY <1>1, <1>2 DEF NoNewRows
<1>4. Evidence'
  BY <1>1, <1>2 DEF Evidence, RecordsKept
<1>5. AttemptsTellWhatWasSent'
  BY <1>1, <1>2 DEF AttemptsTellWhatWasSent
<1>6. NoChangeLost'
  BY <1>1, <1>2 DEF NoChangeLost, RecordsKept
<1> QED
  BY <1>3, <1>4, <1>5, <1>6 DEF Quiet

(* And one that removes rows whose changes are accounted for elsewhere.    *)
LEMMA RemoveQuiet ==
  ASSUME IInv, NEW gone \in SUBSET Rows,
         outbox' = [j \in Keys |-> IF j \in gone THEN NoRow ELSE outbox[j]],
         \A j \in gone : j \in landed' \/ kept'[j] # "no" \/ j \in discarded',
         made' = made, sent' = sent, RecordsKept
  PROVE  Quiet
<1> USE DEF IInv
<1>1. Rows' = Rows \ gone
  BY DEF Rows, NoRow
<1>2. Rows \subseteq Keys /\ Made \subseteq Keys /\ Made' = Made
  BY DEF Rows, TypeOK, Made
<1>3. \A j \in Rows' : outbox'[j] = outbox[j]
  BY <1>1, <1>2
<1>4. NoNewRows
  BY <1>1, <1>3 DEF NoNewRows
<1>5. Evidence' /\ AttemptsTellWhatWasSent'
  BY <1>1, <1>3 DEF Evidence, AttemptsTellWhatWasSent, RecordsKept
<1>6. NoChangeLost'
  BY <1>1, <1>2, <1>3 DEF NoChangeLost, RecordsKept
<1> QED
  BY <1>4, <1>5, <1>6 DEF Quiet

(* Every step but Enqueue is quiet.                                        *)
LEMMA StepsAreQuiet ==
  ASSUME IInv, [Next]_vars, \A k \in Keys : ~Enqueue(k)
  PROVE  Quiet
<1> USE OutboxAssumption
<1>0. Rows \subseteq Keys /\ Made \subseteq Keys
  BY DEF IInv, TypeOK, Rows, Made
<1>1. CASE UNCHANGED vars
  BY <1>1, SameTableQuiet DEF vars, RecordsKept
<1>2. ASSUME NEW b \in Batches, Claim(b)
      PROVE  Quiet
  <2>1. Claimed(b) \subseteq Eligible /\ Eligible \subseteq Rows
    BY DEF Claimed, Eligible
  <2>2. \A k \in Keys : outbox'[k] = IF k \in Claimed(b)
          THEN [outbox[k] EXCEPT !.state = "InFlight",
                                 !.attempts = OneMoreAttempt(outbox[k].attempts)]
          ELSE outbox[k]
    BY <1>2 DEF Claim
  <2>3. \A k \in Keys :
          /\ outbox'[k].position = outbox[k].position
          /\ outbox'[k].state = IF k \in Claimed(b) THEN "InFlight" ELSE outbox[k].state
          /\ outbox'[k].attempts = IF k \in Claimed(b)
                                   THEN OneMoreAttempt(outbox[k].attempts)
                                   ELSE outbox[k].attempts
    BY <2>2 DEF IInv, TypeOK, Entry
  <2>4. Rows' = Rows
    BY <1>0, <2>1, <2>3 DEF Rows
  <2>5. NoNewRows
    BY <1>0, <1>2, <2>1, <2>3, <2>4 DEF NoNewRows, Claim, Eligible
  <2>6. /\ sent' = sent \cup Claimed(b)
        /\ landed' = landed
    BY <1>2 DEF Claim
  <2>7. Evidence'
    BY <1>0, <2>3, <2>4, <2>6 DEF Evidence, IInv
  <2>8. AttemptsTellWhatWasSent'
    <3>1. \A k \in Rows : outbox[k].attempts \in 0..GiveUp
      BY <1>0 DEF IInv, TypeOK, Entry
    <3>2. \A n \in 0..GiveUp : OneMoreAttempt(n) > 0
      BY DEF OneMoreAttempt
    <3> QED
      BY <1>0, <2>1, <2>3, <2>4, <2>6, <3>1, <3>2 DEF AttemptsTellWhatWasSent, IInv
  <2>9. NoChangeLost'
    <3>1. Made' = Made /\ kept' = kept /\ landed' = landed /\ discarded' = discarded
      BY <1>2 DEF Claim, Made
    <3> QED
      BY <1>0, <2>3, <2>4, <3>1 DEF NoChangeLost, IInv
  <2>10. \A k \in sent' : k \in sent \/ (k \in Rows /\ ~Blocked(k))
    BY <1>2, <2>1 DEF Claim, Eligible
  <2> QED
    BY <2>5, <2>7, <2>8, <2>9, <2>10 DEF Quiet
<1>3. CASE Restart
  <2>1. \A k \in Keys :
          /\ outbox'[k].position = outbox[k].position
          /\ outbox'[k].attempts = outbox[k].attempts
          /\ outbox'[k].state = IF outbox[k].state = "InFlight"
                                THEN "Pending" ELSE outbox[k].state
    BY <1>3 DEF Restart, IInv, TypeOK, Entry
  <2>2. Rows' = Rows
    BY <1>0, <2>1 DEF Rows
  <2>3. /\ made' = made /\ Made' = Made /\ sent' = sent /\ landed' = landed
        /\ kept' = kept /\ discarded' = discarded
    BY <1>3 DEF Restart, server, Made
  <2> QED
    BY <1>0, <2>1, <2>2, <2>3
    DEF IInv, Quiet, NoNewRows, Evidence, AttemptsTellWhatWasSent, NoChangeLost
<1>4. ASSUME NEW old \in SUBSET Keys, PruneApplied(old)
      PROVE  Quiet
  <2>1. \A k \in old : k \in Rows /\ k \in landed
    BY <1>4 DEF PruneApplied, IInv, Evidence, Rows
  <2> QED
    BY <1>4, <2>1, RemoveQuiet DEF PruneApplied, RecordsKept, server
<1>5. ASSUME NEW k \in Keys, Expire(k)
      PROVE  Quiet
  BY <1>5, SameTableQuiet DEF Expire, RecordsKept, server
<1>6. ASSUME NEW k \in Keys, Acknowledge(k)
      PROVE  Quiet
  BY <1>6, StoreStateQuiet
  DEF Acknowledge, RecordsKept, server, Rows, LiveStates, IInv, Evidence
<1>7. ASSUME NEW k \in Keys, MarkApplied(k)
      PROVE  Quiet
  BY <1>7, StoreStateQuiet
  DEF MarkApplied, RecordsKept, server, Rows, LiveStates, IInv, Evidence
<1>8. ASSUME NEW k \in Keys, RetryLater(k)
      PROVE  Quiet
  BY <1>8, StoreStateQuiet DEF RetryLater, RecordsKept, server, Rows, LiveStates
<1>9. ASSUME NEW k \in Keys, MarkConflicted(k) \/ MarkFailed(k)
      PROVE  Quiet
  <2>1. CASE MarkConflicted(k)
    BY <2>1, StoreStateQuiet
    DEF MarkConflicted, AwaitPerson, RecordsKept, server, Rows, LiveStates, IInv, Evidence
  <2>2. CASE MarkFailed(k)
    BY <2>2, StoreStateQuiet DEF MarkFailed, RecordsKept, server, Rows, LiveStates
  <2> QED
    BY <1>9, <2>1, <2>2
<1>10. ASSUME NEW k \in Keys, Resend(k)
       PROVE  Quiet
  BY <1>10, StoreStateQuiet DEF Resend, SendAgain, RecordsKept, server, LiveStates
<1>11. ASSUME NEW k \in Keys, Discard(k)
       PROVE  Quiet
  <2>1. outbox' = [j \in Keys |-> IF j \in {k} THEN NoRow ELSE outbox[j]]
    BY <1>11 DEF Discard, Remove, IInv, TypeOK
  <2> QED
    BY <1>11, <2>1, RemoveQuiet DEF Discard, Remove, RecordsKept, server
<1>12. ASSUME NEW k \in Keys, NEW facts \in Facts, Resolve(k, facts)
       PROVE  Quiet
  <2>1. CASE Retain(k) /\ Remove(k)
    <3>1. outbox' = [j \in Keys |-> IF j \in {k} THEN NoRow ELSE outbox[j]]
      BY <2>1 DEF Remove, IInv, TypeOK
    <3>2. kept'[k] # "no" /\ \A j \in Keys : kept[j] # "no" => kept'[j] # "no"
      BY <2>1 DEF Retain, IInv, TypeOK
    <3>3. k \in Rows /\ made' = made /\ sent' = sent /\ RecordsKept
      BY <1>12, <2>1, <3>2 DEF Resolve, Remove, RecordsKept, server
    <3>4. \A j \in {k} : j \in landed' \/ kept'[j] # "no" \/ j \in discarded'
      BY <3>2
    <3> DEFINE gone == {k}
    <3>5. /\ gone \in SUBSET Rows
          /\ outbox' = [j \in Keys |-> IF j \in gone THEN NoRow ELSE outbox[j]]
          /\ \A j \in gone : j \in landed' \/ kept'[j] # "no" \/ j \in discarded'
      BY <3>1, <3>3, <3>4
    <3> HIDE DEF gone
    <3> QED
      BY <3>3, <3>5, RemoveQuiet
  <2>2. CASE SendAgain(k) /\ UNCHANGED kept
    BY <1>12, <2>2, StoreStateQuiet
    DEF Resolve, SendAgain, RecordsKept, server, LiveStates
  <2>3. CASE Retain(k) /\ AwaitPerson(k)
    <3>1. \A j \in Keys : kept[j] # "no" => kept'[j] # "no"
      BY <2>3 DEF Retain, IInv, TypeOK
    <3>2. k \in Rows /\ k \in sent
      BY <2>3 DEF AwaitPerson, Rows, IInv, Evidence
    <3> QED
      BY <1>12, <2>3, <3>1, <3>2, StoreStateQuiet
      DEF Resolve, AwaitPerson, RecordsKept, server, LiveStates
  <2> QED
    BY <1>12, <2>1, <2>2, <2>3 DEF Resolve
<1>13. ASSUME NEW k \in Keys, MarkSeen(k)
       PROVE  Quiet
  <2>1. \A j \in Keys : kept[j] # "no" => kept'[j] # "no"
    BY <1>13 DEF MarkSeen, IInv, TypeOK
  <2> QED
    BY <1>13, <2>1, SameTableQuiet DEF MarkSeen, RecordsKept, server
<1>14. ASSUME NEW k \in Keys, ServerApply(k) \/ ServerRefuse(k)
       PROVE  Quiet
  BY <1>14, SameTableQuiet DEF ServerApply, ServerRefuse, RecordsKept
<1> QED
  BY <1>1, <1>2, <1>3, <1>4, <1>5, <1>6, <1>7, <1>8, <1>9, <1>10, <1>11,
     <1>12, <1>13, <1>14 DEF Next

-----------------------------------------------------------------------------
(* Enqueue puts the new row behind everything in the table.                *)
LEMMA EnqueueAppends ==
  ASSUME IInv, NEW k \in Keys, Enqueue(k)
  PROVE  /\ Rows' = Rows \cup {k}
         /\ k \notin Rows \cup sent
         /\ \A j \in Rows : /\ outbox'[j] = outbox[j]
                            /\ outbox[j].position < outbox'[k].position
         /\ outbox'[k].state = "Pending" /\ outbox'[k].attempts = 0
         /\ made' = Append(made, k)
         /\ Made' = Made \cup {k}
         /\ k \notin Made
<1>1. k \notin Made /\ made' = Append(made, k)
  BY DEF Enqueue
<1>2. k \notin Rows \cup sent /\ Rows \subseteq Keys
  BY <1>1 DEF IInv, History, Rows
<1>3. made \in Seq(Keys)
  BY DEF IInv, TypeOK
<1>4. Made' = Made \cup {k}
  <2>1. DOMAIN made = 1..Len(made) /\ DOMAIN made' = 1..(Len(made) + 1) /\ Len(made) \in Nat
    BY <1>1, <1>3
  <2>2. /\ \A i \in 1..Len(made) : made'[i] = made[i]
        /\ made'[Len(made) + 1] = k
    BY <1>1, <1>3
  <2> QED
    BY <2>1, <2>2 DEF Made
<1>5. PICK next \in NextPositions :
        outbox' = [outbox EXCEPT ![k] =
          [state |-> "Pending", position |-> next, attempts |-> 0]]
  BY DEF Enqueue
<1>6. \A j \in Rows : outbox[j].position \in Nat
  BY <1>2 DEF IInv, TypeOK, Entry
<1>7. \A j \in Rows : outbox[j].position < next
  BY <1>5, <1>6 DEF NextPositions
<1>8. /\ outbox'[k] = [state |-> "Pending", position |-> next, attempts |-> 0]
      /\ \A j \in Keys : j # k => outbox'[j] = outbox[j]
  BY <1>5 DEF IInv, TypeOK
<1>9. Rows' = Rows \cup {k}
  BY <1>8 DEF Rows
<1> QED
  BY <1>1, <1>2, <1>4, <1>7, <1>8, <1>9

(* The order of the history, for two changes that are both in it.          *)
LEMMA BeforeIsStable ==
  ASSUME made \in Seq(Keys), NEW new \in Keys, made' = Append(made, new),
         NEW j, NEW k, k # new
  PROVE  Before(j, k)' => Before(j, k)
<1>1. DOMAIN made = 1..Len(made) /\ DOMAIN made' = 1..(Len(made) + 1) /\ Len(made) \in Nat
  OBVIOUS
<1>2. /\ \A i \in 1..Len(made) : made'[i] = made[i]
      /\ made'[Len(made) + 1] = new
  OBVIOUS
<1> QED
  BY <1>1, <1>2 DEF Before

LEMMA BeforeMeansLower ==
  ASSUME PositionsFollowTheOrderMade, NEW j \in Rows, NEW k \in Rows, Before(j, k)
  PROVE  outbox[j].position < outbox[k].position
BY DEF PositionsFollowTheOrderMade, Before

(* The invariant is inductive.                                             *)
LEMMA Initially == Init => IInv
<1> SUFFICES ASSUME Init PROVE IInv
  OBVIOUS
<1>1. TypeOK
  BY OutboxAssumption DEF Init, TypeOK, Entry, NoRow, LiveStates, Rows
<1>2. Rows = {} /\ Made = {} /\ sent = {} /\ DOMAIN made = {}
  BY DEF Init, Rows, Made, NoRow
<1> QED
  BY <1>1, <1>2 DEF IInv, History, Evidence, AttemptsTellWhatWasSent,
     PositionsFollowTheOrderMade, OnlyAppliedAhead, NoChangeLost

LEMMA QuietKeepsOrder ==
  ASSUME IInv, Quiet
  PROVE  History' /\ PositionsFollowTheOrderMade' /\ OnlyAppliedAhead'
<1>1. made' = made /\ Made' = Made /\ Rows' \subseteq Rows
  BY DEF Quiet, NoNewRows, Made
<1>2. History'
  BY <1>1 DEF IInv, History, Quiet
<1>3. PositionsFollowTheOrderMade'
  BY <1>1 DEF IInv, PositionsFollowTheOrderMade, Quiet, NoNewRows
<1>4. ASSUME NEW k \in sent', NEW j \in Rows', Before(j, k)'
      PROVE  outbox'[j].state = "Applied"
  <2>1. Before(j, k) /\ j \in Rows
    BY <1>1, <1>4 DEF Before
  <2>2. CASE k \in sent
    BY <2>1, <2>2 DEF IInv, OnlyAppliedAhead, Quiet, NoNewRows
  <2>3. CASE k \in Rows /\ ~Blocked(k)
    <3>1. outbox[j].position < outbox[k].position
      BY <2>1, <2>3, BeforeMeansLower DEF IInv
    <3>2. RecordOf[j] = RecordOf[k]
      BY <2>1 DEF Before
    <3>3. outbox[j].state = "Applied"
      BY <2>1, <2>3, <3>1, <3>2 DEF Blocked, BlocksTheRecord
    <3> QED
      BY <3>3 DEF Quiet, NoNewRows
  <2> QED
    BY <2>2, <2>3 DEF Quiet
<1> QED
  BY <1>2, <1>3, <1>4 DEF OnlyAppliedAhead

LEMMA EnqueueKeepsIInv ==
  ASSUME IInv, TypeOK', NEW k \in Keys, Enqueue(k)
  PROVE  IInv'
<1>1. /\ Rows' = Rows \cup {k}
      /\ k \notin Rows \cup sent
      /\ \A j \in Rows : /\ outbox'[j] = outbox[j]
                         /\ outbox[j].position < outbox'[k].position
      /\ outbox'[k].state = "Pending" /\ outbox'[k].attempts = 0
      /\ made' = Append(made, k)
      /\ Made' = Made \cup {k}
      /\ k \notin Made
  BY EnqueueAppends
<1>2. sent' = sent /\ landed' = landed /\ kept' = kept /\ discarded' = discarded
  BY DEF Enqueue, server
<1>3. made \in Seq(Keys)
  BY DEF IInv, TypeOK
<1>4. /\ DOMAIN made = 1..Len(made) /\ DOMAIN made' = 1..(Len(made) + 1)
      /\ Len(made) \in Nat
      /\ \A i \in 1..Len(made) : made'[i] = made[i] /\ made[i] # k
      /\ made'[Len(made) + 1] = k
  BY <1>1, <1>3 DEF Made
<1>5. History'
  <2>1. \A a, b \in DOMAIN made' : made'[a] = made'[b] => a = b
    BY <1>4 DEF IInv, History
  <2> QED
    BY <1>1, <1>2, <2>1 DEF IInv, History
<1>6. Evidence' /\ AttemptsTellWhatWasSent' /\ NoChangeLost'
  BY <1>1, <1>2 DEF IInv, Evidence, AttemptsTellWhatWasSent, NoChangeLost
<1>7. PositionsFollowTheOrderMade'
  <2> SUFFICES ASSUME NEW a \in DOMAIN made', NEW b \in DOMAIN made', a < b,
                      made'[a] \in Rows', made'[b] \in Rows'
               PROVE  outbox'[made'[a]].position < outbox'[made'[b]].position
    BY DEF PositionsFollowTheOrderMade
  <2>1. a \in DOMAIN made /\ made'[a] = made[a] /\ made[a] \in Rows
    BY <1>1, <1>4
  <2>2. CASE b \in DOMAIN made
    <3>1. made'[b] = made[b] /\ made[b] \in Rows
      BY <1>1, <1>4, <2>2
    <3> QED
      BY <1>1, <2>1, <2>2, <3>1 DEF IInv, PositionsFollowTheOrderMade
  <2>3. CASE b = Len(made) + 1
    BY <1>1, <1>4, <2>1, <2>3
  <2> QED
    BY <1>4, <2>2, <2>3
<1>8. OnlyAppliedAhead'
  <2> SUFFICES ASSUME NEW i \in sent', NEW j \in Rows', Before(j, i)'
               PROVE  outbox'[j].state = "Applied"
    BY DEF OnlyAppliedAhead
  <2>1. i \in sent /\ i # k
    BY <1>1, <1>2
  <2>2. Before(j, i)
    BY <1>1, <1>3, <2>1, BeforeIsStable
  <2>3. j \in Rows
    BY <1>1, <1>4, <2>2 DEF Before
  <2> QED
    BY <1>1, <2>1, <2>2, <2>3 DEF IInv, OnlyAppliedAhead
<1> QED
  BY <1>5, <1>6, <1>7, <1>8 DEF IInv

THEOREM Inductive == Spec => []IInv
<1>1. Init => IInv
  BY Initially
<1>2. IInv /\ TypeOK' /\ [Next]_vars => IInv'
  <2> SUFFICES ASSUME IInv, TypeOK', [Next]_vars PROVE IInv'
    OBVIOUS
  <2>1. CASE \E k \in Keys : Enqueue(k)
    BY <2>1, EnqueueKeepsIInv
  <2>2. CASE \A k \in Keys : ~Enqueue(k)
    BY <2>2, StepsAreQuiet, QuietKeepsOrder DEF IInv, Quiet
  <2> QED
    BY <2>1, <2>2
<1> QED
  BY <1>1, <1>2, TypeCorrect, PTL DEF Spec

-----------------------------------------------------------------------------
(* "A payment must not overtake the invoice it pays" (NoOvertaking), for   *)
(* every queue: claim's rule that a row blocks the rows behind it of its   *)
(* record is enough, across crashes, retries, resends and removals.        *)
THEOREM NeverOvertaken == Spec => []NoOvertaking
<1>1. IInv => NoOvertaking
  BY DEF IInv, TypeOK, OnlyAppliedAhead, Evidence, NoOvertaking, Rows
<1> QED
  BY <1>1, Inductive, PTL

(* Every change is unfinished here, at the server, in the conflict log or  *)
(* thrown away by a person (NoChangeLost).                                 *)
THEOREM NothingLost == Spec => []NoChangeLost
BY Inductive, PTL DEF IInv

(* The attempt counter is above zero exactly for the rows that were handed *)
(* out (AttemptsTellWhatWasSent), so discard's guard sees what it must.    *)
THEOREM AttemptsAreEvidence == Spec => []AttemptsTellWhatWasSent
BY Inductive, PTL DEF IInv

(* Reusing positions never reorders the table (PositionsFollowTheOrderMade). *)
THEOREM PositionsSort == Spec => []PositionsFollowTheOrderMade
BY Inductive, PTL DEF IInv

(* A record has at most one change with the server at a time               *)
(* (OneOutstandingPerRecord).                                              *)
THEOREM OneOutstanding == Spec => []OneOutstandingPerRecord
<1>1. IInv => OneOutstandingPerRecord
  <2> SUFFICES ASSUME IInv, NEW j \in Rows, NEW k \in Rows,
                      outbox[j].state \in {"InFlight", "Acknowledged"},
                      outbox[k].state \in {"InFlight", "Acknowledged"},
                      RecordOf[j] = RecordOf[k], j # k
               PROVE  FALSE
    BY DEF OneOutstandingPerRecord
  <2>1. j \in sent /\ k \in sent
    BY DEF IInv, Evidence
  <2>2. j \in Made /\ k \in Made
    BY DEF IInv, History
  <2>3. PICK a \in DOMAIN made, b \in DOMAIN made : made[a] = j /\ made[b] = k
    BY <2>2 DEF Made
  <2>4. a \in Nat /\ b \in Nat /\ a # b
    BY <2>3 DEF IInv, TypeOK
  <2>5. Before(j, k) \/ Before(k, j)
    BY <2>3, <2>4 DEF Before
  <2> QED
    BY <2>1, <2>5 DEF IInv, OnlyAppliedAhead
<1> QED
  BY <1>1, Inductive, PTL

-----------------------------------------------------------------------------
(* How a step other than Enqueue and ServerApply changes the set of rows:  *)
(* not at all, by one row, or by rows the server has applied.              *)
LEMMA RowsOnlyLeave ==
  ASSUME IInv, [Next]_vars,
         \A k \in Keys : ~Enqueue(k) /\ ~ServerApply(k)
  PROVE  /\ made' = made /\ landed' = landed
         /\ \/ Rows' = Rows
            \/ \E k \in Rows : Rows' = Rows \ {k}
            \/ \E old \in SUBSET landed : Rows' = Rows \ old
<1>0. outbox \in [Keys -> Entry]
  BY DEF IInv, TypeOK
<1>1. CASE UNCHANGED vars
  BY <1>1 DEF vars, Rows
<1>2. ASSUME NEW b \in Batches, Claim(b)
      PROVE  made' = made /\ landed' = landed /\ Rows' = Rows
  <2>1. \A k \in Keys : outbox'[k].state = "Absent" <=> outbox[k].state = "Absent"
    BY <1>0, <1>2 DEF Claim, Claimed, Eligible, Entry
  <2> QED
    BY <1>2, <2>1 DEF Claim, Rows
<1>3. ASSUME Restart
      PROVE  made' = made /\ landed' = landed /\ Rows' = Rows
  <2>1. \A k \in Keys : outbox'[k].state = "Absent" <=> outbox[k].state = "Absent"
    BY <1>0, <1>3 DEF Restart, Entry
  <2> QED
    BY <1>3, <2>1 DEF Restart, Rows, server
<1>4. ASSUME NEW old \in SUBSET Keys, PruneApplied(old)
      PROVE  /\ made' = made /\ landed' = landed
             /\ old \subseteq landed /\ Rows' = Rows \ old
  <2>1. old \subseteq landed
    BY <1>4 DEF PruneApplied, IInv, Evidence, Rows
  <2>2. Rows' = Rows \ old
    BY <1>4 DEF PruneApplied, Rows, NoRow
  <2> QED
    BY <1>4, <2>1, <2>2 DEF PruneApplied, server
<1>5. ASSUME NEW k \in Rows, NEW s \in LiveStates, StoreState(k, s)
      PROVE  Rows' = Rows
  BY <1>0, <1>5, StoreStateEffect
<1>6. ASSUME NEW k \in Keys, Remove(k)
      PROVE  k \in Rows /\ Rows' = Rows \ {k}
  BY <1>0, <1>6 DEF Remove, Rows, NoRow
<1>7. ASSUME NEW k \in Keys, Expire(k) \/ MarkSeen(k) \/ ServerRefuse(k)
      PROVE  made' = made /\ landed' = landed /\ Rows' = Rows
  BY <1>7 DEF Expire, MarkSeen, ServerRefuse, Rows, server
<1>8. ASSUME NEW k \in Keys, Acknowledge(k) \/ MarkApplied(k)
      PROVE  made' = made /\ landed' = landed /\ Rows' = Rows
  <2>1. k \in Rows
    BY <1>8 DEF Acknowledge, MarkApplied, Rows
  <2> QED
    BY <1>5, <1>8, <2>1 DEF Acknowledge, MarkApplied, LiveStates, server
<1>9. ASSUME NEW k \in Keys, RetryLater(k) \/ MarkConflicted(k) \/ MarkFailed(k)
      PROVE  made' = made /\ landed' = landed /\ Rows' = Rows
  <2>1. k \in Rows
    BY <1>9 DEF RetryLater, MarkConflicted, AwaitPerson, MarkFailed, Rows
  <2> QED
    BY <1>5, <1>9, <2>1
    DEF RetryLater, MarkConflicted, AwaitPerson, MarkFailed, LiveStates, server
<1>10. ASSUME NEW k \in Keys, Resend(k)
       PROVE  made' = made /\ landed' = landed /\ Rows' = Rows
  BY <1>5, <1>10 DEF Resend, SendAgain, LiveStates, server
<1>11. ASSUME NEW k \in Keys, Discard(k)
       PROVE  made' = made /\ landed' = landed /\ k \in Rows /\ Rows' = Rows \ {k}
  BY <1>6, <1>11 DEF Discard, server
<1>12. ASSUME NEW k \in Keys, NEW facts \in Facts, Resolve(k, facts)
       PROVE  /\ made' = made /\ landed' = landed
              /\ Rows' = Rows \/ (k \in Rows /\ Rows' = Rows \ {k})
  <2>1. made' = made /\ landed' = landed
    BY <1>12 DEF Resolve, server
  <2>2. CASE Remove(k)
    BY <1>6, <2>1, <2>2
  <2>3. CASE SendAgain(k)
    BY <1>5, <2>1, <2>3 DEF SendAgain, LiveStates
  <2>4. CASE AwaitPerson(k)
    BY <1>5, <2>1, <2>4 DEF AwaitPerson, Rows, LiveStates
  <2> QED
    BY <1>12, <2>2, <2>3, <2>4 DEF Resolve
<1> QED
  BY <1>1, <1>2, <1>3, <1>4, <1>7, <1>8, <1>9, <1>10, <1>11, <1>12 DEF Next

(* The outbox keeps the promise of ChangeDelivery (DeliveredInOrder): each *)
(* step makes one change, delivers one in order, gives one up, or is       *)
(* invisible to the server.                                                *)
THEOREM Refines == Spec => DeliveredInOrder
<1> DEFINE gone == {k \in Made : k \notin Rows \cup landed}
<1>1. Init => Delivery!Init
  BY DEF Init, Delivery!Init, Made
<1>2. IInv /\ [Next]_vars => [Delivery!Next]_(Delivery!vars)
  <2> SUFFICES ASSUME IInv, [Next]_vars
               PROVE  Delivery!Next \/ UNCHANGED <<made, landed, gone>>
    BY DEF Delivery!vars
  <2>0. /\ Delivery!Made = Made
        /\ \A j, k : Delivery!Before(j, k) <=> Before(j, k)
        /\ Made \subseteq Keys
    BY DEF Delivery!Made, Made, Delivery!Before, Before, IInv, TypeOK
  <2>1. ASSUME NEW k \in Keys, Enqueue(k)
        PROVE  Delivery!Make(k)
    <3>1. /\ Rows' = Rows \cup {k} /\ Made' = Made \cup {k}
          /\ made' = Append(made, k) /\ k \notin Made
      BY <2>1, EnqueueAppends
    <3>2. landed' = landed
      BY <2>1 DEF Enqueue, server
    <3>3. gone' = gone
      BY <3>1, <3>2
    <3> QED
      BY <2>0, <3>1, <3>2, <3>3 DEF Delivery!Make
  <2>2. ASSUME NEW k \in Keys, ServerApply(k)
        PROVE  Delivery!Deliver(k)
    <3>1. k \in Made \ landed /\ landed' = landed \cup {k}
      BY <2>2 DEF ServerApply, IInv, History
    <3>2. made' = made /\ Rows' = Rows /\ Made' = Made
      BY <2>2 DEF ServerApply, Rows, Made
    <3>3. gone' = gone \ {k}
      BY <3>1, <3>2
    <3>4. ASSUME NEW j \in Keys, Before(j, k)
          PROVE  j \in landed \cup gone
      <4>1. j \in Made
        BY <3>4 DEF Before, Made
      <4>2. j \in Rows => j \in landed
        BY <2>2, <3>4 DEF ServerApply, IInv, OnlyAppliedAhead, Evidence
      <4> QED
        BY <4>1, <4>2
    <3> QED
      BY <2>0, <3>1, <3>2, <3>3, <3>4 DEF Delivery!Deliver
  <2>3. CASE \A k \in Keys : ~Enqueue(k) /\ ~ServerApply(k)
    <3>1. made' = made /\ landed' = landed /\ Made' = Made
      BY <2>3, RowsOnlyLeave DEF Made
    <3>2. CASE Rows' = Rows
      BY <3>1, <3>2
    <3>3. ASSUME NEW k \in Rows, Rows' = Rows \ {k}
          PROVE  Delivery!Abandon(k) \/ UNCHANGED <<made, landed, gone>>
      <4>1. k \in Made
        BY DEF IInv, History
      <4>2. CASE k \in landed
        <5>1. gone' = gone
          BY <3>1, <3>3, <4>2
        <5> QED
          BY <3>1, <5>1
      <4>3. CASE k \notin landed
        <5>1. gone' = gone \cup {k}
          BY <3>1, <3>3, <4>1, <4>3
        <5> QED
          BY <2>0, <3>1, <4>1, <4>3, <5>1 DEF Delivery!Abandon
      <4> QED
        BY <4>2, <4>3
    <3>4. ASSUME NEW old \in SUBSET landed, Rows' = Rows \ old
          PROVE  UNCHANGED <<made, landed, gone>>
      <4>1. gone' = gone
        BY <3>1, <3>4
      <4> QED
        BY <3>1, <4>1
    <3>5. Rows \subseteq Keys
      BY DEF Rows
    <3> QED
      BY <2>3, <3>2, <3>3, <3>4, <3>5, RowsOnlyLeave DEF Delivery!Next
  <2> QED
    BY <2>1, <2>2, <2>3 DEF Delivery!Next
<1> QED
  BY <1>1, <1>2, Inductive, PTL DEF Spec, DeliveredInOrder, Delivery!Spec
=============================================================================
