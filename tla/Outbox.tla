------------------------------- MODULE Outbox -------------------------------
(***************************************************************************)
(* The outbox of the sync engine (engine/sync/outbox.cpp) with the         *)
(* conflict log it works with (engine/sync/conflict.cpp).                  *)
(*                                                                         *)
(* Every operation runs inside one write transaction, and the writer gate  *)
(* admits one transaction at a time (module WriterGate), so an operation   *)
(* is one step.  The orchestrator that calls claim, acknowledge and the    *)
(* rest, and the server, are not in the repository: a claimed change may   *)
(* reach the server at once, late, many times or never, and an answer may  *)
(* come at any time the operation it triggers accepts it.                  *)
(*                                                                         *)
(* Time is abstracted to one bit per row: `waiting` holds the rows whose   *)
(* due_at is still in the future.  The attempt counter saturates at        *)
(* GiveUp, which is exact: the code only compares it with 0 and GiveUp.    *)
(***************************************************************************)
EXTENDS Naturals, Sequences, FiniteSets

CONSTANTS
  Keys,       \* idempotency keys; each names one change, made at most once
  Records,    \* record ids
  RecordOf,   \* the record a change is about
  GiveUp,     \* kAttemptsBeforeGivingUp
  Batches,    \* the batch sizes the orchestrator asks for
  Troubles,   \* bound: which of "crash", "refusal", "resend" may happen
  MaxTrouble  \* bound: how many of them, together

ASSUME OutboxAssumption ==
  /\ RecordOf \in [Keys -> Records]
  /\ GiveUp \in Nat \ {0}
  /\ Batches \subseteq 1..100
  /\ MaxTrouble \in Nat

VARIABLES
  outbox,     \* the table: one row per key, NoRow where there is none
  waiting,    \* keys whose due_at has not come yet
  kept,       \* the conflict log: is the losing version kept, and seen
  made,       \* history: the changes in the order they were enqueued
  sent,       \* changes handed to the orchestrator, possibly on the wire
  refused,    \* changes whose last attempt the server answered "conflict"
  landed,     \* changes the server has applied
  discarded,  \* history: changes a person threw away
  trouble     \* how many bounded disturbances have happened

vars == <<outbox, waiting, kept, made, sent, refused, landed, discarded, trouble>>
server == <<sent, refused, landed>>

LiveStates ==
  {"Pending", "InFlight", "Acknowledged", "Applied", "Conflicted", "Failed"}

Entry == [state : LiveStates \cup {"Absent"}, position : Nat, attempts : 0..GiveUp]

NoRow == [state |-> "Absent", position |-> 0, attempts |-> 0]

Rows == {k \in Keys : outbox[k].state # "Absent"}

Made == {made[i] : i \in DOMAIN made}

Init ==
  /\ outbox = [k \in Keys |-> NoRow]
  /\ waiting = {}
  /\ kept = [k \in Keys |-> "no"]
  /\ made = <<>>
  /\ sent = {}
  /\ refused = {}
  /\ landed = {}
  /\ discarded = {}
  /\ trouble = 0

-----------------------------------------------------------------------------
(* Helpers of the source.                                                  *)

(* Mutants of a definition stand before it and are named for their fault.  *)

BlocksUnlessFinished(state) == state \notin {"Applied", "Failed"}

BlocksTheRecord(state) == state # "Applied"

(* One past the highest position in the table; 1 when it is empty.         *)
NextPositions ==
  {top + 1 : top \in {p \in {0} \cup {outbox[j].position : j \in Rows} :
                       \A j \in Rows : outbox[j].position <= p}}

StoreState(k, state) == outbox' = [outbox EXCEPT ![k].state = state]

OneMoreAttempt(n) == IF n < GiveUp THEN n + 1 ELSE n

Trouble(kind) ==
  /\ kind \in Troubles
  /\ trouble < MaxTrouble
  /\ trouble' = trouble + 1

-----------------------------------------------------------------------------
(* Making a change: enqueue runs in the transaction that makes it.         *)

Enqueue(k) ==
  /\ k \notin Made
  /\ \E next \in NextPositions :
       outbox' = [outbox EXCEPT ![k] =
         [state |-> "Pending", position |-> next, attempts |-> 0]]
  /\ made' = Append(made, k)
  /\ UNCHANGED <<waiting, kept, server, discarded, trouble>>

-----------------------------------------------------------------------------
(* Sending.                                                                *)

(* A row blocks every row behind it that is about the same record.         *)
Blocked(k) ==
  \E j \in Rows : /\ RecordOf[j] = RecordOf[k]
                  /\ outbox[j].position < outbox[k].position
                  /\ BlocksTheRecord(outbox[j].state)

EligibleUnblocked ==
  {k \in Rows : outbox[k].state = "Pending" /\ k \notin waiting}

Eligible ==
  {k \in Rows : outbox[k].state = "Pending" /\ k \notin waiting /\ ~Blocked(k)}

(* The first `batch` eligible rows in position order.                      *)
Claimed(batch) ==
  {k \in Eligible :
     Cardinality({j \in Eligible : outbox[j].position < outbox[k].position}) < batch}

Claim(batch) ==
  /\ Claimed(batch) # {}
  /\ outbox' = [k \in Keys |->
       IF k \in Claimed(batch)
       THEN [outbox[k] EXCEPT !.state = "InFlight",
                              !.attempts = OneMoreAttempt(outbox[k].attempts)]
       ELSE outbox[k]]
  /\ sent' = sent \cup Claimed(batch)
  /\ refused' = refused \ Claimed(batch)
  /\ UNCHANGED <<waiting, kept, made, landed, discarded, trouble>>

(* The clock reaches due_at.                                               *)
Expire(k) ==
  /\ k \in waiting
  /\ waiting' = waiting \ {k}
  /\ UNCHANGED <<outbox, kept, made, server, discarded, trouble>>

-----------------------------------------------------------------------------
(* Answers and failures.                                                   *)

Acknowledge(k) ==
  /\ outbox[k].state = "InFlight"
  /\ StoreState(k, "Acknowledged")
  /\ UNCHANGED <<waiting, kept, made, server, discarded, trouble>>

(* The server names the sequence it gave the change: it has applied it.    *)
MarkApplied(k) ==
  /\ k \in landed
  /\ outbox[k].state \in {"InFlight", "Acknowledged"}
  /\ StoreState(k, "Applied")
  /\ UNCHANGED <<waiting, kept, made, server, discarded, trouble>>

RetryForEver(k) ==
  /\ outbox[k].state = "InFlight"
  /\ StoreState(k, "Pending")
  /\ waiting' = waiting \cup {k}
  /\ UNCHANGED <<kept, made, server, discarded, trouble>>

RetryLater(k) ==
  /\ outbox[k].state = "InFlight"
  /\ \/ /\ outbox[k].attempts >= GiveUp
        /\ StoreState(k, "Failed")
        /\ UNCHANGED waiting
     \/ /\ outbox[k].attempts < GiveUp
        /\ StoreState(k, "Pending")
        /\ waiting' = waiting \cup {k}
  /\ UNCHANGED <<kept, made, server, discarded, trouble>>

(* The body of mark_conflicted: a person decides what happens next.        *)
AwaitPerson(k) ==
  /\ outbox[k].state \in {"InFlight", "Acknowledged"}
  /\ StoreState(k, "Conflicted")
  /\ UNCHANGED waiting

MarkConflicted(k) ==
  /\ k \in refused
  /\ AwaitPerson(k)
  /\ UNCHANGED <<kept, made, server, discarded, trouble>>

MarkFailed(k) ==
  /\ k \in Rows
  /\ outbox[k].state # "Applied"
  /\ StoreState(k, "Failed")
  /\ UNCHANGED <<waiting, kept, made, server, discarded, trouble>>

(* The body of resend: due at once, whatever state the row was in.         *)
SendAgain(k) ==
  /\ k \in Rows
  /\ outbox[k].state # "Applied"
  /\ StoreState(k, "Pending")
  /\ waiting' = waiting \ {k}

(* A person sends it again.                                                *)
Resend(k) ==
  /\ SendAgain(k)
  /\ Trouble("resend")
  /\ UNCHANGED <<kept, made, server, discarded>>

(* The body of discard: refused only for a pending row never attempted.    *)
Remove(k) ==
  /\ k \in Rows
  /\ ~(outbox[k].state = "Pending" /\ outbox[k].attempts = 0)
  /\ outbox' = [outbox EXCEPT ![k] = NoRow]
  /\ waiting' = waiting \ {k}

(* A person throws it away.                                                *)
Discard(k) ==
  /\ Remove(k)
  /\ discarded' = discarded \cup {k}
  /\ UNCHANGED <<kept, made, server, trouble>>

(* At startup everything in flight goes back to pending, due at once.      *)
Restart ==
  /\ Trouble("crash")
  /\ outbox' = [k \in Keys |-> IF outbox[k].state = "InFlight"
                               THEN [outbox[k] EXCEPT !.state = "Pending"]
                               ELSE outbox[k]]
  /\ waiting' = waiting \ {k \in Keys : outbox[k].state = "InFlight"}
  /\ UNCHANGED <<kept, made, server, discarded>>

(* Which applied rows are old enough is left open.                         *)
PruneApplied(old) ==
  /\ old # {}
  /\ \A k \in old : outbox[k].state = "Applied"
  /\ outbox' = [k \in Keys |-> IF k \in old THEN NoRow ELSE outbox[k]]
  /\ waiting' = waiting \ old
  /\ UNCHANGED <<kept, made, server, discarded, trouble>>

-----------------------------------------------------------------------------
(* The conflict log.                                                       *)

RetainNothing(k) == k \in Keys /\ UNCHANGED kept

Retain(k) == kept' = [kept EXCEPT ![k] = "unseen"]

Facts == [final : BOOLEAN, localOwner : BOOLEAN, remoteOwner : BOOLEAN]

DecideConflict(facts) ==
  CASE facts.final -> "NeedsAPerson"
    [] ~facts.final /\ facts.localOwner /\ ~facts.remoteOwner -> "LocalWins"
    [] OTHER -> "RemoteWins"

(* Called with the server's refusal of the change and what is known of the *)
(* two sides; a step that throws changes nothing.                          *)
Resolve(k, facts) ==
  /\ k \in refused
  /\ \/ /\ DecideConflict(facts) = "RemoteWins"
        /\ Retain(k)
        /\ Remove(k)
     \/ /\ DecideConflict(facts) = "LocalWins"
        /\ SendAgain(k)
        /\ UNCHANGED kept
     \/ /\ DecideConflict(facts) = "NeedsAPerson"
        /\ Retain(k)
        /\ AwaitPerson(k)
  /\ UNCHANGED <<made, server, discarded, trouble>>

MarkSeen(k) ==
  /\ kept[k] = "unseen"
  /\ kept' = [kept EXCEPT ![k] = "seen"]
  /\ UNCHANGED <<outbox, waiting, made, server, discarded, trouble>>

-----------------------------------------------------------------------------
(* The server, external: it applies a change once however many copies      *)
(* arrive, and answers every copy of a refused attempt with the refusal    *)
(* until the change is sent afresh.                                        *)

ServerApply(k) ==
  /\ k \in sent \ (landed \cup refused)
  /\ landed' = landed \cup {k}
  /\ UNCHANGED <<outbox, waiting, kept, made, sent, refused, discarded, trouble>>

ServerRefuse(k) ==
  /\ k \in sent \ (landed \cup refused)
  /\ Trouble("refusal")
  /\ refused' = refused \cup {k}
  /\ UNCHANGED <<outbox, waiting, kept, made, sent, landed, discarded>>

-----------------------------------------------------------------------------
Next ==
  \/ \E b \in Batches : Claim(b)
  \/ Restart
  \/ \E old \in SUBSET Keys : PruneApplied(old)
  \/ \E k \in Keys :
       \/ Enqueue(k) \/ Expire(k)
       \/ Acknowledge(k) \/ MarkApplied(k) \/ RetryLater(k)
       \/ MarkConflicted(k) \/ MarkFailed(k) \/ Resend(k) \/ Discard(k)
       \/ \E facts \in Facts : Resolve(k, facts)
       \/ MarkSeen(k)
       \/ ServerApply(k) \/ ServerRefuse(k)

Spec == Init /\ [][Next]_vars

-----------------------------------------------------------------------------
(* Fairness.  The orchestrator claims while something is eligible and ends *)
(* every attempt with some answer; the clock advances; the server decides  *)
(* about what it is sent.  Nobody is obliged to make, fail, resend,        *)
(* discard or prune anything, and an acknowledgement may never come.       *)

Outcome(k) ==
  MarkApplied(k) \/ RetryLater(k) \/ \E facts \in Facts : Resolve(k, facts)

Decision(k) == ServerApply(k) \/ ServerRefuse(k)

Fairness ==
  /\ WF_vars(\E b \in Batches : Claim(b))
  /\ \A k \in Keys : /\ WF_vars(Expire(k))
                     /\ WF_vars(Outcome(k))
                     /\ WF_vars(Decision(k))

FairSpec == Spec /\ Fairness

-----------------------------------------------------------------------------
(* Properties.                                                             *)

(* j was made before k and is about the same record.                       *)
Before(j, k) ==
  /\ RecordOf[j] = RecordOf[k]
  /\ \E a, b \in DOMAIN made : a < b /\ made[a] = j /\ made[b] = k

(* The table holds well-formed rows, numbered from 1, and only rows wait.  *)
TypeOK ==
  /\ outbox \in [Keys -> Entry]
  /\ \A k \in Rows : outbox[k].position > 0
  /\ waiting \subseteq Rows
  /\ kept \in [Keys -> {"no", "unseen", "seen"}]
  /\ made \in Seq(Keys)
  /\ sent \subseteq Keys
  /\ refused \subseteq sent
  /\ landed \subseteq sent
  /\ discarded \subseteq Keys
  /\ trouble \in 0..MaxTrouble

(* "A payment must not overtake the invoice it pays": once any copy of a   *)
(* change may be on the wire, every earlier change to its record has been  *)
(* applied by the server or taken out of the queue by a decision.          *)
NoOvertaking ==
  \A k \in sent : \A j \in Keys : Before(j, k) => j \in landed \/ j \notin Rows

(* No change disappears.  It is still unfinished here, or the server has   *)
(* it, or the conflict log keeps it, or a person threw it away; in         *)
(* particular, once the table counts as drained (which lets the updater    *)
(* restart the program) nothing exists on this device alone.               *)
NoChangeLost ==
  \A k \in Made : \/ k \in Rows /\ outbox[k].state # "Applied"
                  \/ k \in landed
                  \/ kept[k] # "no"
                  \/ k \in discarded

(* The attempt counter, which survives a crash, is the only evidence       *)
(* discard has that a change may have left the device.                     *)
AttemptsTellWhatWasSent ==
  \A k \in Rows : outbox[k].attempts > 0 <=> k \in sent

(* Positions are reused when the newest rows are pruned or discarded, and  *)
(* still sort the rows of the table in the order the changes were made.    *)
PositionsFollowTheOrderMade ==
  \A a, b \in DOMAIN made :
    (a < b /\ made[a] \in Rows /\ made[b] \in Rows) =>
      outbox[made[a]].position < outbox[made[b]].position

(* At most one change of a record is with the server at a time.            *)
OneOutstandingPerRecord ==
  \A j, k \in Rows :
    ( /\ outbox[j].state \in {"InFlight", "Acknowledged"}
      /\ outbox[k].state \in {"InFlight", "Acknowledged"}
      /\ RecordOf[j] = RecordOf[k] ) => j = k

Delivery == INSTANCE ChangeDelivery WITH
  delivered <- landed,
  abandoned <- {k \in Made : k \notin Rows \cup landed}

(* Whatever crashes, is refused, sent again or answered late, the server   *)
(* gets the changes of one record in the order they were made and each     *)
(* once: the table implements ChangeDelivery (outbox.cpp, claim).          *)
DeliveredInOrder == Delivery!Spec

(* A person's attention is needed before k can move.                       *)
Stuck(k) ==
  \E j \in Rows : /\ outbox[j].state \in {"Conflicted", "Failed"}
                  /\ j = k \/ Before(j, k)

(* A change never waits for ever: it is applied, leaves the table, or      *)
(* needs a person, itself or through an earlier change to its own record.  *)
(* A change to another record never holds it up.                           *)
EveryChangeSettles ==
  \A k \in Keys :
    k \in Rows ~> \/ k \notin Rows
                  \/ outbox[k].state = "Applied"
                  \/ Stuck(k)
=============================================================================
