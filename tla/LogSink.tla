------------------------------- MODULE LogSink -------------------------------
(***************************************************************************)
(* The asynchronous log sink (platform/async_log_sink.cpp): callers put    *)
(* lines in a bounded queue, one writer thread takes them to the target,   *)
(* and flush waits for it.                                                 *)
(*                                                                         *)
(* A step is one section under mutex_, one call of the target together     *)
(* with the section that records its result, or one notification, which    *)
(* always comes after the mutex is released.  Lines are numbered in the    *)
(* order they were accepted.  The owner destroys the sink when no caller   *)
(* is inside it, and nobody calls it afterwards.                           *)
(***************************************************************************)
EXTENDS Naturals, Sequences

CONSTANTS
  Callers,      \* threads that log
  Depth,        \* policy_.queue_depth
  Periodic,     \* is flush_interval_milliseconds positive
  OneAtATime,   \* is flush called under a mutex, as Logger does
  MaxLines,     \* bound: lines submitted
  MaxFlushes,   \* bound: calls of flush
  MaxFailures   \* bound: how often the target refuses or throws

ASSUME LogSinkAssumption ==
  /\ Depth \in Nat \ {0}
  /\ {Periodic, OneAtATime} \subseteq BOOLEAN
  /\ {MaxLines, MaxFlushes, MaxFailures} \subseteq Nat

VARIABLES
  queue,
  dropped_since_report,
  flush_generation,
  flush_wanted,
  stopping,
  unflushed,
  submitted,    \* counters_.submitted
  dropped,      \* counters_.dropped
  writer,       \* where the writer thread is
  hand,         \* what it took out of the queue: a line, the gap before it
  caller,       \* where each caller is
  wanted,       \* the generation each flush waits for
  owner,        \* where the destructor is
  log,          \* the lines in the target, with the losses declared above each
  declared,     \* losses declared in the target
  synced,       \* how much of the log the target has flushed
  failures,     \* how often the target has failed
  flushes,      \* how many flushes were asked for
  asked,        \* history: the last line accepted when each flush was called
  promised      \* history: the last line a finished flush has answered for

shared == <<queue, dropped_since_report, flush_generation, flush_wanted, stopping,
            unflushed, submitted, dropped>>
threads == <<writer, hand, caller, wanted, owner>>
target == <<log, declared, synced, failures>>
history == <<flushes, asked, promised>>
vars == <<shared, threads, target, history>>

Nothing == [line |-> 0, gap |-> 0, periodic |-> FALSE]

Init ==
  /\ queue = <<>>
  /\ dropped_since_report = 0
  /\ flush_generation = 0
  /\ flush_wanted = FALSE
  /\ stopping = FALSE
  /\ unflushed = FALSE
  /\ submitted = 0
  /\ dropped = 0
  /\ writer = "looking"
  /\ hand = Nothing
  /\ caller = [c \in Callers |-> "idle"]
  /\ wanted = [c \in Callers |-> 0]
  /\ owner = "running"
  /\ log = <<>>
  /\ declared = 0
  /\ synced = 0
  /\ failures = 0
  /\ flushes = 0
  /\ asked = [c \in Callers |-> 0]
  /\ promised = 0

Goto(c, where) == caller' = [caller EXCEPT ![c] = where]

Failure == failures < MaxFailures /\ failures' = failures + 1

(* work_.notify_one and notify_all: only the writer ever waits on work_.   *)
WakeWriter == writer' = IF writer = "asleep" THEN "looking" ELSE writer

-----------------------------------------------------------------------------
(* Callers.  Mutants of a definition stand before it and are named for     *)
(* their fault.                                                            *)

DropTheOldest ==
  /\ queue' = Append(Tail(queue), submitted + 1)
  /\ dropped' = dropped + 1
  /\ dropped_since_report' = dropped_since_report + 1

WriteLine(c) ==
  /\ caller[c] = "idle"
  /\ owner = "running"
  /\ submitted < MaxLines
  /\ submitted' = submitted + 1
  /\ \/ Len(queue) >= Depth /\ DropTheOldest
     \/ /\ Len(queue) < Depth
        /\ queue' = Append(queue, submitted + 1)
        /\ UNCHANGED <<dropped, dropped_since_report>>
  /\ Goto(c, "wrote")
  /\ UNCHANGED <<flush_generation, flush_wanted, stopping, unflushed>>
  /\ UNCHANGED <<writer, hand, wanted, owner, target, history>>

Flushing == {c \in Callers : caller[c] \in {"asked", "testing", "blocked"}}

(* The first half of flush, up to the notification.                        *)
AskFlush(c) ==
  /\ caller[c] = "idle"
  /\ owner = "running"
  /\ flushes < MaxFlushes
  /\ OneAtATime => Flushing = {}
  /\ wanted' = [wanted EXCEPT ![c] = flush_generation + 1]
  /\ flush_wanted' = TRUE
  /\ Goto(c, "asked")
  /\ flushes' = flushes + 1
  /\ asked' = [asked EXCEPT ![c] = submitted]
  /\ UNCHANGED <<queue, dropped_since_report, flush_generation, stopping, unflushed>>
  /\ UNCHANGED <<submitted, dropped, writer, hand, owner, target, promised>>

NotifyNobody(c) ==
  /\ \/ caller[c] = "wrote" /\ Goto(c, "idle")
     \/ caller[c] = "asked" /\ Goto(c, "testing")
  /\ UNCHANGED <<shared, writer, hand, wanted, owner, target, history>>

NotifyWork(c) ==
  /\ \/ caller[c] = "wrote" /\ Goto(c, "idle")
     \/ caller[c] = "asked" /\ Goto(c, "testing")
  /\ WakeWriter
  /\ UNCHANGED <<shared, hand, wanted, owner, target, history>>

(* idle_.wait: the predicate is tested with the mutex held.                *)
TestGeneration(c) ==
  /\ caller[c] = "testing"
  /\ \/ /\ flush_generation >= wanted[c]
        /\ Goto(c, "idle")
        /\ promised' = IF asked[c] > promised THEN asked[c] ELSE promised
     \/ /\ flush_generation < wanted[c]
        /\ Goto(c, "blocked")
        /\ UNCHANGED promised
  /\ UNCHANGED <<shared, writer, hand, wanted, owner, target, flushes, asked>>

-----------------------------------------------------------------------------
(* The destructor: raise the flag, notify, join.                           *)

Stop ==
  /\ owner = "running"
  /\ \A c \in Callers : caller[c] = "idle"
  /\ stopping' = TRUE
  /\ flush_wanted' = TRUE
  /\ owner' = "stopping"
  /\ UNCHANGED <<queue, dropped_since_report, flush_generation, unflushed>>
  /\ UNCHANGED <<submitted, dropped, writer, hand, caller, wanted, target, history>>

NotifyStop ==
  /\ owner = "stopping"
  /\ owner' = "joining"
  /\ WakeWriter
  /\ UNCHANGED <<shared, hand, caller, wanted, target, history>>

Join ==
  /\ owner = "joining"
  /\ writer = "returned"
  /\ owner' = "gone"
  /\ UNCHANGED <<shared, writer, hand, caller, wanted, target, history>>

-----------------------------------------------------------------------------
(* The writer thread.  It looks at the queue, the flush and the stop flag  *)
(* in that order, with the mutex held.                                     *)

Ready == queue # <<>> \/ flush_wanted \/ stopping

TakeLine ==
  /\ writer = "looking"
  /\ queue # <<>>
  /\ queue' = Tail(queue)
  /\ hand' = [line |-> Head(queue), gap |-> dropped_since_report, periodic |-> FALSE]
  /\ dropped_since_report' = 0
  /\ writer' = IF dropped_since_report > 0 THEN "declaring" ELSE "writing"
  /\ UNCHANGED <<flush_generation, flush_wanted, stopping, unflushed, submitted, dropped>>
  /\ UNCHANGED <<caller, wanted, owner, target, history>>

TakeFlush ==
  /\ writer = "looking"
  /\ queue = <<>>
  /\ flush_wanted
  /\ flush_wanted' = FALSE
  /\ unflushed' = FALSE
  /\ writer' = "flushing"
  /\ UNCHANGED <<queue, dropped_since_report, flush_generation, stopping, submitted, dropped>>
  /\ UNCHANGED <<hand, caller, wanted, owner, target, history>>

(* Nothing to do: the thread ends if it is to stop, and waits otherwise.   *)
Rest ==
  /\ writer = "looking"
  /\ queue = <<>>
  /\ ~flush_wanted
  /\ writer' = IF stopping THEN "returned" ELSE "asleep"
  /\ UNCHANGED <<shared, hand, caller, wanted, owner, target, history>>

(* wait_for, used only when something is unflushed, reaches its interval.  *)
(* The predicate is tested once more before it returns.                    *)
IntervalEnds ==
  /\ writer = "asleep"
  /\ unflushed /\ Periodic
  /\ \/ /\ Ready
        /\ writer' = "looking"
        /\ UNCHANGED <<hand, unflushed>>
     \/ /\ ~Ready
        /\ writer' = "flushing"
        /\ hand' = [Nothing EXCEPT !.periodic = TRUE]
        /\ unflushed' = FALSE
  /\ UNCHANGED <<queue, dropped_since_report, flush_generation, flush_wanted, stopping>>
  /\ UNCHANGED <<submitted, dropped, caller, wanted, owner, target, history>>

(* Declare the gap; put the debt back if the target does not take it.      *)
DeclareOrForget ==
  /\ writer = "declaring"
  /\ writer' = "writing"
  /\ hand' = [hand EXCEPT !.gap = 0]
  /\ \/ /\ declared' = declared + hand.gap
        /\ unflushed' = TRUE
        /\ UNCHANGED failures
     \/ /\ Failure
        /\ UNCHANGED <<declared, unflushed>>
  /\ UNCHANGED <<queue, dropped_since_report, flush_generation, flush_wanted, stopping>>
  /\ UNCHANGED <<submitted, dropped, caller, wanted, owner, log, synced, history>>

DeclareGap ==
  /\ writer = "declaring"
  /\ writer' = "writing"
  /\ hand' = [hand EXCEPT !.gap = 0]
  /\ \/ /\ declared' = declared + hand.gap
        /\ unflushed' = TRUE
        /\ UNCHANGED <<dropped_since_report, failures>>
     \/ /\ Failure
        /\ dropped_since_report' = dropped_since_report + hand.gap
        /\ UNCHANGED <<declared, unflushed>>
  /\ UNCHANGED <<queue, flush_generation, flush_wanted, stopping, submitted, dropped>>
  /\ UNCHANGED <<caller, wanted, owner, log, synced, history>>

WriteUnmarked ==
  /\ writer = "writing"
  /\ writer' = "looking"
  /\ hand' = Nothing
  /\ \/ /\ log' = Append(log, [line |-> hand.line, above |-> declared])
        /\ UNCHANGED failures
     \/ Failure /\ UNCHANGED log
  /\ UNCHANGED <<shared, caller, wanted, owner, declared, synced, history>>

(* A line the target refuses is lost.                                      *)
WriteToTarget ==
  /\ writer = "writing"
  /\ writer' = "looking"
  /\ hand' = Nothing
  /\ \/ /\ log' = Append(log, [line |-> hand.line, above |-> declared])
        /\ unflushed' = TRUE
        /\ UNCHANGED failures
     \/ /\ Failure
        /\ UNCHANGED <<log, unflushed>>
  /\ UNCHANGED <<queue, dropped_since_report, flush_generation, flush_wanted, stopping>>
  /\ UNCHANGED <<submitted, dropped, caller, wanted, owner, declared, synced, history>>

(* target_.flush(), which may throw; the waiter is released either way.    *)
FlushTarget ==
  /\ writer = "flushing"
  /\ writer' = "flushed"
  /\ \/ synced' = Len(log) /\ UNCHANGED failures
     \/ Failure /\ UNCHANGED synced
  /\ UNCHANGED <<shared, hand, caller, wanted, owner, log, declared, history>>

EndPeriodicAsAsked ==
  /\ writer = "flushed"
  /\ hand.periodic
  /\ hand' = Nothing
  /\ flush_generation' = flush_generation + 1
  /\ writer' = "announcing"
  /\ UNCHANGED <<queue, dropped_since_report, flush_wanted, stopping, unflushed>>
  /\ UNCHANGED <<submitted, dropped, caller, wanted, owner, target, history>>

(* Nobody asked for a periodic flush, so it does not advance the           *)
(* generation.                                                             *)
EndPeriodic ==
  /\ writer = "flushed"
  /\ hand.periodic
  /\ hand' = Nothing
  /\ writer' = "looking"
  /\ UNCHANGED <<shared, caller, wanted, owner, target, history>>

EndFlush ==
  /\ writer = "flushed"
  /\ ~hand.periodic
  /\ flush_generation' = flush_generation + 1
  /\ writer' = IF stopping /\ queue = <<>> /\ ~flush_wanted
               THEN "parting" ELSE "announcing"
  /\ UNCHANGED <<queue, dropped_since_report, flush_wanted, stopping, unflushed>>
  /\ UNCHANGED <<submitted, dropped, hand, caller, wanted, owner, target, history>>

(* idle_.notify_all, then return or go round again.                        *)
NotifyIdle ==
  /\ writer \in {"announcing", "parting"}
  /\ writer' = IF writer = "parting" THEN "returned" ELSE "looking"
  /\ caller' = [c \in Callers |-> IF caller[c] = "blocked" THEN "testing" ELSE caller[c]]
  /\ UNCHANGED <<shared, hand, wanted, owner, target, history>>

-----------------------------------------------------------------------------
WriterStep ==
  \/ TakeLine \/ TakeFlush \/ Rest \/ IntervalEnds
  \/ DeclareGap \/ WriteToTarget \/ FlushTarget \/ EndPeriodic \/ EndFlush \/ NotifyIdle

Next ==
  \/ \E c \in Callers : WriteLine(c) \/ AskFlush(c) \/ NotifyWork(c) \/ TestGeneration(c)
  \/ Stop \/ NotifyStop \/ Join
  \/ WriterStep

Spec == Init /\ [][Next]_vars

(* A thread that can run does, the interval ends, and calls of the target  *)
(* return.  Nobody has to log, to flush or to destroy the sink.            *)
Fairness ==
  /\ WF_vars(WriterStep)
  /\ \A c \in Callers : WF_vars(NotifyWork(c) \/ TestGeneration(c))
  /\ WF_vars(NotifyStop \/ Join)

FairSpec == Spec /\ Fairness

-----------------------------------------------------------------------------
(* Properties.                                                             *)

Locations ==
  {"looking", "asleep", "declaring", "writing", "flushing", "flushed", "announcing",
   "parting", "returned"}

(* The queue stays inside its depth and everything keeps its type.         *)
TypeOK ==
  /\ queue \in Seq(1..MaxLines) /\ Len(queue) <= Depth
  /\ {dropped_since_report, declared, dropped} \subseteq 0..MaxLines
  /\ submitted \in 0..MaxLines
  /\ {flush_generation, synced} \subseteq Nat
  /\ {flush_wanted, stopping, unflushed} \subseteq BOOLEAN
  /\ writer \in Locations
  /\ hand \in [line : 0..MaxLines, gap : 0..MaxLines, periodic : BOOLEAN]
  /\ caller \in [Callers -> {"idle", "wrote", "asked", "testing", "blocked"}]
  /\ wanted \in [Callers -> Nat]
  /\ owner \in {"running", "stopping", "joining", "gone"}
  /\ log \in Seq([line : 1..MaxLines, above : 0..MaxLines])
  /\ failures \in 0..MaxFailures
  /\ flushes \in 0..MaxFlushes
  /\ asked \in [Callers -> 0..MaxLines]
  /\ promised \in 0..MaxLines

Queued(n) == \E i \in DOMAIN queue : queue[i] = n

(* "No gap is ever silent": every loss is declared, about to be, or still  *)
(* owed; in a target that never failed each line stands exactly where its  *)
(* predecessors and the losses declared above it put it; and nothing is    *)
(* owed once the sink is gone.                                             *)
NoGapIsSilent ==
  /\ dropped = declared + hand.gap + dropped_since_report
  /\ failures = 0 =>
       /\ \A i \in DOMAIN log : log[i].line = i + log[i].above
       /\ owner = "gone" => declared = dropped

(* "Ordering is never disturbed": the target has the lines in the order    *)
(* they were accepted, and none that is behind in the queue overtakes.     *)
OrderKept ==
  /\ \A i, j \in DOMAIN log : i < j => log[i].line < log[j].line
  /\ \A i \in DOMAIN log, n \in 1..MaxLines :
       Queued(n) \/ hand.line = n => log[i].line < n

(* "Blocks until everything queued before it has reached the wrapped sink  *)
(* and that sink has itself been flushed": a line accepted before a call   *)
(* of flush is neither queued nor in hand once the call has returned, and  *)
(* if it reached a target that never failed it has been flushed there.     *)
FlushMeansDelivered ==
  \A n \in 1..promised :
    /\ ~Queued(n) /\ hand.line # n
    /\ failures = 0 => \A i \in DOMAIN log : log[i].line = n => i <= synced

(* "Shutdown never abandons queued lines": once the sink is gone nothing   *)
(* is queued and a target that never failed has everything and is flushed. *)
NothingAbandoned ==
  owner = "gone" => /\ queue = <<>> /\ hand.line = 0
                    /\ failures = 0 => synced = Len(log)

(* Every flush returns and the destructor ends, whatever the target does.  *)
EveryCallReturns ==
  /\ \A c \in Callers : c \in Flushing ~> caller[c] = "idle"
  /\ owner = "stopping" ~> owner = "gone"

(* With an interval set, a line does not sit in the buffer of a target     *)
(* that never fails, although nobody asks for a flush.                     *)
QuietLinesReachTheDisk ==
  Periodic => (Len(log) > synced ~> synced = Len(log) \/ failures > 0)

(* The log is faithful: what of it was lost is told, what was not is in    *)
(* order, and the end of the sink leaves nothing behind                    *)
(* (async_log_sink.hpp, the promises of its comment).                      *)
LogIsFaithful == TypeOK /\ NoGapIsSilent /\ OrderKept /\ NothingAbandoned
=============================================================================
