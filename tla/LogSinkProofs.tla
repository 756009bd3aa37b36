--------------------------- MODULE LogSinkProofs ---------------------------
(***************************************************************************)
(* Theorems about the asynchronous log sink, for any number of callers,    *)
(* lines, flushes and failures of the target and any depth of the queue.   *)
(***************************************************************************)
EXTENDS LogSink, SequenceTheorems, TLAPS

(* The writer has a line in hand; a flush somebody asked for is under way. *)
TakenUp == writer \in {"declaring", "writing"}
MidFlush == writer \in {"flushing", "flushed"} /\ ~hand.periodic

(* The queue is the end of what was accepted, and what left it is behind.  *)
QueueIsTheEnd == \A i \in 1..Len(queue) : queue[i] = submitted - Len(queue) + i

LogIsBehind ==
  \A i \in 1..Len(log) :
    /\ log[i].line + Len(queue) <= submitted
    /\ hand.line # 0 => log[i].line < hand.line

LogInOrder == \A i, j \in 1..Len(log) : i < j => log[i].line < log[j].line

LinesInOrder ==
  /\ QueueIsTheEnd /\ LogIsBehind /\ LogInOrder
  /\ dropped + Len(queue) <= submitted
  /\ hand.line + Len(queue) <= submitted

HandFits ==
  /\ hand.line # 0 <=> TakenUp
  /\ hand.gap # 0 => writer = "declaring"
  /\ hand.periodic => writer \in {"flushing", "flushed"}

(* Every line is somewhere, and a target that never failed has them with   *)
(* the losses in their places.                                             *)
InPlace == \A i \in 1..Len(log) : log[i].line = i + log[i].above

InHand == IF TakenUp THEN 1 ELSE 0

LossesCounted ==
  /\ dropped = declared + hand.gap + dropped_since_report
  /\ synced <= Len(log)
  /\ failures = 0 =>
       /\ submitted = Len(queue) + Len(log) + dropped + InHand
       /\ TakenUp => hand.line = Len(log) + 1 + declared + hand.gap
       /\ dropped_since_report > 0 => Len(queue) # 0
       /\ InPlace
       /\ ~unflushed => synced = Len(log) \/ writer = "flushing"

(* The flush of the destructor comes after everything else.                *)
EndInSight ==
  /\ owner = "running" <=> ~stopping
  /\ stopping => \A c \in Callers : caller[c] = "idle"
  /\ stopping /\ ~flush_wanted => Len(queue) = 0 /\ ~TakenUp /\ ~unflushed
  /\ writer \in {"parting", "returned"} => stopping /\ ~flush_wanted
  /\ owner = "gone" => writer = "returned"

(* The lines up to m are neither queued nor in hand; and they are flushed. *)
Gone(m) == m + Len(queue) <= submitted /\ (hand.line # 0 => m < hand.line)
Delivered(m) ==
  /\ Gone(m)
  /\ failures = 0 => \A i \in 1..Len(log) : log[i].line <= m => i <= synced

(* One flush at a time: what it waits for is on its way and covers its     *)
(* lines, or was done.                                                     *)
FlushesAnswered ==
  /\ Delivered(promised)
  /\ \A c \in Flushing :
       /\ asked[c] <= submitted
       /\ \A d \in Flushing : c = d
       /\ \/ wanted[c] = flush_generation /\ Delivered(asked[c])
          \/ wanted[c] = flush_generation + 1 /\ (flush_wanted \/ MidFlush)
       /\ MidFlush => Gone(asked[c])
       /\ MidFlush /\ writer = "flushed" => Delivered(asked[c])
  /\ owner = "running" =>
       /\ flush_wanted \/ MidFlush => \E c \in Flushing : wanted[c] = flush_generation + 1
       /\ ~(flush_wanted /\ MidFlush)

-----------------------------------------------------------------------------
LEMMA AppendFacts ==
  ASSUME NEW S, NEW s \in Seq(S), NEW e \in S
  PROVE  /\ Append(s, e) \in Seq(S)
         /\ Len(Append(s, e)) = Len(s) + 1 /\ Len(s) \in Nat
         /\ \A i \in 1..Len(s) : Append(s, e)[i] = s[i]
         /\ Append(s, e)[Len(s) + 1] = e
BY AppendProperties, LenProperties

LEMMA TailFacts ==
  ASSUME NEW S, NEW s \in Seq(S), s # <<>>
  PROVE  /\ Head(s) = s[1] /\ s[1] \in S
         /\ Tail(s) \in Seq(S)
         /\ Len(s) \in Nat \ {0} /\ Len(Tail(s)) = Len(s) - 1
         /\ \A i \in 1..(Len(s) - 1) : Tail(s)[i] = s[i + 1]
BY HeadTailProperties, EmptySeq, LenProperties, ElementOfSeq

LEMMA Bounds ==
  /\ Depth \in Nat \ {0} /\ MaxLines \in Nat /\ MaxFlushes \in Nat /\ MaxFailures \in Nat
  /\ Periodic \in BOOLEAN /\ OneAtATime \in BOOLEAN
BY LogSinkAssumption

LEMMA PartsAreSmaller ==
  ASSUME NEW n \in Nat, NEW total \in 0..n, NEW a \in Nat, NEW b \in Nat, a + b = total
  PROVE  a \in 0..n /\ b \in 0..n
OBVIOUS

LogRow == [line : 1..MaxLines, above : 0..MaxLines]

(* TypeOK by parts: the sequences, the numbers, and everything.            *)
SeqsTyped == queue \in Seq(1..MaxLines) /\ log \in Seq(LogRow)

QueueNumbers ==
  /\ Len(queue) \in Nat /\ (queue = <<>> <=> Len(queue) = 0)
  /\ submitted \in Nat /\ dropped \in Nat /\ dropped_since_report \in Nat
  /\ hand.line \in Nat

LogNumbers ==
  /\ Len(log) \in Nat
  /\ \A i \in 1..Len(log) : log[i].line \in Nat \ {0} /\ log[i].above \in Nat
  /\ declared \in Nat /\ hand.gap \in Nat /\ synced \in Nat /\ failures \in Nat

Numbers == QueueNumbers /\ LogNumbers

Typed ==
  /\ SeqsTyped /\ Len(queue) <= Depth
  /\ dropped_since_report \in 0..MaxLines /\ declared \in 0..MaxLines /\ dropped \in 0..MaxLines
  /\ submitted \in 0..MaxLines /\ flush_generation \in Nat /\ synced \in Nat
  /\ flush_wanted \in BOOLEAN /\ stopping \in BOOLEAN /\ unflushed \in BOOLEAN
  /\ writer \in Locations
  /\ hand \in [line : 0..MaxLines, gap : 0..MaxLines, periodic : BOOLEAN]
  /\ caller \in [Callers -> {"idle", "wrote", "asked", "testing", "blocked"}]
  /\ wanted \in [Callers -> Nat]
  /\ owner \in {"running", "stopping", "joining", "gone"}
  /\ failures \in 0..MaxFailures /\ flushes \in 0..MaxFlushes
  /\ asked \in [Callers -> 0..MaxLines]
  /\ promised \in 0..MaxLines

Lines == Typed /\ LinesInOrder /\ HandFits /\ LossesCounted /\ EndInSight

LEMMA Types == (TypeOK <=> Typed) /\ (Typed => Numbers)
<1>1. TypeOK <=> Typed
  BY DEF TypeOK, Typed, SeqsTyped, LogRow
<1>2. ASSUME Typed PROVE Numbers
  <2>1. /\ queue \in Seq(1..MaxLines) /\ log \in Seq(LogRow)
    BY <1>2 DEF Typed, SeqsTyped
  <2>2. /\ Len(queue) \in Nat /\ (queue = <<>> <=> Len(queue) = 0) /\ Len(log) \in Nat
    BY <2>1, EmptySeq, LenProperties
  <2>3. \A i \in 1..Len(log) : log[i] \in LogRow
    BY <2>1, <2>2, ElementOfSeq
  <2>4. \A i \in 1..Len(log) : log[i].line \in Nat \ {0} /\ log[i].above \in Nat
    BY <2>3, Bounds DEF LogRow
  <2>5. /\ dropped_since_report \in Nat /\ declared \in Nat /\ dropped \in Nat /\ submitted \in Nat
        /\ synced \in Nat /\ failures \in Nat
    BY <1>2, Bounds DEF Typed
  <2>6. hand.line \in Nat /\ hand.gap \in Nat
    BY <1>2, Bounds DEF Typed
  <2> QED
    BY <2>2, <2>4, <2>5, <2>6 DEF Numbers, QueueNumbers, LogNumbers
<1> QED
  BY <1>1, <1>2

LEMMA TypesAfter == Typed' => Numbers'
BY Types, PTL

LEMMA InitLines == Init => Lines
<1> SUFFICES ASSUME Init PROVE Lines
  OBVIOUS
<1>1. queue \in Seq(1..MaxLines) /\ Len(queue) = 0 /\ queue = <<>>
  BY EmptySeq DEF Init
<1>2. log \in Seq(LogRow) /\ Len(log) = 0
  BY EmptySeq DEF Init
<1>3. Typed
  <2>1. SeqsTyped
    BY <1>1, <1>2 DEF SeqsTyped
  <2> QED
    <3>1. hand = [line |-> 0, gap |-> 0, periodic |-> FALSE] /\ writer = "looking"
      BY DEF Init, Nothing
    <3>2. /\ dropped_since_report = 0 /\ declared = 0 /\ dropped = 0 /\ submitted = 0
          /\ flush_generation = 0 /\ synced = 0 /\ failures = 0 /\ flushes = 0 /\ promised = 0
      BY DEF Init
    <3>3. /\ ~flush_wanted /\ ~stopping /\ ~unflushed /\ owner = "running"
          /\ caller = [c \in Callers |-> "idle"] /\ wanted = [c \in Callers |-> 0]
          /\ asked = [c \in Callers |-> 0]
      BY DEF Init
    <3>4. flush_wanted \in BOOLEAN /\ stopping \in BOOLEAN /\ unflushed \in BOOLEAN
      BY DEF Init
    <3> QED
      BY <1>1, <2>1, <3>1, <3>2, <3>3, <3>4, Bounds DEF Typed, Locations
<1> QED
  BY <1>1, <1>2, <1>3
     DEF Init, Nothing, Lines, LinesInOrder, QueueIsTheEnd, LogIsBehind, LogInOrder, HandFits,
         LossesCounted, InHand, InPlace, EndInSight, TakenUp

LEMMA WriteLineKeeps ==
  ASSUME Lines, NEW c \in Callers, WriteLine(c)
  PROVE  Lines'
<1> DEFINE n == submitted + 1
<1>1. /\ caller[c] = "idle" /\ owner = "running" /\ submitted < MaxLines
      /\ submitted' = n /\ caller' = [caller EXCEPT ![c] = "wrote"]
      /\ UNCHANGED <<flush_generation, flush_wanted, stopping, unflushed>>
      /\ UNCHANGED <<writer, hand, wanted, owner, log, declared, synced, failures>>
      /\ UNCHANGED <<flushes, asked, promised>>
  BY DEF WriteLine, Goto, target, history
<1>2. Typed /\ QueueNumbers /\ LogNumbers /\ n \in 1..MaxLines /\ n = submitted + 1
  BY <1>1, Types, Bounds DEF Lines, Typed, Numbers
<1> HIDE DEF n
<1> DEFINE grown ==
      /\ SeqsTyped' /\ QueueIsTheEnd'
      /\ Len(queue') <= Depth /\ Len(queue') \in Nat /\ Len(queue') # 0
      /\ \/ /\ Len(queue') = Len(queue) + 1 /\ UNCHANGED <<dropped, dropped_since_report>>
         \/ /\ Len(queue') = Len(queue) /\ dropped' = dropped + 1
            /\ dropped_since_report' = dropped_since_report + 1
<1>3. grown
  <2>1. queue \in Seq(1..MaxLines) /\ log \in Seq(LogRow)
    BY <1>2 DEF Typed, SeqsTyped
  <2>2. /\ Len(queue) \in Nat /\ (queue = <<>> <=> Len(queue) = 0)
        /\ submitted \in Nat /\ n \in Nat /\ Len(queue) <= Depth
    BY <1>2, Bounds DEF QueueNumbers, Typed
  <2>3. \A i \in 1..Len(queue) : queue[i] = submitted - Len(queue) + i
    BY DEF Lines, LinesInOrder, QueueIsTheEnd
  <2>4. ASSUME Len(queue) < Depth, queue' = Append(queue, n),
               UNCHANGED <<dropped, dropped_since_report>>
        PROVE  grown
    <3>1. /\ queue' \in Seq(1..MaxLines) /\ Len(queue') = Len(queue) + 1
          /\ queue'[Len(queue) + 1] = n
          /\ \A i \in 1..Len(queue) : queue'[i] = queue[i]
      BY <1>2, <2>1, <2>4, AppendFacts
    <3>2. QueueIsTheEnd'
      BY <1>1, <1>2, <2>2, <2>3, <3>1 DEF QueueIsTheEnd
    <3>3. SeqsTyped'
      BY <1>1, <2>1, <3>1 DEF SeqsTyped
    <3> QED
      BY <2>2, <2>4, <3>1, <3>2, <3>3, Bounds
  <2>5. ASSUME Len(queue) >= Depth, DropTheOldest
        PROVE  grown
    <3> DEFINE rest == Tail(queue)
    <3>1. queue # <<>>
      BY <2>2, <2>5, Bounds
    <3>2. /\ rest \in Seq(1..MaxLines) /\ Len(rest) = Len(queue) - 1 /\ Len(queue) \in Nat \ {0}
          /\ \A i \in 1..(Len(queue) - 1) : rest[i] = queue[i + 1]
      BY <2>1, <3>1, TailFacts
    <3>3. queue' = Append(rest, n) /\ dropped' = dropped + 1
          /\ dropped_since_report' = dropped_since_report + 1
      BY <1>2, <2>5 DEF DropTheOldest
    <3> HIDE DEF rest
    <3>4. /\ queue' \in Seq(1..MaxLines) /\ Len(queue') = Len(queue)
          /\ queue'[Len(queue)] = n
          /\ \A i \in 1..(Len(queue) - 1) : queue'[i] = rest[i]
      BY <1>2, <3>2, <3>3, AppendFacts
    <3>5. QueueIsTheEnd'
      <4>1. \A i \in 1..(Len(queue) - 1) : queue'[i] = submitted - Len(queue) + (i + 1)
        BY <2>2, <2>3, <3>2, <3>4
      <4> QED
        BY <1>1, <1>2, <2>2, <3>2, <3>4, <4>1 DEF QueueIsTheEnd
    <3>6. SeqsTyped'
      BY <1>1, <2>1, <3>4 DEF SeqsTyped
    <3> QED
      BY <2>2, <3>2, <3>3, <3>4, <3>5, <3>6
  <2> QED
    BY <1>2, <2>4, <2>5 DEF WriteLine
<1>5. LinesInOrder'
  <2>1. Len(queue') <= Len(queue) + 1 /\ dropped' + Len(queue') = dropped + Len(queue) + 1
    BY <1>2, <1>3 DEF QueueNumbers
  <2>2. submitted' = submitted + 1 /\ Len(queue') \in Nat /\ dropped' \in Nat /\ UNCHANGED <<log, hand>>
    BY <1>1, <1>2, <1>3 DEF QueueNumbers
  <2>3. /\ submitted \in Nat /\ Len(queue) \in Nat /\ dropped \in Nat /\ hand.line \in Nat
        /\ \A i \in 1..Len(log) : log[i].line \in Nat
    BY <1>2 DEF QueueNumbers, LogNumbers
  <2>4. LogInOrder'
    BY <2>2 DEF Lines, LinesInOrder, LogInOrder
  <2>5. LogIsBehind'
    <3> SUFFICES ASSUME NEW i \in 1..Len(log)
                 PROVE  log[i].line + Len(queue') <= submitted' /\ (hand.line # 0 => log[i].line < hand.line)
      BY <2>2 DEF LogIsBehind
    <3>1. log[i].line + Len(queue) <= submitted /\ (hand.line # 0 => log[i].line < hand.line)
      BY DEF Lines, LinesInOrder, LogIsBehind
    <3> QED
      BY <2>1, <2>2, <2>3, <3>1
  <2>6. dropped' + Len(queue') <= submitted' /\ hand'.line + Len(queue') <= submitted'
    <3>1. dropped + Len(queue) <= submitted /\ hand.line + Len(queue) <= submitted
      BY DEF Lines, LinesInOrder
    <3> QED
      BY <2>1, <2>2, <2>3, <3>1
  <2> QED
    BY <1>3, <2>4, <2>5, <2>6 DEF LinesInOrder
<1>6. LossesCounted'
  <2>1. InPlace' <=> InPlace
    BY <1>1 DEF InPlace
  <2>2. /\ submitted \in Nat /\ dropped \in Nat /\ dropped_since_report \in Nat
        /\ Len(queue) \in Nat /\ Len(log) \in Nat /\ declared \in Nat /\ hand.gap \in Nat
    BY <1>2 DEF QueueNumbers, LogNumbers
  <2>3. (TakenUp' <=> TakenUp) /\ InHand' = InHand /\ InHand \in Nat
    BY <1>1 DEF TakenUp, InHand
  <2>4. dropped' = declared + hand.gap + dropped_since_report'
    BY <1>3, <2>2 DEF Lines, LossesCounted
  <2>5. failures = 0 => submitted' = Len(queue') + Len(log) + dropped' + InHand
    <3>1. submitted' = submitted + 1
      BY <1>1, <1>2
    <3>2. failures = 0 => submitted = Len(queue) + Len(log) + dropped + InHand
      BY DEF Lines, LossesCounted
    <3>3. Len(queue') + dropped' = Len(queue) + dropped + 1 /\ Len(queue') \in Nat /\ dropped' \in Nat
      <4>1. /\ Len(queue') \in Nat
            /\ \/ Len(queue') = Len(queue) + 1 /\ dropped' = dropped
               \/ Len(queue') = Len(queue) /\ dropped' = dropped + 1
        BY <1>3
      <4> HIDE DEF grown
      <4> QED
        BY <2>2, <4>1
    <3> HIDE DEF grown
    <3>4. ASSUME submitted = Len(queue) + Len(log) + dropped + InHand
          PROVE  submitted + 1 = Len(queue') + Len(log) + dropped' + InHand
      BY <2>2, <2>3, <3>3, <3>4
    <3> QED
      BY <2>3, <3>1, <3>2, <3>4
  <2>6. failures = 0 => InPlace /\ (TakenUp => hand.line = Len(log) + 1 + declared + hand.gap)
    BY DEF Lines, LossesCounted
  <2>7. synced <= Len(log) /\ (failures = 0 => (~unflushed => synced = Len(log) \/ writer = "flushing"))
    BY DEF Lines, LossesCounted
  <2> QED
    BY <1>1, <1>3, <2>1, <2>3, <2>4, <2>5, <2>6, <2>7 DEF LossesCounted
<1>7. Typed'
  <2>1. /\ dropped' \in Nat /\ dropped_since_report' \in Nat
        /\ dropped' + Len(queue') <= n
        /\ dropped' = declared + hand.gap + dropped_since_report'
    BY <1>1, <1>2, <1>3, <1>5, <1>6 DEF LossesCounted, LinesInOrder, QueueNumbers
  <2>2. dropped_since_report' \in 0..MaxLines /\ dropped' \in 0..MaxLines
    <3>1. Len(queue') \in Nat /\ n \in 1..MaxLines /\ declared \in Nat /\ hand.gap \in Nat
      BY <1>2, <1>3 DEF LogNumbers
    <3>2. dropped' \in 0..MaxLines
      BY <2>1, <3>1, Bounds
    <3> QED
      BY <2>1, <3>1, <3>2, Bounds
  <2>3. caller' \in [Callers -> {"idle", "wrote", "asked", "testing", "blocked"}]
    BY <1>1, <1>2 DEF Typed
  <2>4. SeqsTyped' /\ Len(queue') <= Depth /\ submitted' \in 0..MaxLines
    BY <1>1, <1>2, <1>3, Bounds
  <2> HIDE DEF grown
  <2> QED
    BY <1>1, <1>2, <2>2, <2>3, <2>4 DEF Typed
<1>8. HandFits' /\ EndInSight'
  BY <1>1 DEF Lines, HandFits, EndInSight, TakenUp
<1> QED
  BY <1>5, <1>6, <1>7, <1>8 DEF Lines

(* A step that neither moves lines nor declares losses.                    *)
LEMMA QuietKeeps ==
  ASSUME Lines, UNCHANGED <<queue, submitted, dropped, dropped_since_report, log, declared,
                            synced, failures>>,
         hand'.line = hand.line, hand'.gap = hand.gap, TakenUp' <=> TakenUp,
         failures = 0 /\ ~unflushed' => synced = Len(log) \/ writer' = "flushing"
  PROVE  LinesInOrder' /\ LossesCounted'
<1>1. LinesInOrder'
  BY DEF Lines, LinesInOrder, QueueIsTheEnd, LogIsBehind, LogInOrder
<1>2. InPlace' <=> InPlace
  BY DEF InPlace
<1>3. InHand' = InHand
  BY DEF InHand
<1> QED
  BY <1>1, <1>2, <1>3 DEF Lines, LossesCounted

LEMMA CallersKeep ==
  ASSUME Lines, NEW c \in Callers, AskFlush(c) \/ NotifyWork(c) \/ TestGeneration(c)
  PROVE  Lines'
<1>1. /\ UNCHANGED <<queue, submitted, dropped, dropped_since_report, log, declared,
                     synced, failures, hand, owner, stopping, unflushed>>
      /\ caller[c] # "idle" \/ owner = "running"
      /\ \/ writer' = writer
         \/ writer = "asleep" /\ writer' = "looking"
      /\ flush_wanted' \in BOOLEAN /\ (flush_wanted => flush_wanted')
      /\ flush_wanted' # flush_wanted => owner = "running"
  BY DEF AskFlush, NotifyWork, TestGeneration, Goto, WakeWriter, target, shared, Lines, Typed
<1>2. /\ \E where \in {"idle", "wrote", "asked", "testing", "blocked"} :
           caller' = [caller EXCEPT ![c] = where]
      /\ wanted' = wanted \/ wanted' = [wanted EXCEPT ![c] = flush_generation + 1]
      /\ asked' = asked \/ asked' = [asked EXCEPT ![c] = submitted]
      /\ promised' = promised \/ promised' = asked[c]
      /\ flushes' = flushes \/ (flushes < MaxFlushes /\ flushes' = flushes + 1)
      /\ flush_generation' = flush_generation
  BY DEF AskFlush, NotifyWork, TestGeneration, Goto, target, shared, history
<1>3. Typed'
  <2>1. SeqsTyped'
    BY <1>1 DEF Lines, Typed, SeqsTyped
  <2>2. flushes' \in 0..MaxFlushes
    BY <1>2, Bounds DEF Lines, Typed
  <2>3. wanted' \in [Callers -> Nat] /\ asked' \in [Callers -> 0..MaxLines]
        /\ promised' \in 0..MaxLines
        /\ caller' \in [Callers -> {"idle", "wrote", "asked", "testing", "blocked"}]
    <3>1. wanted' \in [Callers -> Nat]
      <4>1. wanted \in [Callers -> Nat] /\ flush_generation + 1 \in Nat
        BY DEF Lines, Typed
      <4> QED
        BY <1>2, <4>1
    <3>2. asked' \in [Callers -> 0..MaxLines]
      <4>1. submitted \in 0..MaxLines /\ asked \in [Callers -> 0..MaxLines]
        BY DEF Lines, Typed
      <4> QED
        BY <1>2, <4>1
    <3>4. promised' \in 0..MaxLines
      <4>1. promised \in 0..MaxLines /\ asked[c] \in 0..MaxLines
        BY DEF Lines, Typed
      <4> QED
        BY <1>2, <4>1
    <3>3. caller' \in [Callers -> {"idle", "wrote", "asked", "testing", "blocked"}]
      BY <1>2 DEF Lines, Typed
    <3> QED
      BY <3>1, <3>2, <3>3, <3>4
  <2> QED
    BY <1>1, <1>2, <2>1, <2>2, <2>3 DEF Lines, Typed, Locations
<1>4. (TakenUp' <=> TakenUp) /\ HandFits'
  BY <1>1 DEF Lines, HandFits, TakenUp
<1>5. EndInSight'
  <2>1. ~stopping
    BY <1>1 DEF Lines, EndInSight
  <2> QED
    BY <1>1, <2>1 DEF Lines, EndInSight
<1>6. failures = 0 /\ ~unflushed' => synced = Len(log) \/ writer' = "flushing"
  BY <1>1 DEF Lines, LossesCounted
<1> QED
  BY <1>1, <1>3, <1>4, <1>5, <1>6, QuietKeeps DEF Lines

LEMMA OwnerKeeps ==
  ASSUME Lines, Stop \/ NotifyStop \/ Join
  PROVE  Lines'
<1>1. /\ UNCHANGED <<queue, submitted, dropped, dropped_since_report, log, declared,
                     synced, failures, hand, unflushed, flush_generation, caller, wanted,
                     flushes, asked, promised>>
      /\ \/ writer' = writer
         \/ writer = "asleep" /\ writer' = "looking"
      /\ \/ /\ owner = "running" /\ owner' = "stopping" /\ stopping' /\ flush_wanted'
            /\ stopping' \in BOOLEAN /\ flush_wanted' \in BOOLEAN
            /\ \A c \in Callers : caller[c] = "idle"
         \/ /\ owner = "stopping" /\ owner' = "joining" /\ UNCHANGED <<stopping, flush_wanted>>
         \/ /\ owner = "joining" /\ owner' = "gone" /\ writer = "returned"
            /\ UNCHANGED <<stopping, flush_wanted, writer>>
  BY DEF Stop, NotifyStop, Join, WakeWriter, target, shared, history
<1>2. Typed'
  <2>1. SeqsTyped'
    BY <1>1 DEF Lines, Typed, SeqsTyped
  <2> QED
    BY <1>1, <2>1 DEF Lines, Typed, Locations
<1>3. (TakenUp' <=> TakenUp) /\ HandFits'
  BY <1>1 DEF Lines, HandFits, TakenUp
<1>4. EndInSight'
  BY <1>1, <1>3 DEF Lines, EndInSight
<1>5. failures = 0 /\ ~unflushed' => synced = Len(log) \/ writer' = "flushing"
  BY <1>1 DEF Lines, LossesCounted
<1> QED
  BY <1>1, <1>2, <1>3, <1>4, <1>5, QuietKeeps DEF Lines

(* The writer with nothing in hand.                                        *)
LEMMA EmptyHandedKeeps ==
  ASSUME Lines, TakeFlush \/ Rest \/ IntervalEnds \/ EndPeriodic \/ EndFlush \/ NotifyIdle
  PROVE  Lines'
<1>1. /\ UNCHANGED <<queue, submitted, dropped, dropped_since_report, log, declared,
                     synced, failures, stopping, owner, wanted, flushes, asked, promised>>
      /\ writer \in {"looking", "asleep", "flushed", "announcing", "parting"}
      /\ writer' \in {"looking", "asleep", "flushing", "announcing", "parting", "returned"}
      /\ flush_generation' \in {flush_generation, flush_generation + 1}
  BY DEF TakeFlush, Rest, IntervalEnds, EndPeriodic, EndFlush, NotifyIdle, target, shared, history
<1>2. \/ hand' = hand /\ ~hand.periodic
      \/ hand' = Nothing
      \/ hand' = [Nothing EXCEPT !.periodic = TRUE] /\ writer' = "flushing"
  <2>1. hand.periodic => writer \in {"flushing", "flushed"}
    BY DEF Lines, HandFits
  <2>2. CASE TakeFlush \/ Rest \/ NotifyIdle
    BY <2>1, <2>2 DEF TakeFlush, Rest, NotifyIdle, shared
  <2>3. CASE IntervalEnds
    BY <2>1, <2>3 DEF IntervalEnds
  <2>4. CASE EndPeriodic \/ EndFlush
    BY <2>4 DEF EndPeriodic, EndFlush
  <2> QED
    BY <2>2, <2>3, <2>4
<1>3. hand.line = 0 /\ hand.gap = 0
  BY <1>1 DEF Lines, HandFits, TakenUp
<1>4. /\ hand'.line = 0 /\ hand'.gap = 0
      /\ hand'.periodic => writer' = "flushing"
      /\ hand' \in [line : 0..MaxLines, gap : 0..MaxLines, periodic : BOOLEAN]
  <2> QED
    <3>1. CASE hand' = hand /\ ~hand.periodic
      <4>1. hand' \in [line : 0..MaxLines, gap : 0..MaxLines, periodic : BOOLEAN]
        BY <3>1 DEF Lines, Typed
      <4> QED
        BY <1>3, <3>1, <4>1
    <3>2. CASE hand' = Nothing
      BY <3>2, Bounds DEF Nothing
    <3>3. CASE hand' = [Nothing EXCEPT !.periodic = TRUE] /\ writer' = "flushing"
      <4>1. hand' = [line |-> 0, gap |-> 0, periodic |-> TRUE]
        BY <3>3 DEF Nothing
      <4>2. hand' \in [line : 0..MaxLines, gap : 0..MaxLines, periodic : BOOLEAN]
        BY <4>1, Bounds
      <4> QED
        BY <3>3, <4>1, <4>2
    <3> QED
      BY <1>2, <3>1, <3>2, <3>3
<1>5. /\ flush_wanted' \in BOOLEAN /\ unflushed' \in BOOLEAN
      /\ caller' \in [Callers -> {"idle", "wrote", "asked", "testing", "blocked"}]
      /\ \A c \in Callers : caller[c] = "idle" => caller'[c] = "idle"
  BY DEF TakeFlush, Rest, IntervalEnds, EndPeriodic, EndFlush, NotifyIdle, shared, Lines, Typed
<1>6. Typed'
  <2>1. SeqsTyped'
    BY <1>1 DEF Lines, Typed, SeqsTyped
  <2>2. flush_generation' \in Nat
    BY <1>1 DEF Lines, Typed
  <2> QED
    BY <1>1, <1>4, <1>5, <2>1, <2>2 DEF Lines, Typed, Locations
<1>7. ~TakenUp /\ ~TakenUp' /\ HandFits'
  BY <1>1, <1>3, <1>4 DEF Lines, HandFits, TakenUp
<1>8. EndInSight'
  <2>1. Len(queue) = 0 <=> queue = <<>>
    BY Types DEF Lines, Numbers, QueueNumbers
  <2>2. \/ /\ flush_wanted' = flush_wanted
           /\ unflushed' = unflushed \/ unflushed' = FALSE
        \/ queue = <<>> /\ ~flush_wanted' /\ ~unflushed'
    BY DEF TakeFlush, Rest, IntervalEnds, EndPeriodic, EndFlush, NotifyIdle, shared
  <2>3. writer' \in {"parting", "returned"} => stopping /\ ~flush_wanted'
    BY DEF TakeFlush, Rest, IntervalEnds, EndPeriodic, EndFlush, NotifyIdle, shared, Lines, EndInSight
  <2>4. owner # "gone"
    BY <1>1 DEF Lines, EndInSight
  <2> QED
    BY <1>1, <1>5, <1>7, <2>1, <2>2, <2>3, <2>4 DEF Lines, EndInSight
<1>9. failures = 0 /\ ~unflushed' => synced = Len(log) \/ writer' = "flushing"
  <2>1. \/ unflushed' = unflushed /\ writer # "flushing"
        \/ writer' = "flushing"
    BY <1>1 DEF TakeFlush, Rest, IntervalEnds, EndPeriodic, EndFlush, NotifyIdle, shared
  <2> QED
    BY <2>1 DEF Lines, LossesCounted
<1> QED
  BY <1>1, <1>3, <1>4, <1>6, <1>7, <1>8, <1>9, QuietKeeps DEF Lines

LEMMA TakeLineKeeps ==
  ASSUME Lines, TakeLine
  PROVE  Lines'
<1>1. /\ writer = "looking" /\ queue # <<>> /\ queue' = Tail(queue)
      /\ hand' = [line |-> Head(queue), gap |-> dropped_since_report, periodic |-> FALSE]
      /\ dropped_since_report' = 0
      /\ writer' = IF dropped_since_report > 0 THEN "declaring" ELSE "writing"
      /\ UNCHANGED <<flush_generation, flush_wanted, stopping, unflushed, submitted, dropped>>
      /\ UNCHANGED <<caller, wanted, owner, log, declared, synced, failures>>
      /\ UNCHANGED <<flushes, asked, promised>>
  BY DEF TakeLine, target, history
<1>2. Typed /\ QueueNumbers /\ LogNumbers
  BY Types DEF Lines, Numbers
<1>3. ~TakenUp /\ hand.line = 0 /\ hand.gap = 0 /\ TakenUp' /\ writer' # "flushing"
  BY <1>1 DEF Lines, HandFits, TakenUp
<1> DEFINE first == submitted - Len(queue) + 1
<1>4. /\ hand'.line = first /\ hand'.gap = dropped_since_report /\ ~hand'.periodic
      /\ first \in 1..MaxLines
      /\ Len(queue) \in Nat \ {0} /\ Len(queue') = Len(queue) - 1 /\ Len(queue') \in Nat
      /\ SeqsTyped' /\ QueueIsTheEnd'
  <2>1. queue \in Seq(1..MaxLines) /\ log \in Seq(LogRow)
    BY <1>2 DEF Typed, SeqsTyped
  <2>2. /\ Head(queue) = queue[1] /\ queue[1] \in 1..MaxLines
        /\ queue' \in Seq(1..MaxLines)
        /\ Len(queue) \in Nat \ {0} /\ Len(queue') = Len(queue) - 1
        /\ \A i \in 1..(Len(queue) - 1) : queue'[i] = queue[i + 1]
    BY <1>1, <2>1, TailFacts
  <2>3. submitted \in Nat
    BY <1>2 DEF QueueNumbers
  <2>4. \A i \in 1..Len(queue) : queue[i] = submitted - Len(queue) + i
    BY DEF Lines, LinesInOrder, QueueIsTheEnd
  <2>5. Head(queue) = first
    BY <2>2, <2>3, <2>4
  <2>6. QueueIsTheEnd'
    BY <1>1, <2>2, <2>3, <2>4 DEF QueueIsTheEnd
  <2>7. SeqsTyped'
    BY <1>1, <2>1, <2>2 DEF SeqsTyped
  <2>8. hand'.line = Head(queue) /\ hand'.gap = dropped_since_report /\ ~hand'.periodic
    BY <1>1
  <2> QED
    BY <2>2, <2>5, <2>6, <2>7, <2>8
<1>5. LinesInOrder'
  <2>1. LogIsBehind'
    BY <1>1, <1>2, <1>4 DEF Lines, LinesInOrder, LogIsBehind, QueueNumbers, LogNumbers
  <2>2. LogInOrder'
    BY <1>1 DEF Lines, LinesInOrder, LogInOrder
  <2> QED
    BY <1>1, <1>2, <1>4, <2>1, <2>2 DEF Lines, LinesInOrder, QueueNumbers
<1>6. LossesCounted'
  <2>1. InPlace' <=> InPlace
    BY <1>1 DEF InPlace
  <2>2. InHand' = 1 /\ InHand = 0
    BY <1>3 DEF InHand
  <2>3. /\ dropped' = declared' + hand'.gap + dropped_since_report'
        /\ synced' <= Len(log')
    BY <1>1, <1>2, <1>3, <1>4 DEF Lines, LossesCounted, QueueNumbers, LogNumbers
  <2>4. failures' = 0 =>
          /\ submitted' = Len(queue') + Len(log') + dropped' + InHand'
          /\ hand'.line = Len(log') + 1 + declared' + hand'.gap
    BY <1>1, <1>2, <1>3, <1>4, <2>2 DEF Lines, LossesCounted, QueueNumbers, LogNumbers
  <2>5. failures' = 0 => InPlace' /\ (~unflushed' => synced' = Len(log'))
    BY <1>1, <2>1 DEF Lines, LossesCounted
  <2> QED
    BY <1>1, <2>3, <2>4, <2>5 DEF LossesCounted
<1>7. Typed'
  <2>1. hand' \in [line : 0..MaxLines, gap : 0..MaxLines, periodic : BOOLEAN]
    <3>1. Head(queue) = first
      BY <1>1, <1>4
    <3>2. Head(queue) \in 0..MaxLines
      BY <1>4, <3>1, Bounds
    <3>3. dropped_since_report \in 0..MaxLines
      BY <1>2 DEF Typed
    <3> QED
      BY <1>1, <3>2, <3>3
  <2>2. Len(queue') <= Depth /\ dropped_since_report' \in 0..MaxLines
    BY <1>1, <1>2, <1>4, Bounds DEF Typed
  <2> QED
    BY <1>1, <1>2, <1>4, <2>1, <2>2 DEF Typed, Locations
<1>8. HandFits'
  <2>1. dropped_since_report # 0 => writer' = "declaring"
    BY <1>1, <1>2 DEF QueueNumbers
  <2> QED
    BY <1>3, <1>4, <2>1 DEF HandFits
<1>9. EndInSight'
  <2>1. stopping => flush_wanted
    BY <1>4 DEF Lines, EndInSight
  <2> QED
    BY <1>1, <2>1 DEF Lines, EndInSight
<1> QED
  BY <1>5, <1>6, <1>7, <1>8, <1>9 DEF Lines

LEMMA DeclareGapKeeps ==
  ASSUME Lines, DeclareGap
  PROVE  Lines'
<1>1. /\ writer = "declaring" /\ writer' = "writing" /\ hand' = [hand EXCEPT !.gap = 0]
      /\ UNCHANGED <<queue, flush_generation, flush_wanted, stopping, submitted, dropped>>
      /\ UNCHANGED <<caller, wanted, owner, log, synced, flushes, asked, promised>>
  BY DEF DeclareGap, history
<1>2. Typed /\ QueueNumbers /\ LogNumbers
  BY Types DEF Lines, Numbers
<1>3. /\ hand'.line = hand.line /\ hand'.gap = 0 /\ ~hand'.periodic /\ ~hand.periodic
      /\ hand' \in [line : 0..MaxLines, gap : 0..MaxLines, periodic : BOOLEAN]
      /\ TakenUp /\ TakenUp'
  <2>1. ~hand.periodic
    BY <1>1 DEF Lines, HandFits
  <2>2. hand \in [line : 0..MaxLines, gap : 0..MaxLines, periodic : BOOLEAN]
    BY <1>2 DEF Typed
  <2>3. hand'.periodic = hand.periodic
    BY <1>1, <2>2
  <2>4. ~hand'.periodic
    BY <2>1, <2>3
  <2>5. TakenUp /\ TakenUp'
    BY <1>1 DEF TakenUp
  <2>6. hand'.line = hand.line /\ hand'.gap = 0
    BY <1>1, <2>2
  <2>7. hand' \in [line : 0..MaxLines, gap : 0..MaxLines, periodic : BOOLEAN]
    BY <1>1, <2>2, Bounds
  <2> QED
    BY <2>1, <2>4, <2>5, <2>6, <2>7
<1>4. \/ /\ declared' = declared + hand.gap /\ unflushed' = TRUE
         /\ UNCHANGED <<dropped_since_report, failures>>
      \/ /\ failures < MaxFailures /\ failures' = failures + 1
         /\ dropped_since_report' = dropped_since_report + hand.gap
         /\ UNCHANGED <<declared, unflushed>>
  BY DEF DeclareGap, Failure
<1>5. LinesInOrder'
  BY <1>1, <1>3 DEF Lines, LinesInOrder, QueueIsTheEnd, LogIsBehind, LogInOrder
<1>6. LossesCounted'
  <2>1. InPlace' <=> InPlace
    BY <1>1 DEF InPlace
  <2>2. InHand' = 1 /\ InHand = 1
    BY <1>3 DEF InHand
  <2>3. dropped' = declared' + hand'.gap + dropped_since_report' /\ synced' <= Len(log')
    BY <1>1, <1>2, <1>3, <1>4 DEF Lines, LossesCounted, QueueNumbers, LogNumbers
  <2>4. failures' = 0 => /\ failures = 0 /\ declared' = declared + hand.gap /\ unflushed'
                         /\ UNCHANGED dropped_since_report
    BY <1>2, <1>4 DEF LogNumbers
  <2>5. failures' = 0 =>
          /\ submitted' = Len(queue') + Len(log') + dropped' + InHand'
          /\ InPlace' /\ (dropped_since_report' > 0 => Len(queue') # 0)
    BY <1>1, <2>1, <2>2, <2>4 DEF Lines, LossesCounted
  <2>6. failures' = 0 => hand'.line = Len(log') + 1 + declared' + hand'.gap
    BY <1>1, <1>2, <1>3, <2>4 DEF Lines, LossesCounted, LogNumbers
  <2> QED
    BY <2>3, <2>4, <2>5, <2>6 DEF LossesCounted
<1>7. Typed'
  <2>1. SeqsTyped'
    BY <1>1, <1>2 DEF Typed, SeqsTyped
  <2>2. /\ dropped' \in 0..MaxLines /\ dropped' = declared' + hand'.gap + dropped_since_report'
        /\ declared' \in Nat /\ dropped_since_report' \in Nat
    <3>1. dropped' \in 0..MaxLines
      BY <1>1, <1>2 DEF Typed
    <3>2. dropped' = declared' + hand'.gap + dropped_since_report'
      BY <1>6 DEF LossesCounted
    <3>3. /\ declared \in Nat /\ hand.gap \in Nat /\ dropped_since_report \in Nat
          /\ declared + hand.gap \in Nat /\ dropped_since_report + hand.gap \in Nat
      BY <1>2 DEF QueueNumbers, LogNumbers
    <3> QED
      BY <1>4, <3>1, <3>2, <3>3
  <2>3. declared' \in 0..MaxLines /\ dropped_since_report' \in 0..MaxLines
    <3>1. hand'.gap = 0
      BY <1>3
    <3>2. declared' + dropped_since_report' = dropped'
      BY <2>2, <3>1
    <3>3. declared' \in Nat /\ dropped_since_report' \in Nat /\ dropped' \in 0..MaxLines
      BY <2>2
    <3> QED
      BY <3>2, <3>3, PartsAreSmaller, Bounds
  <2>4. failures' \in 0..MaxFailures
    BY <1>2, <1>4, Bounds DEF Typed
  <2>5. unflushed' \in BOOLEAN
    BY <1>2, <1>4 DEF Typed
  <2> QED
    BY <1>1, <1>2, <1>3, <2>1, <2>2, <2>3, <2>4, <2>5 DEF Typed, Locations
<1>8. HandFits'
  BY <1>3 DEF Lines, HandFits
<1>9. EndInSight'
  <2>1. stopping => flush_wanted
    BY <1>3 DEF Lines, EndInSight
  <2> QED
    BY <1>1, <2>1 DEF Lines, EndInSight
<1> QED
  BY <1>5, <1>6, <1>7, <1>8, <1>9 DEF Lines

LEMMA WriteToTargetKeeps ==
  ASSUME Lines, WriteToTarget
  PROVE  Lines'
<1> DEFINE row == [line |-> hand.line, above |-> declared]
<1>1. /\ writer = "writing" /\ writer' = "looking" /\ hand' = Nothing
      /\ UNCHANGED <<queue, dropped_since_report, flush_generation, flush_wanted, stopping>>
      /\ UNCHANGED <<submitted, dropped, caller, wanted, owner, declared, synced>>
      /\ UNCHANGED <<flushes, asked, promised>>
      /\ \/ /\ log' = Append(log, row) /\ unflushed' = TRUE /\ UNCHANGED failures
         \/ /\ failures < MaxFailures /\ failures' = failures + 1
            /\ UNCHANGED <<log, unflushed>>
  BY DEF WriteToTarget, Failure, history
<1>2. Typed /\ QueueNumbers /\ LogNumbers
  BY Types DEF Lines, Numbers
<1>3. /\ hand'.line = 0 /\ hand'.gap = 0 /\ ~hand'.periodic
      /\ hand' \in [line : 0..MaxLines, gap : 0..MaxLines, periodic : BOOLEAN]
  BY <1>1, Bounds DEF Nothing
<1>4. /\ hand.line \in 1..MaxLines /\ hand.gap = 0 /\ TakenUp /\ ~TakenUp'
      /\ declared \in 0..MaxLines
  <2>1. hand.line # 0 /\ hand.gap = 0
    BY <1>1 DEF Lines, HandFits, TakenUp
  <2>2. hand.line \in 0..MaxLines /\ declared \in 0..MaxLines
    BY <1>2 DEF Typed
  <2>3. TakenUp /\ ~TakenUp'
    BY <1>1 DEF TakenUp
  <2> QED
    BY <2>1, <2>2, <2>3, Bounds
<1> DEFINE shown == /\ Len(log') = Len(log) + 1
                    /\ \A i \in 1..Len(log) : log'[i] = log[i]
                    /\ log'[Len(log) + 1].line = hand.line
                    /\ log'[Len(log) + 1].above = declared
                    /\ unflushed' /\ unflushed' \in BOOLEAN
           lost == log' = log /\ failures' = failures + 1 /\ unflushed' = unflushed
<1>5. /\ SeqsTyped' /\ Len(log) \in Nat
      /\ (shown /\ failures' = failures) \/ lost
  <2>1. queue \in Seq(1..MaxLines) /\ log \in Seq(LogRow)
    BY <1>2 DEF Typed, SeqsTyped
  <2>2. row \in LogRow /\ row.line = hand.line /\ row.above = declared
    BY <1>4 DEF LogRow
  <2> HIDE DEF row
  <2>3. CASE log' = Append(log, row) /\ unflushed' = TRUE /\ UNCHANGED failures
    <3>1. /\ log' \in Seq(LogRow) /\ Len(log') = Len(log) + 1 /\ Len(log) \in Nat
          /\ \A i \in 1..Len(log) : log'[i] = log[i]
          /\ log'[Len(log) + 1] = row
      BY <2>1, <2>2, <2>3, AppendFacts
    <3> QED
      BY <1>1, <2>1, <2>2, <2>3, <3>1 DEF SeqsTyped
  <2>4. CASE lost
    BY <1>1, <1>2, <2>1, <2>4 DEF SeqsTyped, LogNumbers
  <2> QED
    BY <1>1, <2>3, <2>4
<1> HIDE DEF row
<1>6. LinesInOrder'
  <2>1. \A i \in 1..Len(log) : log[i].line + Len(queue) <= submitted /\ log[i].line < hand.line
    BY <1>4 DEF Lines, LinesInOrder, LogIsBehind
  <2>2. hand.line + Len(queue) <= submitted /\ \A i, j \in 1..Len(log) : i < j => log[i].line < log[j].line
    BY DEF Lines, LinesInOrder, LogInOrder
  <2>3. LogIsBehind'
    <3>1. CASE shown
      BY <1>1, <1>3, <1>5, <2>1, <2>2, <3>1 DEF LogIsBehind
    <3>2. CASE lost
      BY <1>1, <1>3, <2>1, <3>2 DEF LogIsBehind
    <3> QED
      BY <1>5, <3>1, <3>2
  <2>4. LogInOrder'
    <3>1. CASE shown
      <4>1. \A j \in 1..Len(log') : j \in 1..Len(log) \/ j = Len(log) + 1
        BY <1>5, <3>1
      <4>2. \A i, j \in 1..Len(log') : i < j => i \in 1..Len(log)
        BY <1>5, <3>1
      <4> QED
        BY <2>1, <2>2, <3>1, <4>1, <4>2 DEF LogInOrder
    <3>2. CASE lost
      BY <2>2, <3>2 DEF LogInOrder
    <3> QED
      BY <1>5, <3>1, <3>2
  <2>5. /\ dropped' + Len(queue') <= submitted' /\ hand'.line + Len(queue') <= submitted'
    BY <1>1, <1>2, <1>3 DEF Lines, LinesInOrder, QueueNumbers
  <2> QED
    BY <1>1, <2>3, <2>4, <2>5 DEF Lines, LinesInOrder, QueueIsTheEnd
<1>7. LossesCounted'
  <2>1. InHand' = 0 /\ InHand = 1
    BY <1>4 DEF InHand
  <2>2. dropped' = declared' + hand'.gap + dropped_since_report' /\ synced' <= Len(log')
    <3>1. dropped = declared + hand.gap + dropped_since_report /\ synced <= Len(log) /\ synced \in Nat
      BY <1>2 DEF Lines, LossesCounted, LogNumbers
    <3>2. Len(log') = Len(log) + 1 \/ Len(log') = Len(log)
      BY <1>5
    <3>3. hand'.gap = 0 /\ hand.gap = 0
      BY <1>3, <1>4
    <3> QED
      BY <1>1, <1>5, <3>1, <3>2, <3>3
  <2>3. failures' = 0 => failures = 0 /\ shown
    BY <1>2, <1>5 DEF LogNumbers
  <2>4. failures' = 0 =>
          /\ submitted' = Len(queue') + Len(log') + dropped' + InHand'
          /\ (dropped_since_report' > 0 => Len(queue') # 0)
    <3> SUFFICES ASSUME failures' = 0
                 PROVE  /\ submitted' = Len(queue') + Len(log') + dropped' + InHand'
                        /\ (dropped_since_report' > 0 => Len(queue') # 0)
      OBVIOUS
    <3>1. /\ submitted = Len(queue) + Len(log) + dropped + 1
          /\ dropped_since_report > 0 => Len(queue) # 0
      BY <2>1, <2>3 DEF Lines, LossesCounted
    <3>2. Len(log') = Len(log) + 1
      BY <2>3
    <3>3. Len(queue) \in Nat /\ Len(log) \in Nat /\ dropped \in Nat
      BY <1>2 DEF QueueNumbers, LogNumbers
    <3>4. submitted' = submitted /\ queue' = queue /\ dropped' = dropped
      BY <1>1
    <3>5. dropped_since_report' > 0 => Len(queue') # 0
      BY <1>1, <3>1
    <3> QED
      BY <2>1, <3>1, <3>2, <3>3, <3>4, <3>5
  <2>5. failures' = 0 => InPlace'
    <3> SUFFICES ASSUME failures' = 0 PROVE InPlace'
      OBVIOUS
    <3>1. /\ hand.line = Len(log) + 1 + declared + hand.gap /\ hand.gap = 0
          /\ \A i \in 1..Len(log) : log[i].line = i + log[i].above
      BY <1>4, <2>3 DEF Lines, LossesCounted, InPlace
    <3>2. hand.line = Len(log) + 1 + declared /\ declared \in Nat /\ Len(log) \in Nat
      BY <1>2, <3>1 DEF LogNumbers
    <3>3. \A j \in 1..Len(log') : j \in 1..Len(log) \/ j = Len(log) + 1
      BY <1>5, <2>3
    <3> QED
      BY <2>3, <3>1, <3>2, <3>3 DEF InPlace
  <2>6. failures' = 0 => unflushed' /\ ~TakenUp'
    BY <1>4, <2>3
  <2> QED
    BY <2>2, <2>4, <2>5, <2>6 DEF LossesCounted
<1>8. Typed'
  <2>1. failures' \in 0..MaxFailures
    BY <1>1, <1>2, Bounds DEF Typed
  <2>2. unflushed' \in BOOLEAN
    BY <1>2, <1>5 DEF Typed
  <2> QED
    BY <1>1, <1>2, <1>3, <1>5, <2>1, <2>2 DEF Typed, Locations
<1>9. HandFits'
  BY <1>3, <1>4 DEF HandFits
<1>10. EndInSight'
  <2>1. stopping => flush_wanted
    BY <1>4 DEF Lines, EndInSight
  <2> QED
    BY <1>1, <2>1 DEF Lines, EndInSight
<1> QED
  BY <1>6, <1>7, <1>8, <1>9, <1>10 DEF Lines

LEMMA FlushTargetKeeps ==
  ASSUME Lines, FlushTarget
  PROVE  Lines'
<1>1. /\ writer = "flushing" /\ writer' = "flushed"
      /\ UNCHANGED <<queue, dropped_since_report, flush_generation, flush_wanted, stopping>>
      /\ UNCHANGED <<unflushed, submitted, dropped, hand, caller, wanted, owner, log, declared>>
      /\ UNCHANGED <<flushes, asked, promised>>
      /\ \/ synced' = Len(log) /\ UNCHANGED failures
         \/ /\ failures < MaxFailures /\ failures' = failures + 1
            /\ UNCHANGED synced
  BY DEF FlushTarget, Failure, shared, history
<1>2. Typed /\ QueueNumbers /\ LogNumbers
  BY Types DEF Lines, Numbers
<1>3. ~TakenUp /\ ~TakenUp'
  BY <1>1 DEF TakenUp
<1>4. LinesInOrder'
  BY <1>1 DEF Lines, LinesInOrder, QueueIsTheEnd, LogIsBehind, LogInOrder
<1>5. LossesCounted'
  <2>1. (InPlace' <=> InPlace) /\ InHand' = InHand
    BY <1>1, <1>3 DEF InPlace, InHand
  <2>2. synced' <= Len(log')
    BY <1>1, <1>2 DEF Lines, LossesCounted, LogNumbers
  <2>3. failures' = 0 => failures = 0 /\ synced' = Len(log')
    BY <1>1, <1>2 DEF LogNumbers
  <2> QED
    BY <1>1, <1>3, <2>1, <2>2, <2>3 DEF Lines, LossesCounted
<1>6. Typed'
  <2>1. SeqsTyped'
    BY <1>1, <1>2 DEF Typed, SeqsTyped
  <2>2. failures' \in 0..MaxFailures /\ synced' \in Nat
    BY <1>1, <1>2, Bounds DEF Typed, LogNumbers
  <2> QED
    BY <1>1, <1>2, <2>1, <2>2 DEF Typed, Locations
<1>7. HandFits' /\ EndInSight'
  BY <1>1, <1>3 DEF Lines, HandFits, EndInSight
<1> QED
  BY <1>4, <1>5, <1>6, <1>7 DEF Lines

LEMMA Stutters ==
  ASSUME Lines, UNCHANGED vars
  PROVE  Lines'
BY DEF vars, shared, threads, target, history, Lines, Typed, SeqsTyped, LinesInOrder, QueueIsTheEnd,
       LogIsBehind, LogInOrder, HandFits, TakenUp, LossesCounted, InPlace, InHand, EndInSight

LEMMA NextLines ==
  ASSUME Lines, [Next]_vars
  PROVE  Lines'
<1>1. ASSUME NEW c \in Callers, WriteLine(c) \/ AskFlush(c) \/ NotifyWork(c) \/ TestGeneration(c)
      PROVE  Lines'
  BY <1>1, WriteLineKeeps, CallersKeep
<1>2. ASSUME Stop \/ NotifyStop \/ Join PROVE Lines'
  BY <1>2, OwnerKeeps
<1>3. ASSUME WriterStep PROVE Lines'
  BY <1>3, TakeLineKeeps, DeclareGapKeeps, WriteToTargetKeeps, FlushTargetKeeps, EmptyHandedKeeps
     DEF WriterStep
<1>4. ASSUME UNCHANGED vars PROVE Lines'
  BY <1>4, Stutters
<1> QED
  BY <1>1, <1>2, <1>3, <1>4 DEF Next

LEMMA LinesAlways == Spec => []Lines
BY InitLines, NextLines, PTL DEF Spec

-----------------------------------------------------------------------------
(* Lines that are gone from the queue and the hand do not come back, and   *)
(* what was flushed stays flushed.                                         *)
Settled == \A m \in Nat : (Gone(m) => Gone(m)') /\ (Delivered(m) => Delivered(m)')

LEMMA SettledWhenLinesRest ==
  ASSUME Lines,
         /\ UNCHANGED <<queue, submitted, log, synced>> /\ hand'.line = hand.line
         /\ failures' = 0 => failures = 0
  PROVE  Settled
BY DEF Settled, Gone, Delivered

LEMMA WriteLineSettles ==
  ASSUME Lines, NEW c \in Callers, WriteLine(c)
  PROVE  Settled
<1>1. queue \in Seq(1..MaxLines) /\ submitted \in Nat /\ Len(queue) \in Nat
  BY Types DEF Lines, Typed, SeqsTyped, Numbers, QueueNumbers
<1>2. Len(queue') <= Len(queue) + 1 /\ Len(queue') \in Nat
  <2> DEFINE n == submitted + 1
  <2>1. n \in 1..MaxLines
    BY <1>1, Bounds DEF WriteLine
  <2> HIDE DEF n
  <2>2. ASSUME Len(queue) < Depth, queue' = Append(queue, n)
        PROVE  Len(queue') <= Len(queue) + 1 /\ Len(queue') \in Nat
    BY <1>1, <2>1, <2>2, AppendFacts
  <2>3. ASSUME Len(queue) >= Depth, queue' = Append(Tail(queue), n)
        PROVE  Len(queue') <= Len(queue) + 1 /\ Len(queue') \in Nat
    <3>1. queue # <<>>
      BY <1>1, <2>3, Bounds, EmptySeq
    <3>2. Tail(queue) \in Seq(1..MaxLines) /\ Len(Tail(queue)) = Len(queue) - 1
      BY <1>1, <3>1, TailFacts
    <3> QED
      BY <1>1, <2>1, <2>3, <3>2, AppendFacts
  <2>4. \/ Len(queue) < Depth /\ queue' = Append(queue, n)
        \/ Len(queue) >= Depth /\ queue' = Append(Tail(queue), n)
    BY DEF WriteLine, DropTheOldest, n
  <2> QED
    BY <2>2, <2>3, <2>4
<1>3. submitted' = submitted + 1 /\ UNCHANGED <<hand, log, failures, synced>>
  BY DEF WriteLine, target
<1>4. \A m \in Nat : Gone(m) => Gone(m)'
  BY <1>1, <1>2, <1>3 DEF Gone
<1> QED
  BY <1>3, <1>4 DEF Settled, Delivered

LEMMA TakeLineSettles ==
  ASSUME Lines, TakeLine
  PROVE  Settled
<1>1. /\ queue \in Seq(1..MaxLines) /\ submitted \in Nat /\ queue # <<>>
      /\ QueueIsTheEnd
  BY Types DEF Lines, Typed, SeqsTyped, Numbers, QueueNumbers, LinesInOrder, TakeLine
<1>2. /\ Head(queue) = queue[1] /\ Len(queue) \in Nat \ {0} /\ Len(Tail(queue)) = Len(queue) - 1
  BY <1>1, TailFacts
<1>3. Head(queue) = submitted - Len(queue) + 1
  BY <1>1, <1>2 DEF QueueIsTheEnd
<1>4. /\ hand'.line = Head(queue) /\ Len(queue') = Len(queue) - 1
      /\ UNCHANGED <<submitted, log, failures, synced>>
  BY <1>2 DEF TakeLine, target
<1>5. \A m \in Nat : Gone(m) => Gone(m)'
  BY <1>1, <1>2, <1>3, <1>4 DEF Gone
<1> QED
  BY <1>4, <1>5 DEF Settled, Delivered

LEMMA WriteToTargetSettles ==
  ASSUME Lines, WriteToTarget
  PROVE  Settled
<1> DEFINE row == [line |-> hand.line, above |-> declared]
<1>1. /\ log \in Seq(LogRow) /\ row \in LogRow /\ row.line = hand.line /\ hand.line # 0
      /\ Len(log) \in Nat /\ failures \in Nat /\ hand.line \in Nat
  <2>1. hand.line \in 0..MaxLines /\ declared \in 0..MaxLines /\ log \in Seq(LogRow)
    BY DEF Lines, Typed, SeqsTyped
  <2>2. hand.line # 0
    BY DEF Lines, HandFits, TakenUp, WriteToTarget
  <2> QED
    BY <2>1, <2>2, Types, Bounds DEF LogRow, Lines, Numbers, LogNumbers, QueueNumbers
<1> HIDE DEF row
<1>2. /\ UNCHANGED <<queue, submitted, synced>> /\ hand'.line = 0
      /\ \/ log' = Append(log, row) /\ UNCHANGED failures
         \/ log' = log /\ failures' = failures + 1
  BY DEF WriteToTarget, Failure, Nothing, row
<1>3. \A m \in Nat : Gone(m) => Gone(m)'
  BY <1>2 DEF Gone
<1>4. ASSUME NEW m \in Nat, Delivered(m) PROVE Delivered(m)'
  <2>1. Gone(m)' /\ Gone(m)
    BY <1>3, <1>4 DEF Delivered
  <2>2. ASSUME log' = Append(log, row), failures = 0, NEW i \in 1..Len(log'), log'[i].line <= m
        PROVE  i <= synced
    <3>1. /\ Len(log') = Len(log) + 1 /\ log'[Len(log) + 1] = row
          /\ \A j \in 1..Len(log) : log'[j] = log[j]
      BY <1>1, <2>2, AppendFacts
    <3>2. i # Len(log) + 1
      BY <1>1, <2>1, <2>2, <3>1 DEF Gone
    <3>3. i \in 1..Len(log)
      BY <1>1, <2>2, <3>1, <3>2
    <3> QED
      BY <1>4, <2>2, <3>1, <3>3 DEF Delivered
  <2>3. failures' = 0 => log' = Append(log, row) /\ failures = 0
    BY <1>1, <1>2
  <2> QED
    BY <1>2, <2>1, <2>2, <2>3 DEF Delivered
<1> QED
  BY <1>3, <1>4 DEF Settled

LEMMA FlushTargetSettles ==
  ASSUME Lines, FlushTarget
  PROVE  Settled /\ \A m \in Nat : Gone(m) => Delivered(m)'
<1>1. /\ UNCHANGED <<queue, submitted, hand, log>>
      /\ \/ synced' = Len(log) /\ UNCHANGED failures
         \/ failures' = failures + 1
  BY DEF FlushTarget, Failure, shared
<1>2. failures \in Nat /\ Len(log) \in Nat
  BY Types DEF Lines, Numbers, LogNumbers
<1>3. failures' = 0 => synced' = Len(log')
  BY <1>1, <1>2
<1>4. \A m \in Nat : Gone(m) => Gone(m)'
  BY <1>1 DEF Gone
<1>5. \A m \in Nat : Gone(m) => Delivered(m)'
  BY <1>1, <1>2, <1>3, <1>4 DEF Delivered
<1> QED
  BY <1>4, <1>5 DEF Settled, Delivered

LEMMA NextSettles ==
  ASSUME Lines, [Next]_vars
  PROVE  Settled
<1> DEFINE rests == /\ UNCHANGED <<queue, submitted, log, synced>>
                    /\ hand'.line = hand.line
                    /\ failures' = 0 => failures = 0
<1>1. ASSUME NEW c \in Callers, AskFlush(c) \/ NotifyWork(c) \/ TestGeneration(c)
      PROVE  rests
  BY <1>1 DEF AskFlush, NotifyWork, TestGeneration, target, shared
<1>2. ASSUME Stop \/ NotifyStop \/ Join PROVE rests
  BY <1>2 DEF Stop, NotifyStop, Join, target, shared
<1>3. ASSUME TakeFlush \/ Rest \/ EndFlush \/ NotifyIdle PROVE rests
  BY <1>3 DEF TakeFlush, Rest, EndFlush, NotifyIdle, target, shared
<1>4. ASSUME EndPeriodic \/ IntervalEnds PROVE rests
  <2>1. hand.line = 0
    BY <1>4 DEF EndPeriodic, IntervalEnds, Lines, HandFits, TakenUp
  <2> QED
    BY <1>4, <2>1 DEF EndPeriodic, IntervalEnds, Nothing, target, shared
<1>5. ASSUME DeclareGap PROVE rests
  <2>1. hand \in [line : 0..MaxLines, gap : 0..MaxLines, periodic : BOOLEAN]
    BY DEF Lines, Typed
  <2>2. hand' = [hand EXCEPT !.gap = 0] /\ UNCHANGED <<queue, submitted, log, synced>>
    BY <1>5 DEF DeclareGap
  <2>3. failures' = 0 => failures = 0
    <3>1. failures \in Nat
      BY Types DEF Lines, Numbers, LogNumbers
    <3>2. failures' = failures \/ failures' = failures + 1
      BY <1>5 DEF DeclareGap, Failure
    <3> QED
      BY <3>1, <3>2
  <2> QED
    BY <2>1, <2>2, <2>3
<1>6. ASSUME UNCHANGED vars PROVE rests
  BY <1>6 DEF vars, shared, target, threads
<1>7. rests => Settled
  BY SettledWhenLinesRest
<1> HIDE DEF rests
<1>8. ASSUME NEW c \in Callers, WriteLine(c) PROVE Settled
  BY <1>8, WriteLineSettles
<1>9. ASSUME TakeLine \/ WriteToTarget \/ FlushTarget PROVE Settled
  BY <1>9, TakeLineSettles, WriteToTargetSettles, FlushTargetSettles
<1> QED
  BY <1>1, <1>2, <1>3, <1>4, <1>5, <1>6, <1>7, <1>8, <1>9 DEF Next, WriterStep

(* A step that neither calls nor ends a flush.                             *)
LEMMA FlushesRest ==
  ASSUME Typed, FlushesAnswered, Settled,
         /\ UNCHANGED <<wanted, asked, promised, flush_generation, flush_wanted>>
         /\ Flushing' = Flushing /\ (MidFlush' <=> MidFlush)
         /\ MidFlush => (writer' = "flushed" => writer = "flushed")
         /\ submitted <= submitted' /\ submitted' \in Nat
         /\ owner' = "running" => owner = "running"
  PROVE  FlushesAnswered'
<1>1. promised \in Nat /\ submitted \in Nat /\ \A c \in Callers : asked[c] \in Nat
  BY Bounds DEF Typed
<1>2. Delivered(promised)'
  <2>1. PICK m \in Nat : m = promised
    BY <1>1
  <2>2. Delivered(m)'
    BY <2>1 DEF FlushesAnswered, Settled
  <2> QED
    BY <2>1, <2>2 DEF Delivered, Gone
<1>3. ASSUME NEW c \in Flushing
      PROVE  /\ (asked[c] <= submitted)'
             /\ (MidFlush => Gone(asked[c]))'
             /\ (MidFlush /\ writer = "flushed" => Delivered(asked[c]))'
             /\ Delivered(asked[c]) => Delivered(asked[c])'
  <2>1. c \in Callers
    BY DEF Flushing
  <2>2. PICK m \in Nat : m = asked[c]
    BY <1>1, <2>1
  <2>3. /\ Gone(m) => Gone(m)'
        /\ Delivered(m) => Delivered(m)'
    BY DEF Settled
  <2>4. /\ m <= submitted
        /\ MidFlush => Gone(m)
        /\ MidFlush /\ writer = "flushed" => Delivered(m)
    BY <2>2 DEF FlushesAnswered
  <2>5. m <= submitted'
    BY <1>1, <2>4
  <2>6. /\ MidFlush' => Gone(m)'
        /\ MidFlush' /\ writer' = "flushed" => Delivered(m)'
    BY <2>3, <2>4
  <2>7. asked'[c] = m
    BY <2>2
  <2> QED
    BY <2>2, <2>3, <2>5, <2>6, <2>7 DEF Delivered, Gone
<1> QED
  BY <1>2, <1>3 DEF FlushesAnswered

LEMMA AskFlushAnswers ==
  ASSUME OneAtATime, Lines, FlushesAnswered, Settled, NEW c \in Callers, AskFlush(c)
  PROVE  FlushesAnswered'
<1>1. /\ owner = "running" /\ Flushing = {} /\ flush_wanted'
      /\ wanted' = [wanted EXCEPT ![c] = flush_generation + 1]
      /\ asked' = [asked EXCEPT ![c] = submitted]
      /\ caller' = [caller EXCEPT ![c] = "asked"]
      /\ UNCHANGED <<queue, flush_generation, submitted, writer, hand, owner, promised>>
  BY DEF AskFlush, Goto
<1>2. ~flush_wanted /\ ~MidFlush /\ ~MidFlush'
  BY <1>1 DEF FlushesAnswered, MidFlush
<1>3. Flushing' = {c}
  BY <1>1 DEF Flushing, Lines, Typed
<1>4. wanted'[c] = flush_generation + 1 /\ asked'[c] = submitted /\ submitted \in Nat
  BY <1>1, Bounds DEF Lines, Typed
<1>5. Delivered(promised)'
  <2>1. PICK m \in Nat : m = promised
    BY Bounds DEF Lines, Typed
  <2>2. Delivered(m)'
    BY <2>1 DEF FlushesAnswered, Settled
  <2> QED
    BY <1>1, <2>1, <2>2 DEF Delivered, Gone
<1>6. asked'[c] <= submitted'
  BY <1>1, <1>4
<1> QED
  BY <1>1, <1>2, <1>3, <1>4, <1>5, <1>6 DEF FlushesAnswered

LEMMA TestGenerationAnswers ==
  ASSUME Lines, FlushesAnswered, Settled, NEW c \in Callers, TestGeneration(c)
  PROVE  FlushesAnswered'
<1>1. caller[c] = "testing" /\ c \in Flushing
      /\ UNCHANGED <<queue, submitted, hand, log, synced, failures, writer, flush_wanted,
                     flush_generation, wanted, asked, owner>>
  BY DEF TestGeneration, shared, target, Flushing
<1>2. (MidFlush' <=> MidFlush) /\ submitted \in Nat
  BY <1>1, Bounds DEF MidFlush, Lines, Typed
<1>3. CASE flush_generation < wanted[c]
  <2>1. caller' = [caller EXCEPT ![c] = "blocked"] /\ promised' = promised
    BY <1>3 DEF TestGeneration, Goto, Lines, Typed
  <2>2. Flushing' = Flushing
    BY <1>1, <2>1 DEF Flushing, Lines, Typed
  <2>3. submitted <= submitted' /\ submitted' \in Nat
    BY <1>1, <1>2
  <2> QED
    BY <1>1, <1>2, <2>1, <2>2, <2>3, FlushesRest DEF Lines
<1>4. CASE ~(flush_generation < wanted[c])
  <2>1. /\ caller' = [caller EXCEPT ![c] = "idle"]
        /\ promised' = IF asked[c] > promised THEN asked[c] ELSE promised
    BY <1>4 DEF TestGeneration, Goto
  <2>2. flush_generation \in Nat /\ wanted[c] \in Nat
    BY DEF Lines, Typed
  <2>3. wanted[c] = flush_generation /\ Delivered(asked[c])
    BY <1>1, <1>4, <2>2 DEF FlushesAnswered
  <2>4. Flushing' = {}
    <3>1. \A d \in Flushing : d = c
      BY <1>1 DEF FlushesAnswered
    <3> QED
      BY <2>1, <3>1 DEF Flushing, Lines, Typed
  <2>5. owner = "running" => ~flush_wanted /\ ~MidFlush
    <3>1. \A d \in Flushing : d = c
      BY <1>1 DEF FlushesAnswered
    <3>2. wanted[c] # flush_generation + 1
      BY <2>2, <2>3
    <3> QED
      BY <3>1, <3>2 DEF FlushesAnswered
  <2>6. Delivered(promised)'
    <3>1. promised' = promised \/ promised' = asked[c]
      BY <2>1
    <3>2. Delivered(promised)
      BY DEF FlushesAnswered
    <3> QED
      BY <1>1, <2>3, <3>1, <3>2 DEF Delivered, Gone
  <2> QED
    BY <1>1, <1>2, <2>4, <2>5, <2>6 DEF FlushesAnswered
<1> QED
  BY <1>3, <1>4

LEMMA TakeFlushAnswers ==
  ASSUME Lines, FlushesAnswered, Settled, TakeFlush
  PROVE  FlushesAnswered'
<1>1. /\ writer = "looking" /\ queue = <<>> /\ flush_wanted /\ ~flush_wanted'
      /\ writer' = "flushing"
      /\ UNCHANGED <<queue, submitted, hand, log, synced, failures, caller,
                     flush_generation, wanted, asked, owner, promised>>
  BY DEF TakeFlush, target, history
<1>2. hand.line = 0 /\ ~hand.periodic /\ Len(queue) = 0 /\ submitted \in Nat
  <2>1. hand.line = 0 /\ ~hand.periodic
    BY <1>1 DEF Lines, HandFits, TakenUp
  <2> QED
    BY <1>1, <2>1, Types DEF Lines, Numbers, QueueNumbers
<1>3. ~MidFlush /\ MidFlush' /\ writer' # "flushed" /\ Flushing' = Flushing
  <2>1. ~hand'.periodic
    BY <1>1, <1>2
  <2> QED
    BY <1>1, <2>1 DEF MidFlush, Flushing
<1>4. \A c \in Flushing : asked[c] \in Nat /\ asked[c] <= submitted
  <2>1. \A c \in Flushing : asked[c] \in Nat
    BY Bounds DEF Lines, Typed, Flushing
  <2>2. \A c \in Flushing : asked[c] <= submitted
    BY DEF FlushesAnswered
  <2> QED
    BY <2>1, <2>2
<1>5. \A m \in Nat : m <= submitted => Gone(m)'
  BY <1>1, <1>2 DEF Gone
<1>6. \A c \in Flushing : Gone(asked[c])'
  BY <1>1, <1>4, <1>5 DEF Gone
<1>7. /\ Delivered(promised)'
      /\ \A c \in Flushing : Delivered(asked[c]) => Delivered(asked[c])'
  BY <1>1 DEF FlushesAnswered, Delivered, Gone
<1> QED
  BY <1>1, <1>3, <1>4, <1>6, <1>7 DEF FlushesAnswered

LEMMA FlushTargetAnswers ==
  ASSUME Lines, FlushesAnswered, FlushTarget
  PROVE  FlushesAnswered'
<1>1. /\ writer = "flushing" /\ writer' = "flushed"
      /\ UNCHANGED <<queue, submitted, hand, log, caller, flush_wanted,
                     flush_generation, wanted, asked, owner, promised>>
  BY DEF FlushTarget, shared, history
<1>2. (MidFlush' <=> MidFlush) /\ Flushing' = Flushing
  BY <1>1 DEF MidFlush, Flushing
<1>3. \A m \in Nat : (Gone(m) => Delivered(m)') /\ (Delivered(m) => Delivered(m)')
  BY FlushTargetSettles DEF Settled
<1>4. promised \in Nat /\ \A c \in Flushing : asked[c] \in Nat
  BY Bounds DEF Lines, Typed, Flushing
<1>5. Delivered(promised)'
  <2>1. PICK m \in Nat : m = promised
    BY <1>4
  <2>2. Delivered(m)'
    BY <1>3, <2>1 DEF FlushesAnswered
  <2> QED
    BY <1>1, <2>1, <2>2 DEF Delivered, Gone
<1>6. ASSUME NEW c \in Flushing
      PROVE  /\ (Gone(asked[c]) => Delivered(asked[c])' /\ Gone(asked[c])')
             /\ Delivered(asked[c]) => Delivered(asked[c])'
  <2>1. PICK m \in Nat : m = asked[c]
    BY <1>4
  <2>2. Gone(m) => Delivered(m)'
    BY <1>3
  <2>3. Gone(m) => Gone(m)'
    BY <1>1 DEF Gone
  <2>4. Delivered(m) => Delivered(m)'
    BY <1>3
  <2> QED
    BY <1>1, <2>1, <2>2, <2>3, <2>4 DEF Delivered, Gone
<1>7. \A c \in Flushing : MidFlush => Gone(asked[c])' /\ Delivered(asked[c])'
  BY <1>6 DEF FlushesAnswered
<1> QED
  BY <1>1, <1>2, <1>5, <1>6, <1>7 DEF FlushesAnswered

LEMMA EndFlushAnswers ==
  ASSUME Lines, FlushesAnswered, EndFlush
  PROVE  FlushesAnswered'
<1>1. /\ writer = "flushed" /\ ~hand.periodic /\ writer' \in {"parting", "announcing"}
      /\ flush_generation' = flush_generation + 1
      /\ UNCHANGED <<queue, submitted, hand, log, synced, failures, caller, flush_wanted,
                     wanted, asked, owner, promised>>
  BY DEF EndFlush, target, history
<1>2. MidFlush /\ ~MidFlush' /\ Flushing' = Flushing
  BY <1>1 DEF MidFlush, Flushing
<1>3. flush_generation \in Nat
  BY DEF Lines, Typed
<1>4. /\ Delivered(promised)'
      /\ \A c \in Flushing : Delivered(asked[c])' /\ asked[c] <= submitted
  BY <1>1, <1>2 DEF FlushesAnswered, Delivered, Gone
<1>5. \A c \in Flushing : owner = "running"
  BY DEF Lines, EndInSight, Flushing
<1>6. \A c \in Flushing : wanted[c] = flush_generation + 1
  BY <1>2, <1>5 DEF FlushesAnswered
<1>7. owner = "running" => ~flush_wanted
  BY <1>2 DEF FlushesAnswered
<1>8. \A c, d \in Flushing : c = d
  BY DEF FlushesAnswered
<1> QED
  BY <1>1, <1>2, <1>4, <1>6, <1>7, <1>8 DEF FlushesAnswered

LEMMA StopAnswers ==
  ASSUME Lines, FlushesAnswered, Stop
  PROVE  FlushesAnswered'
<1>1. /\ UNCHANGED <<queue, submitted, hand, log, synced, failures, promised, caller>>
      /\ owner' # "running" /\ Flushing = {}
  BY DEF Stop, target, history, Flushing
<1>2. Delivered(promised)' /\ Flushing' = {}
  BY <1>1 DEF FlushesAnswered, Delivered, Gone, Flushing
<1> QED
  BY <1>1, <1>2 DEF FlushesAnswered

LEMMA InitFlushes == Init => FlushesAnswered
<1> SUFFICES ASSUME Init PROVE FlushesAnswered
  OBVIOUS
<1>1. /\ queue = <<>> /\ log = <<>> /\ submitted = 0 /\ promised = 0 /\ hand.line = 0
      /\ ~flush_wanted /\ writer = "looking" /\ caller = [c \in Callers |-> "idle"]
  BY DEF Init, Nothing
<1>2. Len(queue) = 0 /\ Len(log) = 0
  BY <1>1
<1>3. Flushing = {} /\ ~MidFlush
  BY <1>1 DEF Flushing, MidFlush
<1>4. Delivered(promised)
  <2>1. Gone(promised)
    BY <1>1, <1>2 DEF Gone
  <2>2. \A i \in 1..Len(log) : FALSE
    BY <1>2
  <2> QED
    BY <2>1, <2>2 DEF Delivered
<1> QED
  BY <1>1, <1>3, <1>4 DEF FlushesAnswered

LEMMA NextFlushes ==
  ASSUME OneAtATime, Lines, FlushesAnswered, [Next]_vars
  PROVE  FlushesAnswered'
<1> DEFINE rests == /\ UNCHANGED <<wanted, asked, promised, flush_generation, flush_wanted>>
                    /\ Flushing' = Flushing /\ (MidFlush' <=> MidFlush)
                    /\ MidFlush => (writer' = "flushed" => writer = "flushed")
                    /\ owner' = "running" => owner = "running"
<1>1. Settled /\ Typed
  BY NextSettles DEF Lines
<1>2. submitted <= submitted' /\ submitted' \in Nat
  <2>1. submitted \in Nat
    BY Bounds DEF Lines, Typed
  <2>2. submitted' = submitted \/ submitted' = submitted + 1
    BY DEF Next, WriteLine, AskFlush, NotifyWork, TestGeneration, Stop, NotifyStop, Join, WriterStep,
           TakeLine, TakeFlush, Rest, IntervalEnds, DeclareGap, WriteToTarget, FlushTarget,
           EndPeriodic, EndFlush, NotifyIdle, vars, shared
  <2> QED
    BY <2>1, <2>2
<1>3. ASSUME rests PROVE FlushesAnswered'
  BY <1>1, <1>2, <1>3, FlushesRest
<1>4. caller \in [Callers -> {"idle", "wrote", "asked", "testing", "blocked"}]
  BY DEF Lines, Typed
<1>5. ASSUME NEW c \in Callers, WriteLine(c) PROVE rests
  <2>1. caller[c] = "idle" /\ caller' = [caller EXCEPT ![c] = "wrote"]
    BY <1>5 DEF WriteLine, Goto
  <2>2. Flushing' = Flushing
    BY <1>4, <2>1 DEF Flushing
  <2> QED
    BY <1>5, <2>2 DEF WriteLine, MidFlush, history
<1>6. ASSUME NEW c \in Callers, NotifyWork(c) PROVE rests
  <2>1. \/ caller[c] = "wrote" /\ caller' = [caller EXCEPT ![c] = "idle"]
        \/ caller[c] = "asked" /\ caller' = [caller EXCEPT ![c] = "testing"]
    BY <1>6 DEF NotifyWork, Goto
  <2>2. Flushing' = Flushing
    BY <1>4, <2>1 DEF Flushing
  <2> QED
    BY <1>6, <2>2 DEF NotifyWork, WakeWriter, MidFlush, shared, history
<1>7. ASSUME NotifyStop \/ Join PROVE rests
  BY <1>7 DEF NotifyStop, Join, WakeWriter, MidFlush, Flushing, shared, history
<1>8. ASSUME TakeLine \/ Rest \/ WriteToTarget PROVE rests
  BY <1>8 DEF TakeLine, Rest, WriteToTarget, MidFlush, Flushing, shared, history
<1>9. ASSUME DeclareGap PROVE rests
  BY <1>9 DEF DeclareGap, MidFlush, Flushing, history
<1>10. ASSUME IntervalEnds PROVE rests
  <2>1. \/ writer' = "looking"
        \/ writer' = "flushing" /\ hand' = [line |-> 0, gap |-> 0, periodic |-> TRUE]
    BY <1>10 DEF IntervalEnds, Nothing
  <2>2. ~MidFlush /\ ~MidFlush'
    BY <1>10, <2>1 DEF IntervalEnds, MidFlush
  <2> QED
    BY <1>10, <2>2 DEF IntervalEnds, Flushing, history
<1>11. ASSUME EndPeriodic PROVE rests
  BY <1>11 DEF EndPeriodic, MidFlush, Flushing, shared, history
<1>12. ASSUME NotifyIdle PROVE rests
  <2>1. Flushing' = Flushing
    BY <1>12 DEF NotifyIdle, Flushing
  <2> QED
    BY <1>12, <2>1 DEF NotifyIdle, MidFlush, shared, history
<1>13. ASSUME UNCHANGED vars PROVE rests
  BY <1>13 DEF vars, shared, threads, history, MidFlush, Flushing
<1> HIDE DEF rests
<1>14. ASSUME NEW c \in Callers, AskFlush(c) PROVE FlushesAnswered'
  BY <1>1, <1>14, AskFlushAnswers
<1>15. ASSUME NEW c \in Callers, TestGeneration(c) PROVE FlushesAnswered'
  BY <1>1, <1>15, TestGenerationAnswers
<1>16. ASSUME Stop \/ TakeFlush \/ FlushTarget \/ EndFlush PROVE FlushesAnswered'
  BY <1>1, <1>16, StopAnswers, TakeFlushAnswers, FlushTargetAnswers, EndFlushAnswers
<1> QED
  BY <1>3, <1>5, <1>6, <1>7, <1>8, <1>9, <1>10, <1>11, <1>12, <1>13, <1>14, <1>15, <1>16
     DEF Next, WriterStep

-----------------------------------------------------------------------------
(* What the invariants say of the properties.                              *)
LEMMA LinesAreFaithful == Lines => LogIsFaithful
<1> SUFFICES ASSUME Lines PROVE LogIsFaithful
  OBVIOUS
<1>1. Numbers /\ TypeOK
  BY Types DEF Lines
<1>2. DOMAIN log = 1..Len(log) /\ DOMAIN queue = 1..Len(queue)
  BY LenProperties DEF Lines, Typed, SeqsTyped
<1>3. owner = "gone" => /\ Len(queue) = 0 /\ ~TakenUp /\ ~unflushed /\ writer = "returned"
                        /\ hand.line = 0 /\ hand.gap = 0
  <2>1. hand.line # 0 <=> TakenUp
    BY DEF Lines, HandFits
  <2>2. owner = "gone" => writer = "returned" /\ stopping /\ ~flush_wanted
    BY DEF Lines, EndInSight
  <2>3. owner = "gone" => Len(queue) = 0 /\ ~TakenUp /\ ~unflushed
    BY <2>2 DEF Lines, EndInSight
  <2>4. writer = "returned" => hand.gap = 0
    BY DEF Lines, HandFits
  <2> QED
    BY <2>1, <2>2, <2>3, <2>4
<1>4. NoGapIsSilent
  <2>1. dropped = declared + hand.gap + dropped_since_report
    BY DEF Lines, LossesCounted
  <2>2. failures = 0 => \A i \in DOMAIN log : log[i].line = i + log[i].above
    BY <1>2 DEF Lines, LossesCounted, InPlace
  <2>3. failures = 0 /\ owner = "gone" => declared = dropped
    <3>1. failures = 0 /\ owner = "gone" => ~(dropped_since_report > 0)
      BY <1>3 DEF Lines, LossesCounted
    <3>2. dropped_since_report \in Nat /\ declared \in Nat
      BY <1>1 DEF Numbers, QueueNumbers, LogNumbers
    <3>3. dropped_since_report > 0 \/ dropped_since_report = 0
      BY <3>2
    <3> QED
      BY <1>3, <2>1, <3>1, <3>2, <3>3
  <2> QED
    BY <2>1, <2>2, <2>3 DEF NoGapIsSilent
<1>5. OrderKept
  <2>1. \A i, j \in DOMAIN log : i < j => log[i].line < log[j].line
    BY <1>2 DEF Lines, LinesInOrder, LogInOrder
  <2>2. ASSUME NEW i \in DOMAIN log, NEW n \in 1..MaxLines, Queued(n) \/ hand.line = n
        PROVE  log[i].line < n
    <3>1. i \in 1..Len(log)
      BY <1>2
    <3>2. /\ log[i].line + Len(queue) <= submitted
          /\ hand.line # 0 => log[i].line < hand.line
      BY <3>1 DEF Lines, LinesInOrder, LogIsBehind
    <3>3. n # 0
      BY Bounds
    <3>4. CASE hand.line = n
      BY <3>2, <3>3, <3>4
    <3>5. CASE Queued(n)
      <4>1. PICK k \in 1..Len(queue) : queue[k] = n
        BY <1>2, <3>5 DEF Queued
      <4>2. n = submitted - Len(queue) + k
        BY <4>1 DEF Lines, LinesInOrder, QueueIsTheEnd
      <4>3. log[i].line \in Nat /\ submitted \in Nat /\ Len(queue) \in Nat /\ k >= 1 /\ k \in Nat
        BY <1>1, <3>1, <4>1 DEF Numbers, QueueNumbers, LogNumbers
      <4> QED
        BY <3>2, <4>2, <4>3
    <3> QED
      BY <2>2, <3>4, <3>5
  <2> QED
    BY <2>1, <2>2 DEF OrderKept
<1>6. NothingAbandoned
  <2>1. Len(queue) = 0 => queue = <<>>
    BY <1>1 DEF Numbers, QueueNumbers
  <2>2. failures = 0 /\ ~unflushed => synced = Len(log) \/ writer = "flushing"
    BY DEF Lines, LossesCounted
  <2> QED
    BY <1>3, <2>1, <2>2 DEF NothingAbandoned
<1> QED
  BY <1>1, <1>4, <1>5, <1>6 DEF LogIsFaithful

LEMMA AnswersAreDelivered == Lines /\ FlushesAnswered => FlushMeansDelivered
<1> SUFFICES ASSUME Lines, FlushesAnswered, NEW n \in 1..promised
             PROVE  /\ ~Queued(n) /\ hand.line # n
                    /\ failures = 0 => \A i \in DOMAIN log : log[i].line = n => i <= synced
  BY DEF FlushMeansDelivered
<1>1. DOMAIN log = 1..Len(log) /\ DOMAIN queue = 1..Len(queue)
  BY LenProperties DEF Lines, Typed, SeqsTyped
<1>2. /\ promised \in Nat /\ submitted \in Nat /\ Len(queue) \in Nat /\ hand.line \in Nat
      /\ n \in Nat /\ n <= promised /\ n # 0
  BY Types, Bounds DEF Lines, Typed, Numbers, QueueNumbers
<1>3. promised + Len(queue) <= submitted /\ (hand.line # 0 => promised < hand.line)
  BY DEF FlushesAnswered, Delivered, Gone
<1>4. ~Queued(n)
  <2> SUFFICES ASSUME NEW k \in 1..Len(queue), queue[k] = n PROVE FALSE
    BY <1>1 DEF Queued
  <2>1. n = submitted - Len(queue) + k
    BY DEF Lines, LinesInOrder, QueueIsTheEnd
  <2> QED
    BY <1>2, <1>3, <2>1
<1>5. hand.line # n
  BY <1>2, <1>3
<1>6. failures = 0 => \A i \in 1..Len(log) : log[i].line = n => i <= synced
  BY <1>2 DEF FlushesAnswered, Delivered
<1> QED
  BY <1>1, <1>4, <1>5, <1>6

-----------------------------------------------------------------------------
(* "No gap is ever silent", "ordering is never disturbed", "shutdown never *)
(* abandons queued lines": whatever the callers, the writer, the target    *)
(* and the destructor do between them (async_log_sink.hpp:27, :43, :109).  *)
THEOREM Faithful == Spec => []LogIsFaithful
BY LinesAlways, LinesAreFaithful, PTL

(* With one flush at a time, as Logger calls it under its mutex, a flush   *)
(* that returned has everything that was accepted before it was called.    *)
THEOREM Flushed == ASSUME OneAtATime PROVE Spec => []FlushMeansDelivered
<1>1. Lines /\ FlushesAnswered /\ [Next]_vars => FlushesAnswered'
  BY NextFlushes
<1> QED
  BY <1>1, InitFlushes, LinesAlways, AnswersAreDelivered, PTL DEF Spec
=============================================================================
