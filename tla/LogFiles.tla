----------------------------- MODULE LogFiles -----------------------------
(***************************************************************************)
(* The files of the log and the throttle before them.                      *)
(*                                                                         *)
(* platform/rotating_log_file.cpp on platform/local_log_storage.cpp: the   *)
(* live file, generation 0, is moved aside when a line no longer fits, the *)
(* older generations one further, and the oldest files go when the family  *)
(* is over its budget.  Any operation on the storage may fail; a move      *)
(* overwrites what is at its end.  Lines are numbered and as long as one   *)
(* another; a line too long for any file is cut to fit, which is left out. *)
(*                                                                         *)
(* platform/log_throttle.cpp, as Logger::log uses it: of an event that     *)
(* repeats only some records are written, each with the count of those     *)
(* held back since.                                                        *)
(***************************************************************************)
EXTENDS Integers, Sequences, FiniteSets, Sums

CONSTANTS
    Oldest,      \* the number of generations kept besides the live file
    Room,        \* the lines a file has room for
    Budget,      \* the lines all files together may have
    Events,      \* what a record may say
    Watched,     \* kMaxThrottledEvents
    Interval,    \* minimum_interval_milliseconds, 0 for none
    EveryNth,    \* every_nth, 0 for none
    MostLines, MostRecords, MostTime, MostRefusals  \* bounds

ASSUME LogFilesAssumption ==
    /\ Oldest \in Nat \ {0} /\ Room \in Nat \ {0}
    /\ Budget \in Nat /\ Budget >= 2 * Room
    /\ Watched \in Nat \ {0} /\ MostTime \in Nat

Generations == 0 .. Oldest

VARIABLES
    files,    \* the lines of every file; one that is not there has none
    lines,    \* the lines handed to the files
    refusals, \* the operations on the storage that may have failed
    entries,  \* events_: when an event was last written and seen, and what is held
    clock,    \* the time, which may be set back
    seen,     \* the records of every event there have been
    told      \* of how many of them the log tells

filesVars == <<files, lines, refusals>>
throttleVars == <<entries, clock, seen, told>>

(******************************** the files ********************************)

FilesInit == files = [g \in Generations |-> <<>>] /\ lines = 0 /\ refusals = 0

Occupied(fs) == SumOver([g \in Generations |-> Len(fs[g])], Generations)

\* rotate, from the oldest to the live file.  What is stuck cannot be moved,
\* or removed where it is the oldest; a live file that is stuck is discarded.
Moved(stuck) ==
    LET Leaves(g) == files[g] # <<>> /\ g \notin stuck
    IN [g \in Generations |->
          IF g > 0 /\ Leaves(g - 1) THEN files[g - 1]
          ELSE IF g > 0 /\ g \in stuck THEN files[g]
          ELSE <<>>]

EnforcedNewestFirst(fs, stuck) ==
    LET after[g \in Generations] ==
          LET before == IF g = 0 THEN fs ELSE after[g - 1]
          IN IF Occupied(before) <= Budget \/ g \in stuck THEN before
             ELSE [before EXCEPT ![g] = <<>>]
    IN after[Oldest]

\* enforce_budget: files are removed, the oldest first, until what is left
\* fits; one that cannot be removed is passed over.
Enforced(fs, stuck) ==
    LET after[g \in Generations] ==
          LET before == IF g = Oldest THEN fs ELSE after[g + 1]
          IN IF Occupied(before) <= Budget \/ g \in stuck THEN before
             ELSE [before EXCEPT ![g] = <<>>]
    IN after[0]

Full == Len(files[0]) = Room

\* The files as a line that is appended finds them.
Ready(stuck, lasting) == IF Full THEN Enforced(Moved(stuck), lasting) ELSE files

\* write_line: where the live file can neither be moved nor removed, or the
\* line not be appended, the line is lost and counted.
WriteLine ==
    /\ lines < MostLines
    /\ lines' = lines + 1
    /\ \E stuck, lasting \in SUBSET Generations, lost \in {0, 1} :
          /\ refusals' = refusals + Cardinality(stuck) + Cardinality(lasting) + lost
          /\ refusals' <= MostRefusals
          /\ 0 \in stuck \cap lasting => lost = 1
          /\ files' = IF lost = 0
                      THEN Enforced([Ready(stuck, lasting) EXCEPT ![0] = Append(@, lines')], lasting)
                      ELSE IF Full /\ 0 \in stuck \cap lasting
                      THEN [Moved(stuck) EXCEPT ![0] = files[0]]
                      ELSE Ready(stuck, lasting)

(******************************* the throttle ******************************)

ThrottleInit ==
    /\ entries = <<>> /\ clock = 0
    /\ seen = [e \in Events |-> 0] /\ told = seen

Engaged == Interval > 0 \/ EveryNth > 1

Quietest == CHOOSE e \in DOMAIN entries : \A f \in DOMAIN entries : entries[e].seen <= entries[f].seen

\* make_room: an event is forgotten for a new one, and what it held is told.
Forgotten == IF Cardinality(DOMAIN entries) < Watched THEN {} ELSE {Quietest}

Telling(e, n) == [told EXCEPT ![e] = @ + n]

Note(e, entry) ==
    [f \in (DOMAIN entries \ (IF e \in DOMAIN entries THEN {} ELSE Forgotten)) \cup {e} |->
        IF f = e THEN entry ELSE entries[f]]

FirstSightingUntold(e) ==
    /\ entries' = Note(e, [emitted |-> clock, seen |-> clock, since |-> 0, held |-> 0])
    /\ told' = Telling(e, 1)

FirstSighting(e) ==
    /\ entries' = Note(e, [emitted |-> clock, seen |-> clock, since |-> 0, held |-> 0])
    /\ told' = [f \in Events |-> told[f] + (IF f \in Forgotten THEN entries[f].held ELSE 0)
                                         + (IF f = e THEN 1 ELSE 0)]

\* A clock that was set back counts as long enough.
Due(entry) ==
    \/ Interval = 0 \/ clock < entry.emitted \/ clock - entry.emitted >= Interval
    \/ EveryNth > 1 /\ entry.since + 1 >= EveryNth

Repeated(e) ==
    LET entry == entries[e]
    IN IF Due(entry)
       THEN /\ entries' = Note(e, [emitted |-> clock, seen |-> clock, since |-> 0, held |-> 0])
            /\ told' = Telling(e, entry.held + 1)
       ELSE /\ entries' = Note(e, [entry EXCEPT !.seen = clock, !.since = @ + 1, !.held = @ + 1])
            /\ UNCHANGED told

\* consider, and what Logger::log writes upon it.
Log(e) ==
    /\ seen[e] < MostRecords
    /\ seen' = [seen EXCEPT ![e] = @ + 1]
    /\ IF ~Engaged THEN told' = Telling(e, 1) /\ UNCHANGED entries
       ELSE IF e \in DOMAIN entries THEN Repeated(e) ELSE FirstSighting(e)
    /\ UNCHANGED clock

\* drain, before a flush and at the end: what is held is told.
Drain ==
    /\ entries' = [e \in DOMAIN entries |-> [entries[e] EXCEPT !.held = 0, !.since = 0]]
    /\ told' = [e \in Events |-> told[e] + (IF e \in DOMAIN entries THEN entries[e].held ELSE 0)]
    /\ UNCHANGED <<clock, seen>>

SetClock == clock' \in 0 .. MostTime /\ UNCHANGED <<entries, seen, told>>

ThrottleNext == (\E e \in Events : Log(e)) \/ Drain \/ SetClock

(******************************* properties ********************************)

ReadFrom[g \in Generations] == IF g = 0 THEN files[0] ELSE files[g] \o ReadFrom[g - 1]

\* The family is within its budget after every line unless the storage failed,
\* and then reads as one log: in order, from a line on without a gap; a failure
\* may cost lines, it never puts them out of order ("The budget is a promise",
\* rotating_log_file.hpp).
LogReadsAsOne ==
    LET all == ReadFrom[Oldest]
    IN /\ \A i \in 1 .. Len(all) - 1 : all[i] < all[i + 1]
       /\ refusals = 0 =>
            /\ Len(all) <= Budget
            /\ \A i \in DOMAIN all : all[i] = lines - Len(all) + i

\* A record that was held back is counted until the log tells of it, also when
\* its event is pushed out by others ("A gap in the log always says how big it
\* was", log_throttle.hpp).
GapsAreTold ==
    \A e \in Events :
        seen[e] = told[e] + (IF e \in DOMAIN entries THEN entries[e].held ELSE 0)
=============================================================================
