---------------------------- MODULE Migrations ----------------------------
(***************************************************************************)
(* Bringing the database up to the build that opens it                     *)
(* (engine/storage/migration_runner.cpp, Database::open): every start      *)
(* reads which migrations the file says were applied, refuses a file it    *)
(* does not understand, and applies the rest in the order of their         *)
(* numbers, the schema of each outside a transaction and its data together *)
(* with the record of it.  Any build may open the file next; the process   *)
(* may die at any step.                                                    *)
(*                                                                         *)
(* The record is a row whose key is the number.  The in-memory store the   *)
(* tests use keeps it a number; the SQL store creates every key column as  *)
(* TEXT, so there it comes back as a text, which integer_or(0) reads as 0. *)
(***************************************************************************)
EXTENDS Integers, Sequences, FiniteSetsExt, Functions

CONSTANTS
    Builds,   \* what a build may bring: the name of the migration of each number
    MostRuns  \* bound: the migrations run

\* A migration is registered under a positive number.
ASSUME MigrationsAssumption ==
    \A b \in Builds : IsFiniteSet(DOMAIN b) /\ DOMAIN b \subseteq Nat \ {0}

VARIABLES
    keeps,     \* whether the store keeps numbers as its keys
    build,     \* the build that runs
    phase,     \* "closed", "running", "shaped", "ready" or "refused"
    at,        \* the number of the migration it is at
    applied,   \* what the history read at the start says was applied
    recorded,  \* the name recorded in the file under each number
    shaped,    \* the schemas the file has had
    ran        \* the migrations whose data ran and stayed, in that order

fileVars == <<recorded, shaped, ran>>
migrationVars == <<keeps, build, phase, at, applied, fileVars>>

Nothing == <<>>
Highest(numbers) == IF numbers = {} THEN 0 ELSE Max(numbers)

MigrationsInit ==
    /\ keeps \in BOOLEAN
    /\ build \in Builds
    /\ phase = "closed" /\ at = 0 /\ applied = Nothing
    /\ recorded = Nothing /\ shaped = {} /\ ran = <<>>

\* Where numbers are read as 0 the first row read takes the place of all.
History ==
    IF keeps \/ recorded = Nothing THEN recorded
    ELSE [zero \in {0} |-> recorded[CHOOSE n \in DOMAIN recorded : \A m \in DOMAIN recorded : n <= m]]

OnDisk == Highest(DOMAIN applied)

\* A file written by a newer build is refused.
Open(b) ==
    /\ phase = "closed"
    /\ build' = b
    /\ applied' = History
    /\ phase' = IF Highest(DOMAIN History) > Highest(DOMAIN b) THEN "refused" ELSE "running"
    /\ at' = 0
    /\ UNCHANGED <<keeps, fileVars>>

Ahead == {n \in DOMAIN build : n > at}

\* Arriving late would be no reason to refuse.
AcceptableLate(n) == n \notin DOMAIN applied \/ applied[n] = build[n]

\* A migration whose recorded name is another was edited; one that comes
\* below what was applied arrives out of order.
Acceptable(n) == IF n \in DOMAIN applied THEN applied[n] = build[n] ELSE n >= OnDisk

Migrate ==
    /\ phase = "running" /\ Ahead # {}
    /\ LET n == Min(Ahead)
       IN CASE ~Acceptable(n) -> phase' = "refused" /\ UNCHANGED <<at, shaped>>
            [] Acceptable(n) /\ n \in DOMAIN applied -> at' = n /\ UNCHANGED <<phase, shaped>>
            [] Acceptable(n) /\ n \notin DOMAIN applied ->
                 at' = n /\ phase' = "shaped" /\ shaped' = shaped \cup {<<n, build[n]>>}
    /\ UNCHANGED <<keeps, build, applied, recorded, ran>>

\* The data of a migration and the record of it are one transaction.
Record ==
    /\ phase = "shaped" /\ Len(ran) < MostRuns
    /\ recorded' = [n \in DOMAIN recorded \cup {at} |-> IF n = at THEN build[at] ELSE recorded[n]]
    /\ ran' = Append(ran, <<at, build[at]>>)
    /\ phase' = "running"
    /\ UNCHANGED <<keeps, build, at, applied, shaped>>

Finish ==
    /\ phase = "running" /\ Ahead = {}
    /\ phase' = "ready"
    /\ UNCHANGED <<keeps, build, at, applied, fileVars>>

\* A schema or a transaction that fails leaves the database closed.
Refuse ==
    /\ phase \in {"running", "shaped"}
    /\ phase' = "refused"
    /\ UNCHANGED <<keeps, build, at, applied, fileVars>>

\* The process ends, in good order or not, and what was committed stays.
End ==
    /\ phase # "closed"
    /\ phase' = "closed" /\ at' = 0 /\ applied' = Nothing
    /\ UNCHANGED <<keeps, build, fileVars>>

MigrationsNext == (\E b \in Builds : Open(b)) \/ Migrate \/ Record \/ Finish \/ Refuse \/ End

MigrationsSpec == MigrationsInit /\ [][MigrationsNext]_migrationVars

(******************************* properties ********************************)

\* Whatever dies in between, the file records exactly the migrations whose
\* data ran, each over its own schema, and a build that is ready has all of
\* its own ("Either both land or neither does", MigrationRunner::run).
RecordTells ==
    /\ DOMAIN recorded = {ran[i][1] : i \in DOMAIN ran}
    /\ Range(ran) \subseteq shaped
    /\ phase = "ready" => \A n \in DOMAIN build : n \in DOMAIN recorded /\ recorded[n] = build[n]

\* On a store that keeps its numbers no migration runs twice or before a lower
\* one, whichever builds open the file in whichever order.
OnceInOrder ==
    keeps => \A i, j \in DOMAIN ran : i < j => ran[i][1] < ran[j][1]

\* A build never starts on a file a newer build has changed ("Refusing to
\* start is the only safe move", MigrationRunner::run).
NewerRefused ==
    phase = "ready" => \A n \in DOMAIN recorded : n <= Highest(DOMAIN build)

\* What the file records is what ran over it, once and in order.
HistoryStands == RecordTells /\ OnceInOrder
=============================================================================
