---------------------------- MODULE SqliteStore ----------------------------
(***************************************************************************)
(* The store the shop runs on (engine/storage/sqlite_store.cpp): the same  *)
(* calls translated into SQL on one connection.  A table is created with   *)
(* its key alone and columns are added as rows introduce them; which       *)
(* columns exist is remembered in the process, what exists is in the file. *)
(* Row keys are text, as every repository gives them.  The behaviour of    *)
(* SQLite itself is modelled from how this file uses it.                   *)
(***************************************************************************)
EXTENDS Integers, Sequences, SequencesExt, TLC

CONSTANTS
    Tables, Keys, Columns, Cells(_), Byte, Inputs,  \* as in TableStore
    Lower,   \* the small letter of every letter
    Queries  \* the queries asked

VARIABLES
    file,    \* the database file: the rows and the columns of every table
    work,    \* the file as the open transaction sees it
    open,    \* whether a transaction is open: "no", "yes", or "spoiled"
    known,   \* the columns this process believes every table has
    answer   \* what the last call answered

sqliteVars == <<file, work, open, known, answer>>

S == INSTANCE TableStore
        WITH tables <- file.rows, working <- IF open = "yes" THEN work.rows ELSE <<>>

ASSUME SqliteAssumption == Inputs \subseteq S!Given

SqliteInit ==
    /\ file = [rows |-> <<>>, columns |-> <<>>] /\ work = file
    /\ open = "no"
    /\ known = <<>>
    /\ answer = <<"none">>

\* Keys that a table of this process has; a table is created outside any transaction.
Define(t) ==
    /\ open = "no"
    /\ IF t \in DOMAIN known THEN UNCHANGED <<file, known>>
       ELSE /\ file' = IF t \in DOMAIN file.rows THEN file
                       ELSE [rows |-> S!Put(file.rows, t, <<>>), columns |-> S!Put(file.columns, t, {})]
            /\ known' = S!Put(known, t, {})
    /\ answer' = <<"done">>
    /\ UNCHANGED <<work, open>>

Begin ==
    /\ IF open = "no" THEN work' = file /\ open' = "yes" /\ answer' = <<"done">>
       ELSE answer' = <<"refused">> /\ UNCHANGED <<work, open>>
    /\ UNCHANGED <<file, known>>

Calls(t) == open = "yes" /\ t \in DOMAIN known

Tells(told) == answer' = told /\ UNCHANGED <<file, work, open, known>>

Spoil == open' = "spoiled" /\ answer' = <<"failed">>

\* ensure_columns: every column the process does not know is added, in the
\* transaction; the process remembers it at once.
New(t, given) == given \ known[t]
Altered(t, given) == work.columns[t] \cup New(t, given)

\* What the process remembers but the file does not have makes the statement
\* fail to prepare.
Preparable(t, given) == given \subseteq Altered(t, given)

WriteRow(t, rows, key, given, row, told) ==
    /\ known' = [known EXCEPT ![t] = @ \cup given]
    /\ work' = [rows |-> IF Preparable(t, given) THEN [work.rows EXCEPT ![t] = S!Put(rows, key, row)]
                         ELSE [work.rows EXCEPT ![t] = rows],
                columns |-> [work.columns EXCEPT ![t] = Altered(t, given)]]
    /\ IF Preparable(t, given) THEN answer' = told /\ UNCHANGED open ELSE Spoil
    /\ UNCHANGED file

Insert(t, key, given) ==
    /\ Calls(t)
    /\ IF key \in DOMAIN work.rows[t] THEN Tells(<<"refused">>)
       ELSE WriteRow(t, work.rows[t], key, DOMAIN given, S!Whole(given), <<"done">>)

UpdateForgetting(t, key, given) ==
    /\ Calls(t)
    /\ IF key \notin DOMAIN work.rows[t] THEN Tells(<<"absent">>)
       ELSE WriteRow(t, work.rows[t], key, DOMAIN given, S!Whole(given),
                     <<"updated", DOMAIN given>>)

\* Merged over the row as it was read: every column the table has is written.
Update(t, key, given) ==
    /\ Calls(t)
    /\ IF key \notin DOMAIN work.rows[t] THEN Tells(<<"absent">>)
       ELSE WriteRow(t, work.rows[t], key, work.columns[t] \cup DOMAIN given,
                     S!Merged(work.rows[t][key], given), <<"updated", DOMAIN given>>)

\* Removed and written again: the columns not given become null.
Replace(t, key, given) ==
    /\ Calls(t)
    /\ IF key \notin DOMAIN work.rows[t] THEN Tells(<<"absent">>)
       ELSE WriteRow(t, S!Without(work.rows[t], key), key, DOMAIN given, S!Whole(given), <<"done">>)

RemoveRow(t, key) ==
    /\ Calls(t)
    /\ IF key \notin DOMAIN work.rows[t] THEN Tells(<<"absent">>)
       ELSE /\ work' = [work EXCEPT !.rows[t] = S!Without(@, key)]
            /\ answer' = <<"done">>
            /\ UNCHANGED <<file, open, known>>

\* One connection: a read sees what the open transaction wrote.
Seen == IF open = "yes" THEN work ELSE file

Find(t, key) ==
    /\ open # "spoiled" /\ t \in DOMAIN known
    /\ Tells(IF key \in DOMAIN Seen.rows[t] THEN <<"found", Seen.rows[t][key]>> ELSE <<"absent">>)

CommitWork ==
    /\ open = "yes"
    /\ file' = work
    /\ open' = "no"
    /\ answer' = <<"done">>
    /\ UNCHANGED <<work, known>>

\* Rolling back takes the added columns away again; the process still
\* remembers them.
Abandon(told) ==
    /\ open' = "no"
    /\ answer' = told
    /\ UNCHANGED <<file, work, known>>

Rollback == open # "no" /\ Abandon(<<"done">>)

\* COMMIT throws, and the destructor rolls back.
CommitFails == open = "yes" /\ Abandon(<<"failed">>)

\* The disk fails under a statement.
Fail ==
    /\ open' = IF open = "no" THEN "no" ELSE "spoiled"
    /\ answer' = <<"failed">>
    /\ UNCHANGED <<file, work, known>>

\* The process dies and the file is opened again: load_schema reads the
\* columns the file has, and what was committed is there (synchronous = FULL).
Crash ==
    /\ known' = file.columns
    /\ open' = "no"
    /\ answer' = <<"none">>
    /\ UNCHANGED <<file, work>>

Call(t, key) ==
    \/ Find(t, key)
    \/ /\ open = "yes"
       /\ \/ RemoveRow(t, key)
          \/ \E given \in Inputs : Insert(t, key, given) \/ Update(t, key, given) \/ Replace(t, key, given)

SqliteNext ==
    \/ \E t \in Tables : Define(t) \/ \E key \in Keys : Call(t, key)
    \/ Begin \/ CommitWork \/ Rollback \/ Fail \/ CommitFails \/ Crash

SqliteSpec == SqliteInit /\ [][SqliteNext]_sqliteVars

(********************************* queries *********************************)

\* A number is matched as the text it is written as, a value that is no text
\* as the empty text, and letters whatever their case.
LikeText(cell) == IF cell[1] = "integer" THEN <<ToString(cell[2])>> ELSE cell[2]
Needle(value) == IF value[1] = "text" THEN value[2] ELSE <<>>
Folded(text) == [i \in DOMAIN text |-> Lower[text[i]]]
Like(cell, value, starts) ==
    cell # S!Null /\ S!Within(Folded(Needle(value)), Folded(LikeText(cell)), starts)

\* <> instead of IS NOT.
SqlHoldsUnlessNull(cell, c, exists) ==
    CASE exists /\ c.is = "contains" -> Like(cell, c.value, FALSE)
      [] exists /\ c.is = "starts with" -> Like(cell, c.value, TRUE)
      [] OTHER -> cell # S!Null /\ S!Holds(cell, c.is, c.value)

\* A column the process does not know is null in every row.
SqlHolds(cell, c, exists) ==
    CASE ~exists -> \/ c.is = "equal" /\ c.value = S!Null
                    \/ c.is = "not equal" /\ c.value # S!Null
      [] exists /\ c.is = "contains" -> Like(cell, c.value, FALSE)
      [] exists /\ c.is = "starts with" -> Like(cell, c.value, TRUE)
      [] OTHER -> S!Holds(cell, c.is, c.value)

Exists(t, column) == column = "key" \/ column \in known[t]

SqlMatching(t, rows, q) ==
    {key \in DOMAIN rows :
        \A c \in q.conditions : SqlHolds(S!CellOf(rows, key, c.column), c, Exists(t, c.column))}

\* Sorts by unknown columns are left out; rows no sort tells apart come in
\* any order.
SqlAnswers(t, rows, q) ==
    LET sorts == SelectSeq(q.sorts, LAMBDA s : Exists(t, s.column))
        Ordered(keys) == \A i, j \in DOMAIN keys : i < j => ~S!Precedes(rows, sorts, keys[j], keys[i])
    IN {S!Page(keys, q) : keys \in {k \in SetToSeqs(SqlMatching(t, rows, q)) : Ordered(k)}}

\* A query that names a column the process remembers and the file does not
\* have is not one the two stores can agree on.
Asked(q) == {c.column : c \in q.conditions} \cup {q.sorts[i].column : i \in DOMAIN q.sorts}
CanAsk(t, q) == \A column \in Asked(q) \cap Columns : column \in known[t] => column \in file.columns[t]

(******************************* properties ********************************)

TextSearch(q) == \E c \in q.conditions : c.is \in {"contains", "starts with"}

\* A column that exists is known, so none is ever added twice.
NoColumnTwice ==
    \A t \in DOMAIN known :
        (IF open = "yes" THEN work ELSE file).columns[t] \subseteq known[t]

\* A query answers the same from both stores ("the two agree without help",
\* SqliteStore::select): the same rows in the same order where the sorts tell
\* them apart, and never fewer rows where a text is searched for, which SQLite
\* does whatever the case.
AnswersAgree ==
    open = "no" => \A t \in DOMAIN known : \A q \in Queries :
        LET rows == file.rows[t]
        IN CanAsk(t, q) =>
            IF TextSearch(q) THEN S!Matching(rows, q) \subseteq SqlMatching(t, rows, q)
            ELSE /\ S!Answer(rows, q) \in SqlAnswers(t, rows, q)
                 /\ "key" \in {q.sorts[i].column : i \in DOMAIN q.sorts}
                        => SqlAnswers(t, rows, q) = {S!Answer(rows, q)}

\* Statements can be prepared and answer as the in-memory store does
\* (sqlite_store.cpp, ensure_columns and select).
QueriesAgree == NoColumnTwice /\ AnswersAgree

\* The SQL store keeps the promises of the in-memory one: every call changes
\* the tables and answers as there, and what a rollback, a failing commit or a
\* crash leaves is what was committed.
KeepsPromises == S!StoreSpec
=============================================================================
