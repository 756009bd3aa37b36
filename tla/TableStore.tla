---------------------------- MODULE TableStore ----------------------------
(***************************************************************************)
(* What a store promises (engine/storage/store.hpp), as the in-memory      *)
(* store of the tests does it: named tables of rows under text keys, one   *)
(* write transaction at a time that works on a copy of the tables and      *)
(* swaps it in on commit, and the answer every call gives.  A row is the   *)
(* cell of every column; a column never written reads as null.             *)
(***************************************************************************)
EXTENDS Integers, Sequences, SequencesExt

CONSTANTS
    Tables,   \* the tables modules define
    Keys,     \* the keys of rows, which are texts: sequences of letters
    Columns,  \* the columns besides the key
    Cells(_), \* what a column may hold: <<"integer", n>> or <<"text", t>>
    Byte,     \* the code of every letter
    Inputs    \* what calls give, some of Given

VARIABLES
    tables,   \* the committed rows of every table that is defined
    working,  \* the copy the open transaction works on
    open,     \* whether a transaction is open: "no", "yes", or "spoiled"
    answer    \* what the last call answered, and of an update the columns it gave

storeVars == <<tables, working, open, answer>>

Null == <<"null">>
Holdings == UNION {Cells(c) : c \in Columns} \cup {Null}

\* The columns a call gives; the others are not mentioned.
Given ==
    UNION {{given \in [some -> Holdings] : \A c \in some : given[c] \in Cells(c) \cup {Null}}
           : some \in SUBSET Columns}

\* Row::merge: what is given replaces, the rest stays.
Merged(row, given) == [c \in Columns |-> IF c \in DOMAIN given THEN given[c] ELSE row[c]]
Whole(given) == Merged([c \in Columns |-> Null], given)

Put(rows, key, row) == [k \in DOMAIN rows \cup {key} |-> IF k = key THEN row ELSE rows[k]]
Without(rows, key) == Restrict(rows, DOMAIN rows \ {key})

(********************************** calls **********************************)

StoreInit ==
    /\ tables = <<>> /\ working = <<>>
    /\ open = "no"
    /\ answer = <<"none">>

\* A table is defined once; a migration that runs again changes nothing.
Define(t) ==
    /\ open = "no"
    /\ tables' = IF t \in DOMAIN tables THEN tables ELSE Put(tables, t, <<>>)
    /\ answer' = <<"done">>
    /\ UNCHANGED <<working, open>>

\* There is exactly one writer.
Begin ==
    /\ IF open = "no" THEN working' = tables /\ open' = "yes" /\ answer' = <<"done">>
       ELSE answer' = <<"refused">> /\ UNCHANGED <<working, open>>
    /\ UNCHANGED tables

Write(t, rows, told) ==
    /\ working' = [working EXCEPT ![t] = rows]
    /\ answer' = told
    /\ UNCHANGED <<tables, open>>

Insert(t, key, given) ==
    /\ open = "yes" /\ t \in DOMAIN working
    /\ IF key \in DOMAIN working[t] THEN Write(t, working[t], <<"refused">>)
       ELSE Write(t, Put(working[t], key, Whole(given)), <<"done">>)

\* A change to a row that is not there is told, not made.
Change(t, key, row, told) ==
    /\ open = "yes" /\ t \in DOMAIN working
    /\ IF key \notin DOMAIN working[t] THEN Write(t, working[t], <<"absent">>)
       ELSE Write(t, Put(working[t], key, row), told)

Update(t, key, given) ==
    /\ open = "yes" /\ t \in DOMAIN working
    /\ Change(t, key, IF key \in DOMAIN working[t] THEN Merged(working[t][key], given) ELSE Whole(given),
              <<"updated", DOMAIN given>>)

Replace(t, key, given) == Change(t, key, Whole(given), <<"done">>)

RemoveRow(t, key) ==
    /\ open = "yes" /\ t \in DOMAIN working
    /\ Write(t, Without(working[t], key), IF key \in DOMAIN working[t] THEN <<"done">> ELSE <<"absent">>)

\* Reads within the transaction see what it wrote, others what is committed.
Find(t, key) ==
    LET seen == IF open = "yes" THEN working ELSE tables
    IN /\ open # "spoiled" /\ t \in DOMAIN seen
       /\ answer' = IF key \in DOMAIN seen[t] THEN <<"found", seen[t][key]>> ELSE <<"absent">>
       /\ UNCHANGED <<tables, working, open>>

Commit ==
    /\ open = "yes"
    /\ tables' = working /\ working' = <<>>
    /\ open' = "no"
    /\ answer' = <<"done">>

Abandon(told) ==
    /\ working' = <<>> /\ open' = "no"
    /\ answer' = told
    /\ UNCHANGED tables

Rollback == open # "no" /\ Abandon(<<"done">>)

\* A store may fail: a transaction one of whose calls fails can only be rolled
\* back, a commit that fails is a rollback, a crash leaves what was committed.
Fail ==
    /\ open' = IF open = "no" THEN "no" ELSE "spoiled"
    /\ working' = <<>>
    /\ answer' = <<"failed">>
    /\ UNCHANGED tables
CommitFails == open = "yes" /\ Abandon(<<"failed">>)
Crash == Abandon(<<"none">>)

Call(t, key) ==
    \/ Find(t, key)
    \/ /\ open = "yes"
       /\ \/ RemoveRow(t, key)
          \/ \E given \in Inputs : Insert(t, key, given) \/ Update(t, key, given) \/ Replace(t, key, given)

StoreNext ==
    \/ \E t \in Tables : Define(t) \/ \E key \in Keys : Call(t, key)
    \/ Begin \/ Commit \/ Rollback \/ Fail \/ CommitFails \/ Crash

StoreSpec == StoreInit /\ [][StoreNext]_storeVars

(********************************* queries *********************************)

\* A query has conditions [column, is, value], all of which hold of the rows it
\* answers with; sorts [column, down], the first named first; an offset and a
\* limit.

\* What a row holds in a column: its key, or null where nothing was written.
CellOf(rows, key, column) ==
    IF column = "key" THEN <<"text", key>>
    ELSE IF column \in Columns THEN rows[key][column] ELSE Null

\* Texts are ordered byte by byte.
TextBefore(a, b) ==
    \E i \in 1 .. Len(b) :
        /\ \A j \in 1 .. i - 1 : j <= Len(a) /\ a[j] = b[j]
        /\ i <= Len(a) => Byte[a[i]] < Byte[b[i]]

\* Null comes before numbers, numbers before texts.
Rank(cell) == CASE cell[1] = "null" -> 0 [] cell[1] = "integer" -> 1 [] cell[1] = "text" -> 2
Before(a, b) ==
    CASE Rank(a) # Rank(b) -> Rank(a) < Rank(b)
      [] a[1] = "null" -> FALSE
      [] a[1] = "integer" -> a[2] < b[2]
      [] a[1] = "text" -> TextBefore(a[2], b[2])

Within(needle, text, starts) ==
    \E i \in 0 .. (IF starts THEN 0 ELSE Len(text)) : IsPrefix(needle, SubSeq(text, i + 1, Len(text)))

\* Null satisfies no ordering; only texts contain a text.
Holds(cell, is, value) ==
    LET known == cell # Null /\ value # Null
        texts == Rank(cell) = 2 /\ Rank(value) = 2
    IN CASE is = "equal" -> cell = value
         [] is = "not equal" -> cell # value
         [] is = "less" -> known /\ Before(cell, value)
         [] is = "less or equal" -> known /\ ~Before(value, cell)
         [] is = "greater" -> known /\ Before(value, cell)
         [] is = "greater or equal" -> known /\ ~Before(cell, value)
         [] is = "contains" -> texts /\ Within(value[2], cell[2], FALSE)
         [] is = "starts with" -> texts /\ Within(value[2], cell[2], TRUE)

Matching(rows, q) ==
    {key \in DOMAIN rows : \A c \in q.conditions : Holds(CellOf(rows, key, c.column), c.is, c.value)}

\* The first sort that tells two rows apart decides.
Precedes(rows, sorts, x, y) ==
    LET First(s, a, b) == IF s.down THEN Before(CellOf(rows, b, s.column), CellOf(rows, a, s.column))
                                    ELSE Before(CellOf(rows, a, s.column), CellOf(rows, b, s.column))
    IN \E i \in DOMAIN sorts : /\ First(sorts[i], x, y)
                              /\ \A j \in 1 .. i - 1 : ~First(sorts[j], x, y) /\ ~First(sorts[j], y, x)

Page(keys, q) == SubSeq(keys, q.offset + 1, IF Len(keys) < q.offset + q.limit THEN Len(keys)
                                                                            ELSE q.offset + q.limit)

\* Rows no sort tells apart stay in the order of their keys.
Answer(rows, q) ==
    Page(SetToSortSeq(Matching(rows, q),
             LAMBDA x, y : Precedes(rows, q.sorts, x, y)
                           \/ (~Precedes(rows, q.sorts, y, x) /\ TextBefore(x, y))), q)
=============================================================================
