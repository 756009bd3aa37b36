------------------------------ MODULE MCStore ------------------------------
(***************************************************************************)
(* The writer gate, the store and its migrations.  A behaviour is of one   *)
(* of them: three writers and a reader at the gate; one table with two     *)
(* columns and two keys; and builds that agree, that go on, and that       *)
(* disagree.                                                               *)
(***************************************************************************)
EXTENDS WriterGate, SqliteStore, Migrations

TwoKeys == {<<"a">>, <<"b">>}
TwoColumns == [c |-> {<<"integer", 2>>, <<"text", <<"B">>>>}, d |-> {<<"text", <<"a", "b">>>>}]
CellsOf(c) == TwoColumns[c]
SomeInputs ==
    {<<>>, [c |-> <<"integer", 2>>], [c |-> <<"text", <<"B">>>>, d |-> <<"text", <<"a", "b">>>>],
     [d |-> <<"text", <<"a", "b">>>>], [c |-> <<"null">>], [d |-> <<"null">>]}

Letters == [a |-> 97, b |-> 98, B |-> 66]
Small == [a |-> "a", b |-> "b", B |-> "b"] @@ ("2" :> "2")

Comparisons == {"equal", "not equal", "less", "less or equal", "greater", "greater or equal",
                "contains", "starts with"}
Whole == [conditions |-> {}, sorts |-> <<>>, offset |-> 0, limit |-> 9]
By(column, down) == [column |-> column, down |-> down]

\* One condition, on a column or on the key, which holds texts; or an order
\* and a page.
Asks ==
    {[Whole EXCEPT !.conditions = {[column |-> c, is |-> is, value |-> v]}] :
        c \in {"c", "key"}, is \in Comparisons, v \in {S!Null, <<"text", <<"b">>>>}}
    \cup {[Whole EXCEPT !.conditions = {[column |-> "c", is |-> is, value |-> <<"integer", 2>>]}] :
            is \in Comparisons}
    \cup {[Whole EXCEPT !.sorts = sorts, !.offset = o, !.limit = l] :
            o \in {0, 1}, l \in {1, 9},
            sorts \in {<<>>, <<By("key", TRUE)>>, <<By("c", FALSE), By("key", FALSE)>>,
                       <<By("d", TRUE), By("c", TRUE)>>}}

ThreeBuilds ==
    {1 :> "a", 1 :> "a" @@ 3 :> "c", 1 :> "a" @@ 2 :> "b" @@ 3 :> "c", 1 :> "z" @@ 2 :> "b"}

-----------------------------------------------------------------------------
VARIABLE part

MCVars == <<part, vars, sqliteVars, migrationVars>>

MCInit ==
    /\ part \in {"gate", "store", "migrations"}
    /\ Init /\ SqliteInit /\ MigrationsInit
    /\ part = "migrations" \/ (keeps /\ build = 1 :> "a")

MCNext ==
    /\ UNCHANGED part
    /\ \/ part = "gate" /\ Next /\ UNCHANGED <<sqliteVars, migrationVars>>
       \/ part = "store" /\ SqliteNext /\ UNCHANGED <<vars, migrationVars>>
       \/ part = "migrations" /\ MigrationsNext /\ UNCHANGED <<vars, sqliteVars>>

MCSpec == MCInit /\ [][MCNext]_MCVars /\ SchedulerFairness /\ WorkEnds
=============================================================================
