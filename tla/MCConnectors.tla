---------------------------- MODULE MCConnectors ----------------------------
(***************************************************************************)
(* A small database and a small bucket for TLC.                            *)
(***************************************************************************)
EXTENDS Connectors, TLC

CONSTANTS public, sales, hidden,   \* schemas
          orders, items,    \* tables
          x, y,             \* columns
          logs              \* a prefix

Type(base, modifier, array) == [base |-> base, modifier |-> modifier, array |-> array]
Bare(base) == Type(base, "none", FALSE)

Col(n, type, pk, fk) == [name |-> n, type |-> type, pk |-> pk, fk |-> fk]
Id == Col(x, Bare("bigint"), TRUE, Nothing)
Code == Col(y, Type("character varying", "last", FALSE), FALSE, Nothing)
Uuid == Col(y, Bare("uuid"), FALSE, Nothing)
Ref == Col(y, Type("character varying", "last", FALSE), FALSE, [oid |-> 1, attnum |-> 1])

MCColumn == {Id, Code, Uuid, Ref}
MCRows == {5}
MCNewTable == {[name |-> <<sales, items>>, reltuples |-> Nothing, cols |-> <<Code>>]}

\* A table, and another that refers to it.
MCDatabases ==
    {<<[name |-> <<public, orders>>, reltuples |-> 5, cols |-> <<Id, Code>>],
       [name |-> <<public, items>>, reltuples |-> -1, cols |-> <<Id, Ref>>]>>}

\* 1: logs/, 2: logs/_SUCCESS, 3: logs/d=1/a.csv.gz, 4: logs/d=1/e=2/b.parquet, 5: other.csv
MCFileName == <<<<"">>, <<"_SUCCESS">>, <<"a", "csv", "gz">>, <<"b", "parquet">>, <<"other", "csv">>>>
MCUnder == logs :> 1..4 @@ WholeBucket :> 1..5
MCFolders == [prefix \in {logs, WholeBucket} |-> <<<<>>, <<>>, <<"d">>, <<"d", "e">>, <<>>>>]
MCMarker == {1}
MCPrefixes == <<WholeBucket, logs>>

Text(names, values) == [kind |-> "text", cut |-> FALSE, names |-> names, values |-> values]
Parquet(cut, types) == [kind |-> "parquet", cut |-> cut, names |-> SubSeq(<<"a", "b">>, 1, Len(types)),
                        values |-> types]
Csv == Text(<<"a", "b">>, <<"1">>)
Unnamed == Text(<<"a", "">>, <<>>)
Flat == Parquet(FALSE, <<"int64">>)
Deep == Parquet(FALSE, <<"int64", "list">>)
Long == Parquet(TRUE, <<"int64">>)
MCObject == {Csv, Unnamed, Flat, Deep, Long}
MCContents == {<<Nothing, Nothing, Csv, Flat, Csv>>, <<Csv, Nothing, Nothing, Flat, Nothing>>}
=============================================================================
