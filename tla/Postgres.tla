------------------------------ MODULE Postgres ------------------------------
(***************************************************************************)
(* The Postgres connector (data-plane/connectors/postgres/) and the        *)
(* database under it.  The connection is in autocommit mode: each query of *)
(* a scrape sees the database as it is at that moment, while anybody may   *)
(* create, rename, swap, alter and drop tables between two queries.        *)
(***************************************************************************)
EXTENDS Connector

CONSTANTS Included,     \* the schemas LIST_SCHEMAS and include_schemas let through
          Column,       \* the columns a table may have
          Rows,         \* row counts of analyzed tables
          NewTable      \* the tables somebody may create

\* A relation has an oid, its position in db, which is never used again once it
\* is dropped, and so has a column its attnum, its position in cols.
Relation == [name : TableUrn,
             reltuples : Rows \cup {-1, Nothing},   \* Nothing for a view
             cols : Seq(Column \cup {Nothing})]

\* A column is in its relation's primary key or not, and may refer to a column of
\* a relation by their numbers.
Released(c) == [c EXCEPT !.fk = Nothing]

ColumnsOf(r) == {a \in DOMAIN r.cols : r.cols[a] # Nothing}

OneOfEach(r) == \A a, b \in ColumnsOf(r) : r.cols[a].name = r.cols[b].name => a = b

\* What Postgres sees to: names are unique, of relations and of the columns of each,
\* and references lead to a column that is there.
Consistent(d) ==
    LET oids == {o \in DOMAIN d : d[o] # Nothing} IN
    /\ \A o, r \in oids : d[o].name = d[r].name => o = r
    /\ \A o \in oids :
         /\ OneOfEach(d[o])
         /\ \A a \in ColumnsOf(d[o]) :
              LET fk == d[o].cols[a].fk IN
              fk # Nothing => fk.oid \in oids /\ fk.attnum \in ColumnsOf(d[fk.oid])

ASSUME PostgresAssumption ==
    /\ Included \subseteq Schema
    /\ Rows \subseteq Nat
    /\ Nothing \notin Label /\ Nothing \notin Column /\ Nothing \notin Relation
    /\ Column \subseteq [name : Label, type : NativeType, pk : BOOLEAN,
                        fk : {Nothing} \cup [oid : Nat, attnum : Nat]]
    /\ \A c \in Column : Released(c) \in Column
    /\ NewTable \subseteq Relation

VARIABLES db,   \* the relations by oid
          p     \* the memory of discover()

\* schemas: still to list; rows: of LIST_TABLES, still to visit; row: the table
\* being read; names: its columns' names by attnum; pk, fks: of its constraints,
\* the latter with their targets still to resolve; refs: the resolved ones.
AtRest == [schemas |-> {}, rows |-> {}, row |-> Nothing, names |-> <<>>,
           pk |-> {}, fks |-> {}, refs |-> {}]

Oids == {o \in DOMAIN db : db[o] # Nothing}

Attnums(o) == IF o \in Oids THEN {a \in DOMAIN db[o].cols : db[o].cols[a] # Nothing} ELSE {}

Relations(s) == {o \in Oids : db[o].name[1] = s}
-----------------------------------------------------------------------------
(* The scrape. *)

ConnectPostgres ==
    /\ Connect("tables")
    /\ p' = [AtRest EXCEPT !.schemas = Included]
    /\ UNCHANGED db

\* Mutant: only what is ordinary is listed.
ListTablesAnalyzed ==
    /\ pc = "tables"
    /\ p.rows = {} /\ p.schemas # {}
    /\ LET s == CHOOSE s \in p.schemas : TRUE IN
       p' = [p EXCEPT !.schemas = @ \ {s},
                      !.rows = {[oid |-> o, name |-> db[o].name, reltuples |-> db[o].reltuples] :
                                  o \in {r \in Relations(s) : db[r].reltuples # Nothing}}]
    /\ UNCHANGED <<pc, cursors, catalog, counts, db>>

\* One schema after the other, and in it one relation after the other: in some
\* order that does not change.
ListTables ==
    /\ pc = "tables"
    /\ p.rows = {} /\ p.schemas # {}
    /\ LET s == CHOOSE s \in p.schemas : TRUE IN
       p' = [p EXCEPT !.schemas = @ \ {s},
                      !.rows = {[oid |-> o, name |-> db[o].name, reltuples |-> db[o].reltuples] :
                                  o \in Relations(s)}]
    /\ UNCHANGED <<pc, cursors, catalog, counts, db>>

\* The relation counts as met before anything else is asked about it.
ListAttnames ==
    /\ pc = "tables"
    /\ p.rows # {}
    /\ LET r == CHOOSE r \in p.rows : TRUE IN
       /\ p' = [p EXCEPT !.rows = @ \ {r}, !.row = r,
                         !.names = IF r.oid \in Oids
                                      THEN [a \in DOMAIN db[r.oid].cols |->
                                              IF a \in Attnums(r.oid) THEN db[r.oid].cols[a].name
                                              ELSE Nothing]
                                      ELSE <<>>]
       /\ seen' = [seen EXCEPT !.table = @ \cup {r.name}]
    /\ pc' = "constraints"
    /\ UNCHANGED <<saved, known, catalog, counts, db>>

\* The name a number had when the names were read, if any.
NameOf(names, a) == IF a \in DOMAIN names THEN names[a] ELSE Nothing

\* The keys of the relation o, by the names that were read before.
primary_key(o) == {NameOf(p.names, a) : a \in {b \in Attnums(o) : db[o].cols[b].pk}} \ {Nothing}

foreign_key(o, a) ==
    [local |-> NameOf(p.names, a), table |-> db[db[o].cols[a].fk.oid].name, ref |-> db[o].cols[a].fk]

foreign_keys(o) ==
    {foreign_key(o, a) : a \in {b \in Attnums(o) : db[o].cols[b].fk # Nothing /\ NameOf(p.names, b) # Nothing}}

\* Mutant: keys are looked up in the names one further.
ListConstraintsShifted ==
    /\ pc = "constraints"
    /\ LET o == p.row.oid IN
       p' = [p EXCEPT !.pk = {NameOf(p.names, a + 1) : a \in {b \in Attnums(o) : db[o].cols[b].pk}}
                                   \ {Nothing},
                      !.fks = foreign_keys(o)]
    /\ pc' = "references"
    /\ UNCHANGED <<cursors, catalog, counts, db>>

ListConstraints ==
    /\ pc = "constraints"
    /\ p' = [p EXCEPT !.pk = primary_key(p.row.oid), !.fks = foreign_keys(p.row.oid)]
    /\ pc' = "references"
    /\ UNCHANGED <<cursors, catalog, counts, db>>

\* The names of a referenced relation's columns: it may have lost them, or have
\* been dropped, after the constraints were read.
resolved(f) ==
    [local |-> f.local, table |-> f.table,
     column |-> IF f.ref.attnum \in Attnums(f.ref.oid) THEN db[f.ref.oid].cols[f.ref.attnum].name
                ELSE Nothing]

ResolveReference ==
    /\ pc = "references"
    /\ p.fks # {}
    /\ LET f == CHOOSE f \in p.fks : TRUE IN
       p' = [p EXCEPT !.fks = @ \ {f}, !.refs = @ \cup {resolved(f)}]
    /\ UNCHANGED <<pc, cursors, catalog, counts, db>>

foreign_key_ref(label) ==
    LET found == {r \in p.refs : r.local = label} IN
    IF found = {} THEN Nothing
    ELSE LET r == CHOOSE r \in found : TRUE IN [table |-> r.table, column |-> r.column]

_table_to_normalized == [row_count_estimate |-> p.row.reltuples]

_column_to_normalized(o, a) ==
    LET c == db[o].cols[a] IN
    [ordinal_position |-> a, native_data_type |-> c.type,
     is_primary_key |-> c.name \in p.pk, foreign_key_ref |-> foreign_key_ref(c.name)]

_column_urn(o, a) == <<p.row.name, db[o].cols[a].name>>

\* The columns, by oid but under the name the relation had when it was listed;
\* a relation dropped by now has none.  The table and its columns are recorded
\* by the cursor and delivered, those the API accepts.
ListColumns ==
    /\ pc = "references"
    /\ p.fks = {}
    /\ LET o == p.row.oid
           t == p.row.name
           found == {_column_urn(o, a) : a \in Attnums(o)}
       IN /\ seen' = [seen EXCEPT !.column = @ \cup found]
          /\ known' = [known EXCEPT !.table = @ \cup {t}, !.column = @ \cup found]
          /\ tables' = IF TableAccepted(_table_to_normalized)
                       THEN [tables EXCEPT ![t] = _table_to_normalized] ELSE tables
          /\ columns' = [u \in ColumnUrn |->
                           LET as == {a \in Attnums(o) :
                                        _column_urn(o, a) = u /\ ColumnAccepted(_column_to_normalized(o, a))}
                           IN  IF as = {} THEN columns[u]
                               ELSE _column_to_normalized(o, CHOOSE a \in as : TRUE)]
    /\ p' = [AtRest EXCEPT !.schemas = p.schemas, !.rows = p.rows]
    /\ pc' = "tables"
    /\ UNCHANGED <<saved, datasets, counts, db>>

\* Everything has been listed.
ListedTables ==
    /\ pc = "tables"
    /\ p.schemas = {} /\ p.rows = {}
    /\ pc' = "diff"
    /\ UNCHANGED <<cursors, catalog, counts, db, p>>

DiscoverTables == ListTables \/ ListAttnames \/ ListConstraints \/ ResolveReference
                  \/ ListColumns \/ ListedTables
-----------------------------------------------------------------------------
(* The database. *)

Free(n) == \A o \in Oids : db[o].name # n

\* A relation without the references whose target is not there any more.
Cascaded(d, r) ==
    LET Dangling(c) == c # Nothing /\ c.fk # Nothing
                       /\ (d[c.fk.oid] = Nothing \/ d[c.fk.oid].cols[c.fk.attnum] = Nothing)
    IN  [r EXCEPT !.cols = [a \in DOMAIN r.cols |->
            IF Dangling(r.cols[a]) THEN Released(r.cols[a]) ELSE r.cols[a]]]

Cascade(d) == [o \in DOMAIN d |-> IF d[o] = Nothing THEN Nothing ELSE Cascaded(d, d[o])]

CreateTable ==
    \E r \in NewTable : Consistent(Append(db, r)) /\ db' = Append(db, r)

DropTable == \E o \in Oids : db' = Cascade([db EXCEPT ![o] = Nothing])

\* Another name, in the same schema or in another.
RenameTable == \E o \in Oids, n \in TableUrn : Free(n) /\ db' = [db EXCEPT ![o].name = n]

\* In one transaction, a table is dropped and another takes its name.
ReplaceTable ==
    \E o, other \in Oids : o # other /\
        db' = Cascade([db EXCEPT ![o] = Nothing, ![other].name = db[o].name])

\* Columns of a relation have different names and refer to what is there.
MayHave(o, c, but) ==
    /\ \A a \in Attnums(o) \ but : db[o].cols[a].name # c.name
    /\ c.fk # Nothing => c.fk.attnum \in Attnums(c.fk.oid)

AddColumn ==
    \E o \in Oids, c \in Column : MayHave(o, c, {}) /\ db' = [db EXCEPT ![o].cols = Append(@, c)]

AlterColumn ==
    \E o \in Oids, c \in Column : \E a \in Attnums(o) :
        /\ MayHave(o, c, {a}) /\ c # db[o].cols[a]
        /\ db' = [db EXCEPT ![o].cols[a] = c]

DropColumn ==
    \E o \in Oids : \E a \in Attnums(o) : db' = Cascade([db EXCEPT ![o].cols[a] = Nothing])

Analyze ==
    \E o \in Oids, n \in Rows :
        /\ db[o].reltuples \notin {Nothing, n}
        /\ db' = [db EXCEPT ![o].reltuples = n]

ChangeDatabase ==
    /\ Drifts
    /\ \/ CreateTable \/ DropTable \/ RenameTable \/ ReplaceTable
       \/ AddColumn \/ AlterColumn \/ DropColumn \/ Analyze
    /\ UNCHANGED p
-----------------------------------------------------------------------------
\* What a scrape of the database at rest finds.
TablesHere == {db[o].name : o \in {r \in Oids : db[r].name[1] \in Included}}
=============================================================================
