------------------------------ MODULE Contract ------------------------------
(***************************************************************************)
(* What stands between a connector and a row of the catalog, as pure       *)
(* operators: how native types are mapped to the catalog's, which payloads *)
(* the agent's own validation drops and which ones the schemas of the API  *)
(* reject.  A rejected entity is left out alone; its batch goes on.        *)
(***************************************************************************)
EXTENDS Integers, Sequences

CONSTANTS Nothing,      \* None, null, a relation or an object that is not there
          WholeBucket   \* the prefix "", which every key starts with
-----------------------------------------------------------------------------
(* Types. *)

\* The names a Postgres type may have, by the bucket they are mapped to.
Buckets ==
    [integer   |-> {"smallint", "integer", "bigint", "int2", "int4", "int8",
                    "serial", "bigserial", "smallserial"},
     float     |-> {"real", "double precision", "numeric", "decimal", "float4", "float8", "money"},
     string    |-> {"character varying", "varchar", "character", "char", "text", "bpchar", "citext"},
     boolean   |-> {"boolean", "bool"},
     timestamp |-> {"timestamp", "timestamp without time zone",
                    "timestamp with time zone", "timestamptz"},
     date      |-> {"date"},
     time      |-> {"time", "time without time zone", "time with time zone", "timetz"},
     json      |-> {"json", "jsonb"},
     uuid      |-> {"uuid"},
     binary    |-> {"bytea"}]

\* A type as format_type() writes it: its name, where it has a modifier in
\* parentheses, as in numeric(10,2) or timestamp(3) without time zone, and
\* whether it is an array.
NativeType == [base : STRING, modifier : {"none", "last", "inside"}, array : BOOLEAN]

\* Only a modifier at the end is stripped: inside the name it hides the name.
normalize_type(t) ==
    LET of == {b \in DOMAIN Buckets : t.modifier # "inside" /\ t.base \in Buckets[b]}
        bucket == IF of = {} THEN "other" ELSE CHOOSE b \in of : TRUE
    IN  IF t.array THEN "array<>" ELSE bucket

\* The types the API knows, of columns and of the fields of a dataset.
ColumnTypes == {"string", "integer", "float", "boolean", "timestamp", "date",
                "binary", "json", "array", "struct", "unknown"}
-----------------------------------------------------------------------------
(* Validation. *)

\* Mutant: the schema has no minimum.
TableAcceptedUnbounded(t) == TRUE

\* pg_class.reltuples is -1 for a relation nobody has analyzed yet.
TableAccepted(t) == t.row_count_estimate = Nothing \/ t.row_count_estimate >= 0

\* A reference whose column could not be resolved has null where a string must be.
ColumnAccepted(c) ==
    /\ normalize_type(c.native_data_type) \in ColumnTypes
    /\ c.foreign_key_ref = Nothing \/ c.foreign_key_ref.column # Nothing

\* The name of a column whose place in the first line of a file is empty.
NoName == ""

\* The agent drops an upsert with an empty required field, and takes the empty
\* prefix for one; the API judges the fields of a dataset like columns, and one
\* unnamed column of a CSV file is enough.
validate_entity(prefix) == prefix # WholeBucket

DatasetAccepted(prefix, d) ==
    /\ validate_entity(prefix)
    /\ d.fields = Nothing \/ \A i \in DOMAIN d.fields :
        d.fields[i].name # NoName /\ d.fields[i].type \in ColumnTypes
=============================================================================
