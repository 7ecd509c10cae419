----------------------------- MODULE Connectors -----------------------------
(***************************************************************************)
(* Scrape after scrape of one source connection, of either kind, and what  *)
(* the catalog makes of it: a connector, its source, the cursor and the    *)
(* validation between it and the rows.                                     *)
(***************************************************************************)
EXTENDS Postgres, S3

CONSTANTS Databases, Contents   \* what the sources hold at first

ASSUME ConnectorsAssumption ==
    /\ Databases \subseteq Seq(Relation)
    /\ \A d \in Databases : Consistent(d)
    /\ Contents \subseteq [Key -> Object \cup {Nothing}]

VARIABLES kind,           \* connector_type of the connection
          calm,           \* history: this scrape ran undisturbed, up to now
          ever, always    \* history: what was there at some, at every moment of it

history == <<calm, ever, always>>
vars == <<pc, cursors, catalog, counts, db, p, bucket, q, kind, history>>

Here == [table |-> TablesHere, dataset |-> DatasetsHere]

\* The registry builds the connector of the connection's type.
Init ==
    /\ InitConnector
    /\ \/ kind = "postgres" /\ db \in Databases /\ bucket = [k \in Key |-> Nothing]
       \/ kind = "s3" /\ db = <<>> /\ bucket \in Contents
    /\ p = AtRest /\ q = Unlisted
    /\ calm = FALSE /\ ever = Here /\ always = Here
-----------------------------------------------------------------------------
Begins == calm' = TRUE /\ ever' = Here /\ always' = Here

GoesOn == calm' = (calm /\ fails' = fails) /\ UNCHANGED <<ever, always>>

Changes ==
    /\ calm' = FALSE
    /\ ever' = [table |-> ever.table \cup TablesHere', dataset |-> ever.dataset \cup DatasetsHere']
    /\ always' = [table |-> always.table \cap TablesHere',
                  dataset |-> always.dataset \cap DatasetsHere']

ScrapePostgres ==
    \/ ConnectPostgres /\ Begins
    \/ DiscoverTables /\ GoesOn
    \/ (Tombstone \/ Save) /\ UNCHANGED <<db, p>> /\ GoesOn

NextPostgres ==
    \/ ScrapePostgres
    \/ Fail /\ p' = AtRest /\ UNCHANGED db /\ GoesOn
    \/ ChangeDatabase /\ Changes

ScrapeS3 ==
    \/ ConnectS3 /\ Begins
    \/ DiscoverDatasets /\ GoesOn
    \/ (Tombstone \/ Save) /\ UNCHANGED <<bucket, q>> /\ GoesOn

NextS3 ==
    \/ ScrapeS3
    \/ Fail /\ q' = Unlisted /\ UNCHANGED bucket /\ GoesOn
    \/ ChangeBucket /\ Changes

Scrape ==
    \/ kind = "postgres" /\ UNCHANGED <<kind, bucket, q>> /\ ScrapePostgres
    \/ kind = "s3" /\ UNCHANGED <<kind, db, p>> /\ ScrapeS3

Next ==
    \/ kind = "postgres" /\ UNCHANGED <<kind, bucket, q>> /\ NextPostgres
    \/ kind = "s3" /\ UNCHANGED <<kind, db, p>> /\ NextS3

Spec == Init /\ [][Next]_vars

\* The scheduler starts one scrape after the other, and queries return or fail.
FairSpec == Spec /\ WF_vars(Scrape)
-----------------------------------------------------------------------------
(* Types. *)

Reference == [table : TableUrn, column : Label \cup {Nothing}]

TableRow == [row_count_estimate : Rows \cup {Nothing}]

TypeOK ==
    /\ pc \in {"idle", "tables", "constraints", "references", "prefixes", "sniff", "diff", "save"}
    /\ kind \in {"postgres", "s3"}
    /\ saved \in Cursor /\ known \in Cursor /\ seen \in Cursor
    /\ tables \in [TableUrn -> TableRow \cup {Nothing}]
    /\ DOMAIN columns = ColumnUrn /\ DOMAIN datasets = Prefix
    /\ \A u \in ColumnUrn : columns[u] # Nothing => ColumnAccepted(columns[u])
    /\ \A u \in Prefix : datasets[u] # Nothing => DatasetAccepted(u, datasets[u])
    /\ db \in Seq(Relation \cup {Nothing})
    /\ bucket \in [Key -> Object \cup {Nothing}]
    /\ ever.table \subseteq TableUrn /\ always.table \subseteq TableUrn
    /\ calm \in BOOLEAN /\ drift \in Nat /\ fails \in Nat
-----------------------------------------------------------------------------
(* What must hold. *)

ColumnsHere == UNION {{<<db[o].name, db[o].cols[a].name>> : a \in Attnums(o)} :
                        o \in {r \in Oids : db[r].name[1] \in Included}}

\* Where a reference leads, by the present names.
Target(fk) == [table |-> db[fk.oid].name, column |-> db[fk.oid].cols[fk.attnum].name]

\* What a reader should be told of a column, its own keys included.
ColumnHere(o, a) ==
    LET c == db[o].cols[a] IN
    [ordinal_position |-> a, native_data_type |-> c.type, is_primary_key |-> c.pk,
     foreign_key_ref |-> IF c.fk = Nothing THEN Nothing ELSE Target(c.fk)]

TableIsShown(o) ==
    /\ db[o].reltuples # -1 => tables[db[o].name] = [row_count_estimate |-> db[o].reltuples]
    /\ \A a \in Attnums(o) :
         normalize_type(db[o].cols[a].type) \in ColumnTypes =>
             columns[<<db[o].name, db[o].cols[a].name>>] = ColumnHere(o, a)

TablesAreShown == \A o \in Oids : db[o].name[1] \in Included => TableIsShown(o)

Objects(prefix) == Present(prefix) \ Marker

\* What a reader should be told of a dataset with the objects ks: how many there are,
\* the format and the partitions of the first sample_limit, the fields of the first.
DatasetIs(d, prefix, ks) ==
    LET sampled == {k \in ks : Cardinality({j \in ks : j < k}) < sample_limit}
        formats == {detect_format_from_key(FileName[k]) : k \in sampled} \ {"unknown"}
    IN  /\ d.object_count_estimate = Cardinality(ks)
        /\ d.file_format = IF formats = {} THEN "unknown"
                           ELSE IF Cardinality(formats) = 1 THEN CHOOSE f \in formats : TRUE
                           ELSE "mixed"
        /\ ToSet(d.partition_keys) = UNION {ToSet(Folders[prefix][k]) : k \in sampled}
        /\ IsInjective(d.partition_keys)
        /\ d.fields = _infer_fields(d.file_format, bucket[Min(ks)])

\* An object whose fields no schema objects to, should they be inferred.
Plain(o) ==
    /\ \A i \in DOMAIN o.names : o.names[i] # NoName
    /\ o.kind = "parquet" => \A i \in DOMAIN o.values :
                               \E b \in DOMAIN ParquetTypes : o.values[i] \in ParquetTypes[b]

DatasetIsShown(prefix) ==
    LET ks == Objects(prefix) IN
    ks # {} /\ prefix # WholeBucket /\ Plain(bucket[Min(ks)]) =>
        datasets[prefix] # Nothing /\ DatasetIs(datasets[prefix], prefix, ks)

DatasetsAreShown == \A n \in DOMAIN prefixes : DatasetIsShown(prefixes[n])

NothingElseIsShown ==
    /\ \A u \in TableUrn : tables[u] # Nothing => u \in TablesHere
    /\ \A u \in ColumnUrn : columns[u] # Nothing => u \in ColumnsHere
    /\ \A u \in Prefix : datasets[u] # Nothing => u \in DatasetsHere

\* The cursor on disk is that of a scrape nothing disturbed.
Quiet == pc = "idle" /\ calm

\* A scrape is many queries, each with its own snapshot, against a cursor that may
\* come from a scrape the source changed under.  One that runs undisturbed puts the
\* cursor right: it knows exactly what is there.
QuietCursorIsExact ==
    Quiet => saved = [table |-> TablesHere, column |-> ColumnsHere, dataset |-> DatasetsHere]

\* And it puts the catalog right: each entity that the schemas accept is shown as it
\* is, keys and references, format, partitions and fields; unless a scrape failed
\* with something reported that no cursor remembers, nothing else is shown.
QuietScrapeIsExact ==
    Quiet =>
        /\ TablesAreShown
        /\ DatasetsAreShown
        /\ fails = 0 => NothingElseIsShown

\* Whatever happens under a scrape, the cursor it saves knows the table of each of
\* its columns, though tables and columns are diffed independently
\* (postgres/connector.py:155-161): a table never goes and leaves its columns.
CursorIsClosed == \A u \in saved.column : u[1] \in saved.table

\* A table is tombstoned only if it was away, and missed only if it came late: the
\* connector keeps the promise of base.py:32-37 although the source changes between
\* its queries.  (It does not for columns: a swap of two tables under the scrape
\* tombstones columns that were there all the time, until the next scrape.)
T == INSTANCE BaseConnector WITH
       Urn <- TableUrn, here <- TablesHere, saved <- saved.table, known <- known.table,
       ever <- ever.table, always <- always.table, scraping <- pc # "idle"
TablesKept == T!Spec

\* Likewise for datasets, whose objects come and go while they are listed.
D == INSTANCE BaseConnector WITH
       Urn <- Prefix, here <- DatasetsHere, saved <- saved.dataset, known <- known.dataset,
       ever <- ever.dataset, always <- always.dataset, scraping <- pc # "idle"
DatasetsKept == D!Spec

\* When the source comes to rest, everything the catalog can show of it is shown as
\* it is, whatever the scrapes before have made of a source that moved.
ShownConverges == <>[](TablesAreShown /\ DatasetsAreShown)
=============================================================================
