--------------------------------- MODULE S3 ---------------------------------
(***************************************************************************)
(* The S3 connector (data-plane/connectors/s3/) and the bucket under it:   *)
(* each prefix is listed page by page, while objects come and go, and made *)
(* a dataset whose format, partitions and fields are inferred from a       *)
(* sample of its keys and the beginning of one object.                     *)
(***************************************************************************)
EXTENDS Connector, SequencesExt

CONSTANTS LastKey,        \* keys are 1..LastKey, in their lexicographic order
          FileName,       \* [Key -> the parts of a key's file name, cut at its dots]
          Folders,        \* [Prefix -> [Key -> the partition names of its path, in order]]
          Marker,         \* the keys that end with a slash and hold nothing
          Under,          \* [Prefix -> the keys that start with it]
          prefixes,       \* the prefixes of the connection, one after the other
          Object,         \* what an object may hold
          PageSize,       \* of list_objects_v2
          sample_limit,
          HasPyarrow      \* an optional dependency

\* What an object may be: the names and the values in the first rows of a text, or
\* the names and the types of the columns of a Parquet file; cut where the bytes that
\* are read end too early.
Readable == [kind : {"text", "parquet"}, cut : BOOLEAN, names : Seq(STRING), values : Seq(STRING)]

FileFormats == {"parquet", "csv", "json", "unknown", "mixed"}

Field == [name : STRING, type : ColumnTypes \cup {"other"}]

Dataset == [file_format : FileFormats, partition_keys : Seq(STRING), object_count_estimate : Nat,
            fields : {Nothing} \cup Seq(Field)]

\* Of the keys under one prefix fewer are markers than a page holds (a thousand):
\* behind a page of markers alone, an object could move to where the listing has
\* been, and its dataset be missed.
ASSUME S3Assumption ==
    /\ LastKey \in Nat /\ PageSize \in Nat \ {0} /\ sample_limit \in Nat \ {0}
    /\ Under \in [Prefix -> SUBSET (1..LastKey)]
    /\ prefixes \in Seq(Prefix)
    /\ Folders \in [Prefix -> [1..LastKey -> Seq(STRING)]]
    /\ Object \subseteq Readable /\ Nothing \notin Dataset
    /\ \A o \in Object : o.kind = "parquet" => Len(o.names) = Len(o.values)
    /\ \A prefix \in Prefix : Cardinality(Marker \cap Under[prefix]) < PageSize
-----------------------------------------------------------------------------
(* Schema inference. *)

Extensions == [parquet |-> "parquet", csv |-> "csv", tsv |-> "csv",
               json |-> "json", jsonl |-> "json", ndjson |-> "json"]

Compressed == {"gz", "gzip", "zst", "snappy"}

\* The format a file name promises: of its last suffix, or of the one before a
\* compression suffix.
detect_format_from_key(parts) ==
    LET n == Len(parts)
        ext == IF n > 2 /\ parts[n] \in Compressed THEN parts[n - 1] ELSE parts[n]
    IN  IF n > 1 /\ ext \in DOMAIN Extensions THEN Extensions[ext] ELSE "unknown"

\* Mutant: objects of no known format make the dataset a mixed one.
AggregateAll(keys) ==
    LET formats == {detect_format_from_key(FileName[keys[i]]) : i \in DOMAIN keys} IN
    IF formats = {} THEN "unknown"
    ELSE IF \E f \in formats : formats = {f} THEN CHOOSE f \in formats : TRUE ELSE "mixed"

\* The format of a dataset is that of the objects whose format is known.
aggregate_format(keys) ==
    LET formats == {detect_format_from_key(FileName[keys[i]]) : i \in DOMAIN keys} \ {"unknown"} IN
    IF formats = {} THEN "unknown"
    ELSE IF \E f \in formats : formats = {f} THEN CHOOSE f \in formats : TRUE ELSE "mixed"

\* Names in the order in which they come, each of them once.
Add(names, name) == IF Contains(names, name) THEN names ELSE Append(names, name)

Added(names, folders) == FoldLeft(Add, names, folders)

\* Names of partitions, each where the sample first shows it.
infer_partitioning(keys, prefix) ==
    LET AddFolders(names, key) == Added(names, Folders[prefix][key]) IN
    FoldLeft(AddFolders, <<>>, keys)

\* The type of a value in the first row of a CSV file: int() and float() read the
\* texts "1" and "1.5" stand for.
_sniff_scalar_type(value) ==
    CASE value = "1" -> "integer" [] value = "1.5" -> "float" [] value = "true" -> "boolean"
      [] OTHER -> "string"

\* What the beginning of an object says.  One that is not UTF-8, is cut in the
\* middle of a character, or is empty has no header.
infer_csv_schema(o) ==
    IF o.kind # "text" \/ o.cut \/ o.names = <<>> THEN Nothing
    ELSE [i \in DOMAIN o.names |->
            [name |-> o.names[i],
             type |-> IF i \in DOMAIN o.values THEN _sniff_scalar_type(o.values[i]) ELSE "string"]]

ParquetTypes ==
    [integer |-> {"int8", "int16", "int32", "int64", "uint8", "uint16", "uint32", "uint64"},
     float |-> {"float", "double", "decimal128"}, boolean |-> {"bool"},
     string |-> {"string", "large_string"}, binary |-> {"binary", "large_binary"},
     date |-> {"date32", "date64"}, timestamp |-> {"timestamp"}]

\* The schema of a Parquet file is at its end, which the sample of a long one lacks.
infer_parquet_schema(o) ==
    IF ~HasPyarrow \/ o.kind # "parquet" \/ o.cut THEN Nothing
    ELSE [i \in DOMAIN o.names |->
            LET of == {b \in DOMAIN ParquetTypes : o.values[i] \in ParquetTypes[b]} IN
            [name |-> o.names[i], type |-> IF of = {} THEN "other" ELSE CHOOSE b \in of : TRUE]]

\* By the format of the dataset, whatever the sample is called.
_infer_fields(file_format, o) ==
    CASE o = Nothing -> Nothing
      [] o # Nothing /\ file_format = "csv" -> infer_csv_schema(o)
      [] o # Nothing /\ file_format = "parquet" -> infer_parquet_schema(o)
      [] OTHER -> Nothing
-----------------------------------------------------------------------------
Key == 1..LastKey

VARIABLES bucket,   \* what each key holds
          q         \* the memory of discover()

\* todo: prefixes still to list; last: the last key listed of the first one;
\* sample, count: of its objects so far.
Unlisted == [todo |-> <<>>, last |-> 0, sample |-> <<>>, count |-> 0]

Present(p) == {k \in Under[p] : bucket[k] # Nothing}

ConnectS3 ==
    /\ Connect("prefixes")
    /\ q' = [Unlisted EXCEPT !.todo = prefixes]
    /\ UNCHANGED bucket

\* The keys of the next page: as many as fit, of what is there now and behind the
\* last page.
Rest == {k \in Present(Head(q.todo)) : k > q.last}

Page == {k \in Rest : Cardinality({j \in Rest : j < k}) < PageSize}

\* Mutant: markers count as objects.
CountedAll == Page

\* Markers of directories are not objects.
Counted == Page \ Marker

\* As S3 returns them: the i-th has i - 1 before it.
InKeyOrder(keys) ==
    [i \in 1..Cardinality(keys) |-> CHOOSE k \in keys : Cardinality({j \in keys : j < k}) = i - 1]

\* One page of a prefix.  Behind the last one it is a dataset, unless it has no
\* objects: then the next prefix is listed.
list_prefix ==
    /\ pc = "prefixes"
    /\ q.todo # <<>>
    /\ LET keys == InKeyOrder(Counted)
           taken == Min({sample_limit - Len(q.sample), Len(keys)})
           count == q.count + Cardinality(Counted)
       IN IF Page # Rest
          THEN /\ q' = [q EXCEPT !.last = Max(Page), !.count = count,
                                 !.sample = @ \o SubSeq(keys, 1, taken)]
               /\ UNCHANGED pc
          ELSE IF count = 0
          THEN /\ q' = [Unlisted EXCEPT !.todo = Tail(q.todo)]
               /\ UNCHANGED pc
          ELSE /\ q' = [q EXCEPT !.last = 0, !.count = count,
                                 !.sample = @ \o SubSeq(keys, 1, taken)]
               /\ pc' = "sniff"
    /\ UNCHANGED <<cursors, catalog, counts, bucket>>

_dataset_to_normalized(p, o) ==
    LET file_format == aggregate_format(q.sample) IN
    [file_format |-> file_format, partition_keys |-> infer_partitioning(q.sample, p),
     object_count_estimate |-> q.count, fields |-> _infer_fields(file_format, o)]

\* The first object of the sample is read, the dataset is recorded by the cursor
\* and delivered.
Deliver(o) ==
    LET p == Head(q.todo)
        d == _dataset_to_normalized(p, o)
    IN  /\ seen' = [seen EXCEPT !.dataset = @ \cup {p}]
        /\ known' = [known EXCEPT !.dataset = @ \cup {p}]
        /\ datasets' = IF DatasetAccepted(p, d) THEN [datasets EXCEPT ![p] = d] ELSE datasets
        /\ q' = [Unlisted EXCEPT !.todo = Tail(q.todo)]
        /\ pc' = "prefixes"
        /\ UNCHANGED <<saved, tables, columns, drift, bucket>>

\* An object that is gone by now, or whose read fails, says nothing.
sniff_object_bytes ==
    /\ pc = "sniff"
    /\ \/ Deliver(bucket[q.sample[1]]) /\ UNCHANGED fails
       \/ fails < MaxFails /\ Deliver(Nothing) /\ fails' = fails + 1

ListedPrefixes ==
    /\ pc = "prefixes"
    /\ q.todo = <<>>
    /\ pc' = "diff"
    /\ UNCHANGED <<cursors, catalog, counts, bucket, q>>

DiscoverDatasets == list_prefix \/ sniff_object_bytes \/ ListedPrefixes

\* Somebody writes or deletes an object.
ChangeBucket ==
    /\ Drifts
    /\ \E k \in Key, o \in Object \cup {Nothing} :
         o # bucket[k] /\ bucket' = [bucket EXCEPT ![k] = o]
    /\ UNCHANGED q
-----------------------------------------------------------------------------
\* What a scrape of the bucket at rest finds.
DatasetsHere == {prefixes[i] : i \in {n \in DOMAIN prefixes : Present(prefixes[n]) \ Marker # {}}}
=============================================================================
