------------------------------ MODULE Connector ------------------------------
(***************************************************************************)
(* What the Postgres and the S3 connector have in common: the cursor, on   *)
(* disk between scrapes and in memory during one; the diff that finds what *)
(* vanished; and the catalog at the other end, of which a row is kept for  *)
(* each URN and what it shows matters here.  Pushing in batches, with all  *)
(* that can go wrong on the way, is the subject of Agent: here an entity   *)
(* is delivered when the connector has made it, or with the rest of its    *)
(* scrape not at all.                                                      *)
(***************************************************************************)
EXTENDS Contract, FiniteSets

CONSTANTS Schema, Name,   \* of tables
          Label,          \* names of columns
          Prefix,         \* the prefixes an S3 connection may be given
          MaxDrift,       \* bound on the changes of the source
          MaxFails        \* bound on failing scrapes and failing reads

\* URNs.  Names are joined by dots in the code, so that this takes names
\* without dots.
TableUrn == Schema \X Name

ColumnUrn == TableUrn \X Label

VARIABLES pc,         \* where the scrape stands
          saved,      \* the cursor on disk
          known,      \* the cursor in memory
          seen,       \* what discover() has met in this scrape
          tables, columns, datasets,   \* what the catalog shows, by URN
          drift, fails

cursors == <<saved, known, seen>>
catalog == <<tables, columns, datasets>>
counts == <<drift, fails>>
-----------------------------------------------------------------------------
\* The entries of a cursor, by entity type.
Cursor == [table : SUBSET TableUrn, column : SUBSET ColumnUrn, dataset : SUBSET Prefix]

empty == [table |-> {}, column |-> {}, dataset |-> {}]

\* What the cursor knows and this scrape has not met.
diff_deleted_urns == [table   |-> known.table \ seen.table,
                      column  |-> known.column \ seen.column,
                      dataset |-> known.dataset \ seen.dataset]

InitConnector ==
    /\ pc = "idle"
    /\ saved = empty /\ known = empty /\ seen = empty
    /\ tables = [u \in TableUrn |-> Nothing]
    /\ columns = [u \in ColumnUrn |-> Nothing]
    /\ datasets = [u \in Prefix |-> Nothing]
    /\ drift = 0 /\ fails = 0

\* A fresh connector is connected and given the cursor that is on disk.
Connect(first) ==
    /\ pc = "idle"
    /\ pc' = first
    /\ known' = saved
    /\ UNCHANGED <<saved, seen, catalog, counts>>

\* Mutant: tables are diffed, their columns are taken to go with them.
TombstoneTables ==
    /\ pc = "diff"
    /\ known' = [known EXCEPT !.table = @ \cap seen.table, !.dataset = @ \cap seen.dataset]
    /\ tables' = [u \in TableUrn |-> IF u \in diff_deleted_urns.table THEN Nothing ELSE tables[u]]
    /\ datasets' = [u \in Prefix |-> IF u \in diff_deleted_urns.dataset THEN Nothing ELSE datasets[u]]
    /\ pc' = "save"
    /\ UNCHANGED <<saved, seen, columns, counts>>

\* What vanished is tombstoned, table by table and column by column, and the
\* cursor forgets it.
Tombstone ==
    /\ pc = "diff"
    /\ LET gone == diff_deleted_urns IN
       /\ known' = [table   |-> known.table \ gone.table,
                    column  |-> known.column \ gone.column,
                    dataset |-> known.dataset \ gone.dataset]
       /\ tables' = [u \in TableUrn |-> IF u \in gone.table THEN Nothing ELSE tables[u]]
       /\ columns' = [u \in ColumnUrn |-> IF u \in gone.column THEN Nothing ELSE columns[u]]
       /\ datasets' = [u \in Prefix |-> IF u \in gone.dataset THEN Nothing ELSE datasets[u]]
    /\ pc' = "save"
    /\ UNCHANGED <<saved, seen, counts>>

\* Mutant: what was on disk is merged into what is saved.
SaveMerged ==
    /\ pc = "save"
    /\ saved' = [entry \in DOMAIN known |-> saved[entry] \cup known[entry]]
    /\ pc' = "idle"
    /\ known' = empty /\ seen' = empty
    /\ UNCHANGED <<catalog, counts>>

\* The agent saves the cursor when the scrape is through.
Save ==
    /\ pc = "save"
    /\ saved' = known
    /\ pc' = "idle"
    /\ known' = empty /\ seen' = empty
    /\ UNCHANGED <<catalog, counts>>

\* The source fails under the connector, or the process is killed: the cursor on
\* disk is still that of the last scrape that went through.
Fail ==
    /\ pc # "idle"
    /\ fails < MaxFails
    /\ pc' = "idle"
    /\ known' = empty /\ seen' = empty
    /\ fails' = fails + 1
    /\ UNCHANGED <<saved, catalog, drift>>

\* A change of the source.
Drifts ==
    /\ drift < MaxDrift
    /\ drift' = drift + 1
    /\ UNCHANGED <<pc, cursors, catalog, fails>>
=============================================================================
