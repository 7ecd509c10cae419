# A TLA+ model of the data discovery metadata engine

The repository is a metadata catalog in two halves. A **data plane** agent runs next to the sources of a
customer: cycle after cycle it scrapes Postgres databases and S3 buckets and pushes what it finds, in batches,
over HTTP. A **control plane** receives the batches and fans each entity out to four stores (relational, graph,
search, analytics), from which the catalog API and the web UI read. This directory models the path a change at
a source takes until it is visible in the catalog, with everything that can go wrong on the way (failing stores,
lost and late answers, killed processes, stale retries, sources that change while they are scraped), the scrapes
themselves, query by query and page by page, and the three ways the catalog is read: lineage, search and the pages
of the web UI.

## Inventory

| component | state | operations | talks to |
|---|---|---|---|
| Agent runner (`data-plane/agent/runner.py`, `scheduler.py`, `main.py`) | where the cycle stands | run a cycle: retry dead letters, scrape each source, save its cursor | all of the data plane |
| Push client (`push_client.py`) | attempts of the batch in flight | push with retries; 2xx, 4xx, 5xx, timeout | ingest API |
| Batcher (`batcher.py`) | open batch | add, flush on size, interval or end | runner |
| Dead-letter queue (`dead_letter.py`) | one file per unsuccessful batch | add, list, load, remove | runner |
| Cursor store (`cursor_store.py`) | one file per connection: the URNs it knows | load, save | runner, connectors |
| Connectors (`connectors/`) | the cursor in memory | discover, extract, tombstone what vanished | sources |
| Type mapping and schema inference (`connectors/postgres/type_mapping.py`, `connectors/s3/schema_inference.py`) | none | normalize a type; format, partitions and fields from a sample | connectors |
| Shared schema (`shared/schema/`) | none | what a payload must look like | agent validation, ingest API |
| Ingest API (`api/ingest/`) | idempotency records, per process | validate, replay, process, record | fan-out |
| Fan-out worker (`workers/fanout/`) | none between requests | route an entity to the stores, in order | the four stores |
| Relational store | a row per entity: the system of record | upsert, tombstone, no-op detection by content hash | fan-out, read API |
| Graph store | nodes, relationships | merge, tombstone, traverse lineage | fan-out, read API |
| Search index | a document per searchable entity | index, tombstone, query | fan-out, read API |
| Analytics store | append-only events | record, summarise | fan-out |
| Catalog API (`api/catalog/`) | none | search, table detail, lineage, source status | stores |
| Search queries and relevance (`storage/search/`) | documents, the boost hook, popularity scores | build a query, boost it, run it | search index, analytics |
| Web UI (`web/src/`) | the state of the page, recently viewed assets | navigate, load, retry, scrape now | catalog API |
| Configuration, set-up scripts | none | run once | all |

What is hard about it, and what makes each part right:

* **One request, four stores, no transaction.** The row is committed first; the other stores follow one by one.
  The stores must agree whenever nobody is in between and nothing was cut off; deletes must get through even
  when they are repeated; a live entity must have a row (`Agreement`, `TombstonePropagated`, `LiveHasRow`).
* **Answers and retries.** A batch is retried under the same `batch_id`. A 202 and an idempotency record must
  mean the batch was processed, for any interleaving of replicas, restarts and expiries (`AnsweredIsProcessed`),
  and nothing may be processed twice without a fault to blame (`EventsOncePerFault`).
* **Nothing scraped is lost.** Whatever fails, an entity of a finished scrape has its 202 or is on disk
  (`NothingLost`), the cycle goes on (`CyclesEnd`), the queue empties (`QueueDrains`) and the catalog shows what
  exists (`PresentConverges`).
* **What is gone must go.** Tombstones depend on the cursor knowing what the catalog shows (`LiveIsWatched`,
  `GoneConverges`), and this is where crashes and stale retries hurt.
* **A scrape is many queries.** Each has its own snapshot, the source changes between any two of them, and a bucket is
  listed page by page. Whatever happens under a scrape, nothing that was there all the time may be tombstoned and
  nothing that never was may be reported (`TablesKept`, `DatasetsKept`; of columns this is not so); an undisturbed scrape must put right what
  the ones before it got wrong (`QuietCursorIsExact`, `QuietScrapeIsExact`, `ShownConverges`).
* **The graph is many transactions.** Edges arrive before, between and after the entities they join, and an upsert
  is up to three transactions that interleave with those of other processes. Lineage must show what is live, not what
  is deleted (`SettledEdgesAreServed`, `TombstonesAreNotServed`, `ColumnsAreAttached`), one graph
  must explain both halves of an answer (`AnswersAreOfOneGraph`), and each tenant its own (`NoInterference`).
* **A hook in every search.** Whatever it does to the query, results must stay those that were asked for, of the
  tenant that asked (`BoostKeepsResults`); what it is meant to change must stay within what it promises
  (`FieldOrderKept`, `PopularityStable`).
* **Answers for pages that were left.** (`OnlyRetriesDrift`, `LoadingIsAwaited`, `ScrapeIsAwaited`).

PROJECT.json lists the hazards, each with its line and the properties about it.

## Modules

| module | what it is |
|---|---|
| `Catalog` | the abstract promise: one record per URN, changed by whole upserts and whole tombstones |
| `Ingest` | the ingest API and its fan-out, for any number of API processes; `C == INSTANCE Catalog WITH catalog <- rel` |
| `Agent` | the data plane agent, its files, its sources and the API as it sees it; `C == INSTANCE Catalog` |
| `Lineage` | the graph store, transaction by transaction, and the lineage endpoint |
| `Search` | the index, the search query, the relevance hook and popularity |
| `WebUI` | the pages of the web UI in one browser tab |
| `BaseConnector` | the abstract promise of a connector about the entities of one type, whatever queries it takes |
| `Contract` | type mapping and the parts of the shared schema that a scraped entity can fail |
| `Connector` | what both connectors share: cursor, diff, tombstones, and the catalog at the other end |
| `Postgres`, `S3` | each connector with the source that changes under it |
| `Connectors` | one connection of either kind, scrape after scrape; `T` and `D` are `INSTANCE BaseConnector WITH` its tables and its datasets |
| `IngestRace` | `Ingest` served by several processes, with a history of which requests carried the same entity at once |
| `LineagePaths` | what a lineage query asks for by its definition, paths that repeat no relationship, beside what the traversal answers |
| `MCIngest`, `MCIngestRace`, `MCAgent`, `MCLineage`, `MCSearch`, `MCWebUI`, `MCConnectors` | the values of the constants for the runs |
| `IngestProofs`, `IngestRaceProofs`, `AgentProofs`, `LineageProofs`, `ConnectorsProofs`, `SearchProofs`, `WebUIProofs` | theorems |
| `Induction` | lemmas about numbers, finite sets, folds and sums that the theorems rest on |

`Ingest` and `Agent` meet at the HTTP request. `Agent` takes from the API what an agent can notice: a batch is
processed as a whole (`Process`), or partly before a 5xx (`Broken`), or later than anyone expects (`Late`), or
answered from its record. `Ingest` opens that step up. `Lineage` opens up the one step in which `Ingest` writes an
entity to the graph, and `Search` what becomes of the document once it is written. `Connectors` opens up what `Agent`
takes as one step per URN: how a scrape finds out what is there. It leaves to `Agent` what happens to a batch, and takes
an entity as delivered when the connector has made it, or lost with the rest of a scrape that fails.

### Ingest

`rel`, `graph` and `search` hold a copy of each entity (absent, live or deleted, and its content hash), `events`
counts the analytics rows per entity of a batch, `cache` the idempotency records of each process, `w` what a
process is doing, `reply` its last answer. A request goes `Admit` (or `Refuse`, `Replay`), then for each accepted
entity `RelSelect`, `RelWrite`, `GraphWrite`, `SearchWrite`, `AnalyticsWrite` as `_process_one` routes it, then
`Respond`. It ends early by `Poison` (the stores cannot carry the entity out), `StoreFails` or `Restart`;
`Expire` drops a record. `Row` is what a SQLAlchemy session leaves behind: it writes the columns that differ from
what it loaded, onto the row as it is when it commits, which only matters with several processes.
`torn` is a history variable (the URNs whose last fan-out was cut between row and projections); no action reads it.
`IngestRace` adds two more, `contested` (the URNs that two requests in service at once were about, unless both were about
the same one entity of the same batch, until a request that carries the entity alone projects it) and `fought` (which
requests those were), by conjoining `Watch` to every step. It starts from stores that hold the same catalog, empty or not.

A write that was applied but not acknowledged is not an action of its own: it leaves the same state as a failure
of the call after it. `payload` says which fields a payload has, as far as validation and the stores disagree
about them.

### Agent

`cursor` and `dead` are on disk, `m` is the memory of the process, lost in a `Crash`. One cycle is `StartCycle`,
`RetryDeadLetter`* , `StartSources`, then for each connection `StartSource`, `Scan`/`Miss` for each URN,
`Tombstone` for what vanished, `Flush` and `Save`, and `EndCycle`. A batch is closed by size or, at any size, by
the interval (`Emit`). `Answered`, `Refused`, `TimedOut` and `Broken` are the outcomes of an attempt, `Settle` and
`GiveUp` what the runner does about the result. `SourceFails` is an exception inside `_run_source`. The cursor in
memory changes when an entity is met, before it is validated or pushed, as in the connectors.
`owed` and `sent` are history variables. A batch identifier is a fresh uuid: one nobody holds any more may
be used again, so a small set of them is enough (`Fresh`). Entities of a batch have distinct URNs and a batch is a
set. No connector of the repository yields lineage, so `extract_lineage` adds nothing.

### Lineage

`node` says of each (tenant, label, URN) whether it has no node, a *stub* (a node that the MERGE of an edge created,
without `is_deleted`), or a live or deleted one; `derives` are the DERIVES_FROM relationships, `dropped` those whose
flag is set, `links` the other relationships. `Begin` is the relational write that precedes the graph in the
fan-out, together with the choice of the transactions `upsert_entity` will run (`Plan`); each transaction is then an
action of its own, under the name of its function. `Cut` is a failure or a death in the middle. A request for lineage
is `get_table_lineage`, then `ReadUpstream` and `ReadDownstream`, each one transaction.

`_traverse_tx` follows walks, where Cypher follows paths that repeat no relationship; a shortest walk repeats
none, so both find the same nodes with the same least number of hops. An anchor that lies on a cycle is a result of
its own traversal in both. The uniqueness constraints that `ensure_constraints` creates are assumed to be there.
`torn` is a history variable again: the keys whose last write was cut or overlapped another's. *Settled* keys are
those the properties speak about, since for the others nothing is promised until the next record.

### Connectors

`pc` says where the scrape stands, `saved`, `known` and `seen` are the cursor on disk, the one in memory and what
`discover` has met so far; `tables`, `columns` and `datasets` are what the catalog shows. For Postgres `db` is the
catalog of the database, relations by oid and columns by attnum, neither of which is used twice, as in Postgres, which also
sees to it that names are unique and references lead to columns (`Consistent`); anybody
may create, rename, replace, alter and drop between two queries, because the connection is in autocommit mode. Names are
read once and used in later queries: `LIST_COLUMNS`, the constraints and the resolution of each reference are actions
of their own, and what a name means may have changed in between. For S3 `bucket` holds the objects by key, `q` the
memory of a listing: the continuation key, the sample, the count. Objects come and go between two pages, and between the
listing and the reading of the sample. `InKeyOrder` is the order of the keys of a page, in a form that proofs can use.
`calm`, `ever` and `always` are history variables: whether the scrape
ran undisturbed, and what was there at some and at every moment of it.

`Contract` says which native types `normalize_type` maps to which names and which of these the schema's enumeration
knows. Texts are cut into the parts the code tells apart: a native type is a base, a modifier and an array suffix, a file
name is the list of its parts between dots, the partitions of a key are its folders of the form `name=value`. Of the
contents of an object the model keeps its columns and first values, and whether the first 64 KiB hold its footer.

A table with its columns is delivered at once. Names are taken without dots, keys of one column, the list of schemas as
it is at the start; sizes and time stamps are left out, and so is the sharing of a file between two cursors.

### Search

`docs` are the documents as written, `seen` as of the last index refresh, which is what a search works on. Searching
changes no state: `search(t, r)` is the set of answers a request may get, for every body `build_search_query` may
return, and `BoostKeepsResults` compares each with `Wanted`, which says what the reader means. A body is a record of
what its clauses let through and how it scores. `hook` is the hook that is plugged in: none, the relevance module
(behind the adapter that its INTERFACE.md describes; nothing in the repository plugs it in), or one that may lose the
tenant filter, which the query builder has to notice. Popularity is computed from `usage`, which ages with `now`,
counted in half-lives, and kept in `scores` until somebody refreshes it; the read method of the analytics client is
assumed by `popularity.py`, not implemented by the store. Scores and weights are integers: a boosted score is
multiplied by the raw popularity of the most popular entity, by which the code divides. BM25 is left out:
`FieldOrderKept` is about documents that match equally well in their fields. Paging is left out.

### WebUI

`hist` and `pos` are the session history, `page` the state of the mounted component (one record for all four
pages: each uses the fields it has), `calls` the requests in flight, `viewed` the list in local storage. A component
stays mounted when only the parameters of its route change (`Move`); `Outlive` is what a move leaves of a request:
cancelled by the cleanup of the search effect, without effect because its component is gone, or still listened to. A
navigation and the effects it triggers are one step, as React runs the effects of a user's event before it returns to the event
loop. Typing is part of `Submit`. The connection of an asset is any connection. The development build's double effects are left out, and
so are the tombstoned assets of a connection, a list that the API mapping always leaves empty. `Without` is the filter
that keeps an asset from being in the list twice, a recursive function so that proofs can unfold it. `retried` is a
history variable.

## Runs

Every count is of distinct states.

| run | instance | states | shows |
|---|---|---|---|
| `ingest_life` | 1 process, a table and a lineage edge, 5 batches (create, change and drop, beside rejected entities and a scrape run; one that cannot be carried out and one that is refused), 2 faults | 529,859 | all of `Ingest`'s invariants, refinement of `Catalog`, requests end |
| `ingest_race` | 2 processes, the same batch twice or two batches about one table, which one of them names twice; the table new or known; 1 fault | 575,130 | read models differ from rows only where such requests met (that rows and answers are right even then is proved) |
| `ingest_torn` | 1 process, one table, 1 fault | violation | a retry after a partial failure is answered 202 with stale read models |
| `agent_faults` | 2 sources, 3 URNs (one invalid, one rejected), 1 change, 2 failing pushes, 1 crash or failing source | 440,859 | nothing lost, cycles end, queue drains, present entities converge |
| `agent_calm` | 1 source, 2 URNs, 2 hashes, 3 changes, no faults | 14,888 | what is gone disappears |
| `agent_zombie` | 1 URN, 1 change, failing pushes, no crash | violation | a stale dead letter revives a dropped entity |
| `lineage_order` | 2 processes, 1 tenant, tables, a column, an edge, 4 records, requests both ways | 173,220 | lineage is right whatever the order of arrival and the interleaving, and an answer is of one graph |
| `lineage_tenants` | 2 processes, 2 tenants with the same URNs, an edge, its deletion and its job, 4 records | 65,500 | a write touches one tenant |
| `lineage_dropped` | 1 process, 3 records | violation | a deleted edge is still lineage |
| `search_queries` | 2 tenants, 2 URNs, 5 contents, 5 requests, any 3 of writes, events and half-lives, 1 popularity function | 60,012 | results, ranking and popularity |
| `connectors` | a database of 2 tables in 3 schemas (one excluded) and a bucket of 5 keys under 2 prefixes, pages of 2, 2 changes under the scrapes, 1 failure | 327,511 | a scrape keeps its promise whatever changes under it, and an undisturbed one shows what is there |
| `ui_pages` | 1 search with 2 filters, 3 assets (list of 2), 2 connections, 4 navigations, 3 requests in flight, history of 3 | 150,060 | pages, answers and local storage stay consistent; loading ends |

Bounds. `MaxFaults`, `MaxCrashes` and `MaxDrift` bound what the environment does, never what the program does;
they are counters in guards, so temporal properties are not cut by a state constraint. Two faults are enough for
a failed retry of a failed request (torn, retried, torn again, replayed), two entities for a batch to be half
done, create, change and drop for any order with replays. Batches of at most two cover batches of one, of several
and flushed early; `MaxAttempts = 2` distinguishes the retry inside a push from the dead letter. `MaxWrites` bounds the
records that reach the graph: four are both ends of an edge, the edge, and a deletion of either, in any order and
spread over two processes. `MaxSteps` bounds what happens around the index: two documents and an event make one of
them popular, three events make popularity of two entities differ from that of a mixture of tenants. In
`connectors` two changes are two renames, a drop and a new table of the same name, or an object that moves from
a page still to come to one already listed; one failure leaves a cursor behind the catalog. Five keys, one of them a
marker, make three pages of two, a sample that is full before the listing ends, and a prefix inside another.
`MaxMoves`,
`MaxHistory` and `MaxCalls` bound the user: four moves are enough to leave a search, an asset and a connection and come
back before their answers do; a request that would exceed `MaxCalls` makes its move impossible.
Batches, URNs and hashes are model values. Symmetry is declared where no property is a liveness property: in
`search_queries` between the two tenants and the two URNs, in `lineage_order` between the two writers, in `ingest_race`
between the two replicas.

Deadlock is checked for `Ingest`, `Agent` and `Connectors`. In `Lineage`, `Search` and `WebUI` the bounds let everything come to
rest (all records written, all moves made), so it is not checked there.

Fairness. `Ingest!FairSpec`: a process that has a batch goes on (the handler is straight-line code that waits for
nothing but the stores, whose calls return or raise); nothing is assumed of clients. `Agent!FairSpec`: the agent
keeps running its cycle, `WF` on the disjunction of its own steps: the scheduler calls the next cycle, every
request has a timeout, and a killed process is started again. There is no fairness on faults, on late requests,
on changes of the sources or on any single outcome of an attempt; that pushes succeed in the end follows from the
bound on faults only, which is what "when the faults come to rest" means in the properties. `Connectors!FairSpec`: the
scheduler starts one scrape after another (`scheduler.py:28-35`), and each query returns or fails; changes and failures
are bounded and not fair. `WebUI!FairSpec`: the
browser settles every `fetch`, with an answer or an error; the user need not do anything.

## Disagreements with the documentation

The violation runs each show the code doing something other than a comment or a document says; PROJECT.json
quotes the lines.

1. A replayed batch is not always "safe to retry blindly" (`ingest_torn`): the content hash marks the row as
   unchanged, so the retry skips the graph and the search index that the failed attempt never reached.
2. A dropped entity is not always tombstoned (`agent_zombie`): a stale dead letter can bring it back.
3. The tombstone of a lineage edge does not reach its readers (`lineage_dropped`).

Met on the way, and in the model as the code has them, without a run of their own:

* The delete of a lineage edge needs the payload of the edge, which validation does not ask for: such a batch is
  answered 500 whenever it is sent (`Poison`; a batch of `ingest_life`).
* A crash after a push and before the cursor is saved makes the agent forget what it pushed: if the entity is dropped
  meanwhile, nobody tombstones it. `LiveIsWatched` is proved under `Calm`, which excludes crashes, for this reason.
* A batch refused with a 4xx joins the dead letters and is sent again in every later cycle.
* An edge whose entities never come leaves stub nodes, which nobody is shown; the lineage endpoint answers 404
  for a dataset, whose row is in another table than the one it looks in.
* The popularity boost wraps the whole request body, paging included, in a `function_score`: OpenSearch finds no query
  at its top and refuses it, although INTERFACE.md calls the result safe to send. In `Response` such a search
  fails with 500.
* The request that Retry sends on the search page is not cancelled when the search changes, so its late answer shows
  the results of another search than the address and the box say. `OnlyRetriesDrift` shows that nothing else does.
* The asset page cancels nothing: going from asset to asset through the history, the last answer wins.
* `type_mapping.py` yields names that `column.schema.json` does not list (`time`, `uuid`, `other`, arrays; also a timestamp
  or time with a precision and a zone): such a column is rejected, and one that is altered to such a type stays in the
  catalog as it was. A reference whose column cannot be resolved (`column: None`) rejects its column until the next
  scrape. A table that was never analysed has `reltuples` -1 (`queries.py:32`) where `table.schema.json:52` asks for at
  least 0: the table is rejected, its columns are accepted. A Parquet field of an unknown type, or a CSV column without a
  name, rejects the whole dataset.
* Each query of a scrape has its own snapshot. A swap of two tables between the list of tables and the list of columns
  tombstones columns that were there all along; a rename while a column is added reports a column that never was; a
  renamed key column loses its key. The next undisturbed scrape puts all of it right (`QuietScrapeIsExact`), except that
  what a failed scrape had reported, and was then dropped, stays in the catalog: no cursor knows it.
* A dataset's fields come from its first object, which may be a `_SUCCESS` file of no format; a Parquet object
  larger than 64 KiB never gets fields, nor does a CSV that is cut inside a character. A failed read drops the fields
  until the next scrape. A page full of folder markers could hide an object that moves (hence the bound in
  `S3Assumption`; a page holds a thousand keys). A prefix is a string: `events` also lists `events-old/`. The prefix ""
  is recorded in the cursor and its dataset dropped by validation (`validation.py:84`).
* A table named `b.c` has the URN of column `c` of table `b` (`connector.py:188-193`).
* With two replicas, different batches about one URN may be projected in the opposite order of their rows, and stay so
  until the entity changes again. A batch that names an entity twice can do so alone, when it is sent again while its
  first attempt is still being served: both attempts are then about the entity, at different places of the batch.
  `OnlyContestedDrift` shows that there is no other way, faults apart.
* Seen, and outside of the models: row counts and sizes are 32-bit columns (`models.py:161-162,202`), and a larger value
  fails its batch each time; two connection ids that differ only in unsafe characters share a cursor file
  (`cursor_store.py:16`); MERGE is atomic only under a uniqueness constraint that nothing but a test fixture creates
  (`graph/store.py:90`); a URN with a bare per cent sign breaks the second `decodeURIComponent`
  (`AssetDetailPage.tsx:20`); a hook may return any body that has the tenant (`query_builder.py:87`);
  `get_table_with_columns` returns deleted columns and the page does not mark them (`store.py:182-201`); the source
  status looks up the latest run by connection alone, without the tenant.
* "View assets from this connection" leads to a search without a text, which is the page of recently viewed assets.

## Proofs

Everything below holds for all values of the constants that satisfy the named assumptions `IngestAssumption`,
`AgentAssumption`, `LineageAssumption`, `PostgresAssumption`, `S3Assumption`, `ConnectorsAssumption`,
`SearchAssumption` and `WebUIAssumption`. They state the types of the constants and, for the sources, that a
connection's prefixes are known, that a database starts consistent (unique names, references that lead to columns), that
what a dataset may be is not what stands for its absence, and that fewer keys of a prefix are markers than a page holds.
TLC evaluates each of them in the runs.

The library's induction theorems take a predicate as a parameter, which the installed provers cannot instantiate. The
well-foundedness of the natural numbers can be stated about a set instead, and `Induction` builds on it: every nonempty
set of numbers has a least member, every nonempty family of finite sets a smallest one (`LeastNatural`,
`LeastFiniteSet`); hence what passes on from a number to the next, or from a finite set to one with one element more,
holds of all (`Stepwise`, `Elementwise`). A proof by induction here names the set of those numbers, or of those subsets,
that have the property. From these follow that a fold over a finite set is well defined and typed (`FoldExists`,
`FoldIsTyped`), that sums are natural numbers and scale (`SumsAreNatural`, `SumsScale`), that powers of two are what
they are called (`PowersOfTwo`, by counting subsets), and that each element of a finite set has a place in its order
(`PlaceExists`, `PlaceInUnion`).

`IngestProofs`

* `TypeCorrect`. `TypeOK` is inductive on its own.
* `LiveHasRowAlways`, any number of processes. Strengthened by `RowSeen`: a process that is at the graph or the
  search index of an upsert has a row; rows are never removed (`RowsStay`).
* `AnsweredIsProcessedAlways`, any number of processes. Strengthened by `Passed`: the accepted entities before
  the position of a busy process have their event; events are never removed (`EventsGrow`).
* With `OneReplica`: `AgreementAlways` and `TombstonePropagatedAlways`, from one invariant that says, for each
  point of the fan-out, which stores already hold what the entity says, and that what is not routed to a store is
  not in it; `RowsAreCatalogAlways`, the refinement of `Catalog`: a write finds the row as its select left it, so
  `Row` is a whole upsert, a whole tombstone or a stutter; `EventsOncePerFaultAlways`, from a ledger that gives
  each event beyond the first of its slot a fault that paid for it. With two processes the first three are
  false, which is why the assumption is there; what is left of `Agreement` is the next theorem.

`IngestRaceProofs`, for any number of processes, whatever the stores hold at first

* `OnlyContestedDriftAlways`. Two processes that serve the same entity of the same batch do no harm to each other:
  whichever writes last, the row is what the entity says (`Applied`), and what one has found stays good enough for the
  other (`WillApply`, kept by `WillApplyStays`). The invariant says so of every process that carries its entity alone,
  or whose entity was put right since (`Trusted`, `Sound`), and that every overlap is remembered by the history.
  `OnlyContestedDrift` is not inductive without it: it says nothing of what a process is about to write.

`AgentProofs`

* `TypeCorrect`.
* `NothingLostAlways`, for all faults, crashes and late requests. `SentIsHeld` follows what a running scrape
  has emitted (in the buffer, in the batch being pushed, or filed), `AckedIsClear` says that a batch with its 202
  owes nothing, so that a dead letter can be removed.
* `LiveIsWatchedAlways`, assuming `Calm` (no faults, no crashes). `Sound` and `Watches` relate the cursor in
  memory, the URNs still to look at and the entities not yet answered: an upsert in flight is known to the cursor,
  a delete in flight is not, and every live entity is known or its delete is on the way. `agent_zombie` and the
  crash described above show that neither half of `Calm` can be dropped.

`LineageProofs`, for any number of processes, tenants and records

* `TypeCorrect`, from `TypeOK` and the fact that a busy writer has transactions of its own record's plan left
  (`WorkOK`).
* `GraphStaysInTenantAlways`: every transaction takes the tenant of its relationship's ends from one record.
* `NoInterferenceAlways` and `LineageIsPrivate`: what a traversal of a tenant reads is a function of that tenant's
  part of the graph, which only its own records change. The second says so for every number of hops.
* `TombstonesAreNotServedAlways`, from `NodesFollowRows`: for a settled key, or one whose node transaction is no longer
  pending, the flag of the node is that of the row.
* `SettledEdgesAreServedAlways`, from the same and `EdgesHaveNodes`: an edge never leads to a node that is not there,
  so that a live row at its end is a live node, one hop away.
* `LineageIsShortest` and `HopsAreShortestAlways`: what the traversal answers is what the paths that repeat no
  relationship lead to, each entity once and with the length of its shortest path. The traversal follows walks
  (`Walk`); a walk that meets an entity twice has a shortcut, so a shortest one repeats no relationship, and a path that
  repeats none is no longer than there are relationships, because it numbers some of them. The first theorem says so for
  every anchor and number of hops, the second is the invariant the run checks. Both need that a graph is finite.
* `AnswersAreOfOneGraphAlways`: what a read transaction finds is explained by paths of the graph of that moment, and
  since no step takes a relationship away, by paths of every later one (`Explanations`).
* `ColumnsAreAttachedAlways`, from `ColumnsFollowRows` (a live column that is not attached has its link pending or was
  cut), assuming `ColumnsNameTheirTable`, which the API's schema requires.

`ConnectorsProofs`, for any database, bucket, prefixes and page size, and any number of changes and failures

* `TypeCorrect`: in particular, the catalog shows nothing that the schemas reject.
* `TablesKeptAlways` and `DatasetsKeptAlways`: each connector implements `BaseConnector`, for its tables and its
  datasets. `CursorIsClosedAlways` and `QuietCursorIsExactAlways`: what the saved cursor knows.

  All of them follow from one invariant, `IInv`. `Typed`, `Kinds` and `Recorded` say what the variables hold and that
  only one of the two connectors moves; `Window` relates the history variables to the source (what is always there is
  there now, what is there now was ever there). The two that carry the argument say, for each point of a scrape, what
  it has met: `TablesMet`, that every table that was there all along is met, or in the rows still to visit, or in a
  schema still to list, and that what is met was there at some moment; `DatasetsMet`, that an object that was there
  all along has been counted or has its key after the continuation key. They are not inductive without each other,
  since a step of the scrape is only as good as the window it is measured in. `Undisturbed` adds
  what holds while nothing changes: names and columns read so far are still those of the source.
* `QuietScrapeIsExactAlways`: a scrape that nothing disturbed leaves the catalog right, whatever those before it left.
  It needs `QInv` beside `IInv`. `TablesRead` says what an undisturbed scrape has read of the table in hand: its row
  estimate, its names, and each key and reference either resolved to the present names or still pending (`KeysRead`);
  and that every table it is through with is shown as it is. `DatasetsRead` says that the counted objects of a prefix
  are those up to the continuation key and that the sample is the first of them, in order (`PrefixRead`: the n-th of the
  sample has n - 1 before it), and that every dataset it is through with is shown as it is. `ShownIsKnown` says that,
  failures apart, the catalog shows nothing the cursor does not know, so that the tombstones at the end leave nothing
  over. What the partitions of a sample are is a fact about two nested folds (`Collects`, `PartitioningIs`): they
  collect the names of the keys' paths, each of them once.

`SearchProofs`, for any tenants, records, requests and usage

* `BoostKeepsResultsAlways`. A body that keeps the filters of the built query finds what the reader means,
  however it scores (`FiltersFind`); a boost keeps them (`BoostFilters`), and another hook that loses the tenant is
  answered 500.
* `FieldOrderKeptAlways`. A score is a weight times a factor, and factors of one body differ by two at most because no
  raw popularity exceeds the largest (`ScoresAreRanked`); the weights 5, 2 and 1 are further apart than that. That a sum
  of weights is a natural number is `SumsAreNatural`, which needs that there are finitely many events (`Tracked`).
* `TypeCorrect`, from the same.
* `PopularityStableAlways`. While a tenant's own usage stays, the passing of time halves what each of its events weighs,
  or leaves it: one sum is a power of two times the other (`PowersOfTwo`, `SumsScale`), for all of its entities alike.

`WebUIProofs`, for any number of navigations and requests

* `LoadingIsAwaitedAlways`, `OnlyRetriesDriftAlways` and `ScrapeIsAwaitedAlways`, from `CallsAreOwned`: a request
  that is listened to was sent by the page that is mounted, and if by the effect of the search page, for the search in
  the address; what was left behind is an asset's. None of the three is inductive without it.
* `ViewedIsRememberedAlways` and `TypeCorrect`. What the filter keeps of a list that names nothing twice is everything
  but the asset (`Kept`, by induction over the prefixes of the list), so that the list with the asset in front names
  nothing twice either, and cutting it drops an asset only when the list is full (`Remembered`).

Only model-checked: everything temporal under fairness (`RequestsEnd`, `CyclesEnd`, `QueueDrains`, `PresentConverges`,
`GoneConverges`, `LoadingEnds`, `ShownConverges`), which is out of the prover's reach. Every invariant and every action
property of the passing runs is a theorem.

## Not modelled, and the plan

Not modelled: table detail and source status of the catalog API, freshness and what the pages draw, the reading of the
environment, and the set-up scripts (reasons in PROJECT.json). Abstracted: payloads (a hash and the fields
that matter), file names of cursors, time stamps, the length of the backoff, text relevance, paging of a search.

The order of work was `Catalog`, `Ingest` and `Agent` (the path of a change), then the readers, then the connectors.
Next, in order of importance:

1. `Pipeline`: `Agent` composed with the opened-up fan-out of `Ingest`, so that a torn fan-out meets the agent's
   retries; property: the read models, not only the rows, converge. An abstract specification of the read models
   (`Catalog` with a lag) for it to implement.
2. `Freshness`: scrape runs, `last_scraped_at`, the status the source pages derive from them, the badge.
3. Keys of several columns and the list of schemas in `Postgres`; names with dots.
4. Proofs: refinement of `Catalog` by `Agent` in a calm world; what the columns of a scrape may lose when the source
   changes under it, as an abstract specification like `BaseConnector`.
