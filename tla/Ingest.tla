------------------------------- MODULE Ingest -------------------------------
(***************************************************************************)
(* The ingest API of the control plane and the fan-out it runs in line:    *)
(* a batch is admitted, checked against the replica's idempotency records, *)
(* and each of its accepted entities is written to the relational store,   *)
(* then to the graph, the search index and the event log, before the       *)
(* answer is recorded and returned.                                        *)
(*                                                                         *)
(* A replica is one API process.  Its handler is synchronous code, so one  *)
(* process serves one batch at a time; several processes share the stores  *)
(* but not their idempotency records.  A store call may fail, a process    *)
(* may restart and a record may pass its time to live at any moment.       *)
(***************************************************************************)
EXTENDS Naturals, Sequences

CONSTANTS Replica,    \* API processes that share the four stores
          Urn, Hash, NoHash,
          KindOf,     \* [Urn -> Kind]: an URN names one entity of one type
          BatchId,    \* batch identifiers minted by the agents of one tenant
          NoBatch,    \* no batch in service
          Entities,   \* [BatchId -> Seq(Entity)]: what each batch carries
          Unservable, \* the batches whose envelope or key the API refuses
          MaxFaults   \* bound on injected faults (store failures, restarts, expiries)

Kind == {"table", "column", "dataset", "job", "lineage_edge", "scrape_run"}

RELATIONAL_ENTITY_TYPES == {"table", "column", "dataset", "job", "lineage_edge"}
SEARCH_ENTITY_TYPES     == {"table", "column", "dataset", "job"}
SEARCHABLE_ENTITY_TYPES == {"table", "column", "dataset", "dashboard"}

\* What a payload holds: the fields the API's JSON Schema asks for, those the
\* stores read, both or neither, or a field only the control plane may set.  For
\* a lineage edge the schema asks for *_entity_id and the stores read *_urn.
Payload == {"schema", "urns", "both", "neither", "forbidden"}

Entity == [urn : Urn, op : {"upsert", "delete"}, hash : Hash \cup {NoHash},
           payload : Payload]

ASSUME IngestAssumption ==
    /\ NoHash \notin Hash
    /\ NoBatch \notin BatchId
    /\ KindOf \in [Urn -> Kind]
    /\ Entities \in [BatchId -> Seq(Entity)]
    /\ Unservable \subseteq BatchId
    /\ MaxFaults \in Nat

VARIABLES rel,      \* relational rows, by URN
          graph,    \* graph nodes and lineage relationships, by URN
          search,   \* search documents, by URN
          events,   \* analytics rows recorded for each entity of each batch
          cache,    \* idempotency records of each replica
          w,        \* what each replica is doing
          reply,    \* the last answer of each replica
          faults,   \* faults and failed requests so far
          torn      \* URNs whose last fan-out was cut before its projections

stores == <<rel, graph, search, events>>
vars == <<stores, cache, w, reply, faults, torn>>

\* The relational rows are the system of record.
C == INSTANCE Catalog WITH catalog <- rel
-----------------------------------------------------------------------------
Pcs == {"idle", "select", "write", "graph", "search", "analytics", "respond"}

Work == [pc : Pcs, batch : BatchId \cup {NoBatch}, pos : Nat, found : C!Copy]

Idle == [pc |-> "idle", batch |-> NoBatch, pos |-> 0, found |-> C!Absent]

\* 0 stands for no answer yet.
Answer == [batch : BatchId \cup {NoBatch}, status : {0, 202, 400, 500}]

Slots == UNION {{<<b, i>> : i \in DOMAIN Entities[b]} : b \in BatchId}

TypeOK ==
    /\ rel \in [Urn -> C!Copy]
    /\ graph \in [Urn -> C!Copy]
    /\ search \in [Urn -> C!Copy]
    /\ events \in [Slots -> Nat]
    /\ cache \in [Replica -> SUBSET BatchId]
    /\ w \in [Replica -> Work]
    /\ reply \in [Replica -> Answer]
    /\ faults \in Nat
    /\ torn \subseteq Urn
    /\ \A r \in Replica :
         /\ w[r].pc # "idle" => w[r].batch \in BatchId
         /\ w[r].pc \notin {"idle", "respond"} => w[r].pos \in DOMAIN Entities[w[r].batch]

Init ==
    /\ rel = [u \in Urn |-> C!Absent]
    /\ graph = [u \in Urn |-> C!Absent]
    /\ search = [u \in Urn |-> C!Absent]
    /\ events = [s \in Slots |-> 0]
    /\ cache = [r \in Replica |-> {}]
    /\ w = [r \in Replica |-> Idle]
    /\ reply = [r \in Replica |-> [batch |-> NoBatch, status |-> 0]]
    /\ faults = 0
    /\ torn = {}
-----------------------------------------------------------------------------
(* What the handler decides about one entity. *)

IsLineage(e) == KindOf[e.urn] = "lineage_edge"

\* Per-entity validation: a delete's payload is not held against the schema.
Accepts(e) ==
    /\ e.payload # "forbidden"
    /\ e.op = "delete" \/ e.payload \in {"schema", "both"}

\* The graph reads a lineage edge's payload before it looks at the operation.
GraphRaises(e) == IsLineage(e) /\ e.payload \notin {"urns", "both"}

\* A row needs upstream_urn and downstream_urn; inserting one the select did
\* not see breaks the unique (tenant, urn) constraint if it is there by now.
InsertRaises(found, row, e) ==
    /\ e.op = "upsert"
    /\ found.state = "absent"
    /\ GraphRaises(e) \/ row.state # "absent"

\* The relational store reports nothing to do.
Skips(found, e) ==
    \/ e.op = "delete" /\ found.state = "absent"
    \/ /\ e.op = "upsert"
       /\ found.state = "live"
       /\ e.hash # NoHash
       /\ found.hash = e.hash

\* Mutant: a tombstone propagates only when it changes the row.
ChangedOnce(found, e) == ~Skips(found, e) /\ (e.op = "delete" => found.state = "live")

\* A tombstone must always propagate, whatever the store reports.
Changed(found, e) == ~Skips(found, e) \/ e.op = "delete"

\* Mutant: a tombstone also clears the content.
RowCleared(found, row, e) ==
    IF Skips(found, e) THEN row
    ELSE IF e.op = "delete" THEN [state |-> "deleted", hash |-> NoHash] ELSE C!Upserted(e.hash)

\* The row after the session commits.  The session writes the columns that
\* differ from what it loaded, onto the row as it is at the commit.
Row(found, row, e) ==
    IF Skips(found, e) THEN row
    ELSE IF e.op = "delete"
         THEN IF found.state = "live" THEN C!Tombstoned(row) ELSE row
    ELSE IF found.state = "absent" THEN C!Upserted(e.hash)
    ELSE [state |-> IF found.state = "deleted" THEN "live" ELSE row.state,
          hash  |-> IF e.hash = found.hash THEN row.hash ELSE e.hash]

\* MERGE creates the node it tombstones; a relationship is only matched.
Node(node, e) ==
    IF e.op = "upsert" THEN C!Upserted(e.hash)
    ELSE IF IsLineage(e) THEN C!Tombstoned(node)
    ELSE [node EXCEPT !.state = "deleted"]

\* Mutant: an upsert of something tombstoned leaves it tombstoned.
DocumentUnrevived(doc, e) ==
    IF KindOf[e.urn] \notin SEARCHABLE_ENTITY_TYPES THEN doc
    ELSE IF e.op = "delete" THEN C!Tombstoned(doc)
    ELSE IF doc.state = "absent" THEN C!Upserted(e.hash) ELSE [doc EXCEPT !.hash = e.hash]

\* Types outside SEARCHABLE_ENTITY_TYPES are not indexed, and the update that
\* tombstones a document is a no-op when there is none.
Document(doc, e) ==
    IF KindOf[e.urn] \notin SEARCHABLE_ENTITY_TYPES THEN doc
    ELSE IF e.op = "upsert" THEN C!Upserted(e.hash)
    ELSE C!Tombstoned(doc)
-----------------------------------------------------------------------------
(* One request, step by step. *)

Cur(r) == Entities[w[r].batch][w[r].pos]

At(r, pc) == w[r].pc = pc

Goto(r, pc) == w' = [w EXCEPT ![r].pc = pc]

Remaining(b, i) == {j \in DOMAIN Entities[b] : j > i /\ Accepts(Entities[b][j])}

\* Mutant: the graph is written first.
FirstStoreGraph(e) == IF KindOf[e.urn] \in RELATIONAL_ENTITY_TYPES THEN "graph" ELSE "analytics"

FirstStore(e) == IF KindOf[e.urn] \in RELATIONAL_ENTITY_TYPES THEN "select" ELSE "analytics"

\* Mutant: the loop takes the next entity, accepted or not, there or not.
AdvanceByOne(r, b, i) ==
    w' = [w EXCEPT ![r] = [pc |-> "select", batch |-> b, pos |-> i + 1, found |-> C!Absent]]

\* On to the next accepted entity of the batch, or to the answer.
Advance(r, b, i) ==
    \/ /\ Remaining(b, i) = {}
       /\ w' = [w EXCEPT ![r] = [pc |-> "respond", batch |-> b, pos |-> i, found |-> C!Absent]]
    \/ \E j \in Remaining(b, i) :
         /\ \A k \in Remaining(b, i) : j <= k
         /\ w' = [w EXCEPT ![r] = [pc    |-> FirstStore(Entities[b][j]),
                                   batch |-> b, pos |-> j, found |-> C!Absent]]

Say(r, b, status) == reply' = [reply EXCEPT ![r] = [batch |-> b, status |-> status]]

\* Bound: a batch no attempt can get through is only tried while faults remain.
Poisoned(b) == \E i \in DOMAIN Entities[b] :
                   Accepts(Entities[b][i]) /\ GraphRaises(Entities[b][i])

\* A refused envelope or key is answered before anything else is looked at.
Refuse(r, b) ==
    /\ At(r, "idle")
    /\ b \in Unservable
    /\ Say(r, b, 400)
    /\ UNCHANGED <<stores, cache, w, faults, torn>>

\* The idempotency record answers; nothing is processed again.
Replay(r, b) ==
    /\ At(r, "idle")
    /\ b \notin Unservable
    /\ b \in cache[r]
    /\ Say(r, b, 202)
    /\ UNCHANGED <<stores, cache, w, faults, torn>>

\* Mutant: the idempotency record is written before the batch is processed.
AdmitRecorded(r, b) ==
    /\ At(r, "idle")
    /\ b \notin Unservable \cup cache[r]
    /\ Advance(r, b, 0)
    /\ cache' = [cache EXCEPT ![r] = @ \cup {b}]
    /\ UNCHANGED <<stores, reply, faults, torn>>

Admit(r, b) ==
    /\ At(r, "idle")
    /\ b \notin Unservable
    /\ b \notin cache[r]
    /\ Poisoned(b) => faults < MaxFaults
    /\ Advance(r, b, 0)
    /\ UNCHANGED <<stores, cache, reply, faults, torn>>

RelSelect(r) ==
    /\ At(r, "select")
    /\ w' = [w EXCEPT ![r].pc = "write", ![r].found = rel[Cur(r).urn]]
    /\ UNCHANGED <<stores, cache, reply, faults, torn>>

RelWrite(r) ==
    LET e == Cur(r) IN
    /\ At(r, "write")
    /\ ~InsertRaises(w[r].found, rel[e.urn], e)
    /\ rel' = [rel EXCEPT ![e.urn] = Row(w[r].found, @, e)]
    /\ Goto(r, IF Changed(w[r].found, e) THEN "graph" ELSE "analytics")
    /\ UNCHANGED <<graph, search, events, cache, reply, faults, torn>>

Indexed(u) == KindOf[u] \in SEARCH_ENTITY_TYPES

\* Mutant: search documents are left to a later pass.
GraphWriteLast(r) ==
    /\ At(r, "graph")
    /\ ~GraphRaises(Cur(r))
    /\ graph' = [graph EXCEPT ![Cur(r).urn] = Node(@, Cur(r))]
    /\ Goto(r, "analytics")
    /\ torn' = torn \ {Cur(r).urn}
    /\ UNCHANGED <<rel, search, events, cache, reply, faults>>

GraphWrite(r) ==
    LET e == Cur(r) IN
    /\ At(r, "graph")
    /\ ~GraphRaises(e)
    /\ graph' = [graph EXCEPT ![e.urn] = Node(@, e)]
    /\ Goto(r, IF Indexed(e.urn) THEN "search" ELSE "analytics")
    /\ torn' = IF Indexed(e.urn) THEN torn ELSE torn \ {e.urn}
    /\ UNCHANGED <<rel, search, events, cache, reply, faults>>

SearchWrite(r) ==
    LET e == Cur(r) IN
    /\ At(r, "search")
    /\ search' = [search EXCEPT ![e.urn] = Document(@, e)]
    /\ Goto(r, "analytics")
    /\ torn' = torn \ {e.urn}
    /\ UNCHANGED <<rel, graph, events, cache, reply, faults>>

AnalyticsWrite(r) ==
    /\ At(r, "analytics")
    /\ events' = [events EXCEPT ![<<w[r].batch, w[r].pos>>] = @ + 1]
    /\ Advance(r, w[r].batch, w[r].pos)
    /\ UNCHANGED <<rel, graph, search, cache, reply, faults, torn>>

\* Mutant: the answer is not recorded.
RespondUnrecorded(r) ==
    /\ At(r, "respond")
    /\ Say(r, w[r].batch, 202)
    /\ w' = [w EXCEPT ![r] = Idle]
    /\ UNCHANGED <<stores, cache, faults, torn>>

Respond(r) ==
    /\ At(r, "respond")
    /\ cache' = [cache EXCEPT ![r] = @ \cup {w[r].batch}]
    /\ Say(r, w[r].batch, 202)
    /\ w' = [w EXCEPT ![r] = Idle]
    /\ UNCHANGED <<stores, faults, torn>>
-----------------------------------------------------------------------------
(* How a request ends early. *)

\* The request is over: what it committed stays, what is left is not done.
Abandon(r) ==
    /\ w' = [w EXCEPT ![r] = Idle]
    /\ torn' = IF w[r].pc \in {"graph", "search"} THEN torn \cup {Cur(r).urn} ELSE torn
    /\ faults' = faults + 1
    /\ UNCHANGED stores

\* An exception leaves the loop over the entities and is answered 500.
Raise(r) ==
    /\ Abandon(r)
    /\ Say(r, w[r].batch, 500)
    /\ UNCHANGED cache

\* The entity itself cannot be written.
Poison(r) ==
    /\ \/ At(r, "write") /\ InsertRaises(w[r].found, rel[Cur(r).urn], Cur(r))
       \/ At(r, "graph") /\ GraphRaises(Cur(r))
    /\ Raise(r)

\* Mutant: the entity is tried again for as long as a store fails.
StoreFailsRetried(r) ==
    /\ w[r].pc \in {"select", "write", "graph", "search", "analytics"}
    /\ Goto(r, FirstStore(Cur(r)))
    /\ UNCHANGED <<stores, cache, reply, faults, torn>>

\* A store is out of reach, times out or rejects the call.  A write that was
\* applied but not acknowledged ends the same way as a failure of the call that
\* follows it.
StoreFails(r) ==
    /\ w[r].pc \in {"select", "write", "graph", "search", "analytics"}
    /\ faults < MaxFaults
    /\ Raise(r)

\* The process dies and comes back with no idempotency records, and a request
\* it was serving is never answered.
Restart(r) ==
    /\ faults < MaxFaults
    /\ Abandon(r)
    /\ cache' = [cache EXCEPT ![r] = {}]
    /\ UNCHANGED reply

\* A record passes its time to live; get() drops it and finds nothing.
Expire(r, b) ==
    /\ faults < MaxFaults
    /\ b \in cache[r]
    /\ cache' = [cache EXCEPT ![r] = @ \ {b}]
    /\ faults' = faults + 1
    /\ UNCHANGED <<stores, w, reply, torn>>
-----------------------------------------------------------------------------
Serve(r) == RelSelect(r) \/ RelWrite(r) \/ GraphWrite(r) \/ SearchWrite(r)
              \/ AnalyticsWrite(r) \/ Respond(r) \/ Poison(r)

Next == \E r \in Replica :
            \/ Serve(r)
            \/ StoreFails(r)
            \/ Restart(r)
            \/ \E b \in BatchId : Refuse(r, b) \/ Replay(r, b) \/ Admit(r, b) \/ Expire(r, b)

Spec == Init /\ [][Next]_vars

\* The handler is straight-line code: once it has a batch it runs on.
FairSpec == Spec /\ \A r \in Replica : WF_vars(Serve(r))
-----------------------------------------------------------------------------
(* What must hold. *)

Live(store, u) == store[u].state = "live"

Projects(store, u) == IF Live(rel, u) THEN store[u] = rel[u] ELSE ~Live(store, u)

\* The read models of u say what the system of record says.
InSync(u) ==
    /\ KindOf[u] # "scrape_run" => Projects(graph, u)
    /\ KindOf[u] \in SEARCHABLE_ENTITY_TYPES => Projects(search, u)

Fanning(u) == \E r \in Replica : w[r].pc \in {"graph", "search"} /\ Cur(r).urn = u

\* The graph and the search index may disagree with the relational row of an
\* entity only while a request is between the row and the last projection, or
\* after a fault cut that request there (worker.py:146-191).
Agreement == \A u \in Urn : ~Fanning(u) /\ u \notin torn => InSync(u)

\* When the fan-out of a delete reaches the event log, no store serves the
\* entity any more, even if an earlier attempt at the same delete failed part
\* way (worker.py:39-42, "tombstones must always propagate").
TombstonePropagated ==
    \A r \in Replica :
        At(r, "analytics") /\ Cur(r).op = "delete" =>
            \A store \in {rel, graph, search} : ~Live(store, Cur(r).urn)

\* An entity of a batch is put in the event log again only if an attempt
\* failed, a process restarted or an idempotency record expired: a replayed
\* batch_id is not processed again (service.py:112-114, 150).
EventsOncePerFault == \A s \in Slots : events[s] <= 1 + faults

\* A 202 and an idempotency record both mean that every accepted entity of the
\* batch went all the way to the event log: nothing is recorded for a batch
\* that failed, whatever faults came before (service.py:131-150).
AnsweredIsProcessed ==
    \A r \in Replica, b \in BatchId :
        b \in cache[r] \/ reply[r] = [batch |-> b, status |-> 202] =>
            \A i \in Remaining(b, 0) : events[<<b, i>>] >= 1

\* A reader of the graph or of search never meets a live entity the system of
\* record has no row for, whatever the interleaving of replicas and faults: the
\* relational store is always called first (worker.py:35-38).
LiveHasRow ==
    \A u \in Urn : Live(graph, u) \/ Live(search, u) => rel[u].state # "absent"

\* Whoever holds a 202 for a batch can rely on its entities: the read models
\* agree with the row of each entity the batch carried when the answer is given
\* (idempotency.py:3-7: a retried batch_id is "safe to retry blindly").
AnsweredIsProjected ==
    \A r \in Replica : At(r, "respond") =>
        \A i \in DOMAIN Entities[w[r].batch] :
            Accepts(Entities[w[r].batch][i]) => InSync(Entities[w[r].batch][i].urn)

\* Every row changes by whole upserts and whole tombstones of its current
\* value: with one replica the select-then-write of upsert_entity is atomic
\* (relational/store.py:87-126).
RowsAreCatalog == C!Spec

\* A request a replica has begun always comes to an end.
RequestsEnd == \A r \in Replica : w[r].pc # "idle" ~> w[r].pc = "idle"
=============================================================================
