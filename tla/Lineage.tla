------------------------------ MODULE Lineage ------------------------------
(***************************************************************************)
(* The lineage graph and the endpoint that reads it                        *)
(* (control-plane/storage/graph/store.py, control-plane/api/catalog).      *)
(* One upsert of a record is several graph transactions in a row, so the   *)
(* writes of two API processes interleave between them and a failure can   *)
(* leave the later ones undone.  An edge may arrive before the entities it *)
(* joins: MERGE then creates their nodes as stubs, which carry no          *)
(* is_deleted flag.  A read is the check that the anchor exists in the     *)
(* relational store, then one transaction per direction.                   *)
(***************************************************************************)
EXTENDS Naturals

CONSTANTS Writer,     \* API processes that write to the graph
          Tenant, Owner,
          Urn,        \* entities; URNs may be the same from tenant to tenant
          EdgeUrn,    \* lineage edges
          None,       \* an absent field of a record, or no record
          Record,     \* the records that reach the graph store
          Asked,      \* the lineage requests readers make
          MaxWrites   \* bound on the records written

_NODE_LABELS == {"table", "column", "dataset", "job", "dashboard"}

\* The identity of a node.  Owners are nodes too, named by their owner field.
Key == [tenant : Tenant, label : _NODE_LABELS, urn : Urn]
OwnerKey == [tenant : Tenant, label : {"owner"}, urn : Owner]

\* An end of a lineage edge, as its payload names it.
End == [label : _NODE_LABELS, urn : Urn]

NodeRecord == [tenant : Tenant, type : _NODE_LABELS, urn : Urn,
               op : {"upsert", "delete"}, table_urn : Urn \cup {None},
               owner : Owner \cup {None}]

EdgeRecord == [tenant : Tenant, type : {"lineage_edge"}, urn : EdgeUrn,
               op : {"upsert", "delete"}, upstream : End \cup {None},
               downstream : End \cup {None}, producer_job_urn : Urn \cup {None}]

Query == [tenant : Tenant, urn : Urn,
          direction : {"upstream", "downstream", "both"}, max_hops : Nat]

ASSUME LineageAssumption ==
    /\ None \notin Urn \cup Owner \cup End
    /\ Record \subseteq NodeRecord \cup EdgeRecord
    /\ None \notin Record
    /\ Asked \subseteq Query
    /\ MaxWrites \in Nat

VARIABLES row,      \* relational rows, by key
          node,     \* graph nodes, by key
          derives,  \* DERIVES_FROM relationships ever merged
          dropped,  \* those whose is_deleted flag is set
          links,    \* HAS_COLUMN, OWNED_BY, PRODUCES and CONSUMES relationships
          rec,      \* the record each writer is busy with
          todo,     \* the transactions that writer has left to run
          ask,      \* the lineage request in service, or its last answer
          writes,   \* records written so far
          torn      \* keys whose last write was cut short or overlapped another

graph == <<node, derives, dropped, links>>
vars == <<row, graph, rec, todo, ask, writes, torn>>

Edge == [tenant : Tenant, urn : EdgeUrn, up : Key, down : Key]
Link == [rel : {"HAS_COLUMN", "OWNED_BY", "PRODUCES", "CONSUMES"},
         from : Key, to : Key \cup OwnerKey]

Tx == {"node", "parent", "owner", "derive", "job", "tombstone"}

Hit == [urn : Urn, entity_type : _NODE_LABELS, hops : Nat]

Request == [pc : {"idle", "upstream", "downstream"},
            tenant : Tenant \cup {None}, urn : Urn \cup {None},
            direction : {"upstream", "downstream", "both"}, max_hops : Nat,
            status : {0, 200, 404, 422}, up : SUBSET Hit, down : SUBSET Hit]

NoRequest == [pc |-> "idle", tenant |-> None, urn |-> None, direction |-> "both",
              max_hops |-> 0, status |-> 0, up |-> {}, down |-> {}]

TypeOK ==
    /\ row \in [Key -> {"absent", "live", "deleted"}]
    /\ node \in [Key -> {"none", "stub", "live", "deleted"}]
    /\ derives \subseteq Edge
    /\ dropped \subseteq derives
    /\ links \subseteq Link
    /\ rec \in [Writer -> Record \cup {None}]
    /\ todo \in [Writer -> SUBSET Tx]
    /\ ask \in Request
    /\ writes \in Nat
    /\ torn \subseteq Key

Init ==
    /\ row = [k \in Key |-> "absent"]
    /\ node = [k \in Key |-> "none"]
    /\ derives = {} /\ dropped = {} /\ links = {}
    /\ rec = [x \in Writer |-> None]
    /\ todo = [x \in Writer |-> {}]
    /\ ask = NoRequest
    /\ writes = 0
    /\ torn = {}
-----------------------------------------------------------------------------
(* Writing a record.                                                       *)

IsEdge(r) == r.type = "lineage_edge"

\* The payload of an edge lacks an end, or names no known entity type.
Raises(r) == IsEdge(r) /\ None \in {r.upstream, r.downstream}

\* Mutant: a record is linked to its owner or to its table, not to both.
PlanEither(r) ==
    IF Raises(r) THEN {} ELSE
    IF IsEdge(r) THEN IF r.op = "delete" THEN {"tombstone"} ELSE {"derive"}
    ELSE {"node"} \cup IF r.owner # None THEN {"owner"}
                       ELSE IF r.type = "column" THEN {"parent"} ELSE {}

\* The transactions upsert_entity runs for a record.
Plan(r) ==
    {tx \in Tx :
       /\ ~Raises(r)
       /\ \/ tx = "node" /\ ~IsEdge(r)
          \/ tx = "parent" /\ r.op = "upsert" /\ r.type = "column" /\ r.table_urn # None
          \/ tx = "owner" /\ r.op = "upsert" /\ ~IsEdge(r) /\ r.owner # None
          \/ tx = "derive" /\ r.op = "upsert" /\ IsEdge(r)
          \/ tx = "job" /\ r.op = "upsert" /\ IsEdge(r) /\ r.producer_job_urn # None
          \/ tx = "tombstone" /\ r.op = "delete" /\ IsEdge(r)}

\* The order it runs them in.
Before == {<<"node", "parent">>, <<"node", "owner">>, <<"parent", "owner">>, <<"derive", "job">>}

KeyOf(r, end) == [tenant |-> r.tenant, label |-> end.label, urn |-> end.urn]
Self(r) == KeyOf(r, [label |-> r.type, urn |-> r.urn])
Parent(r) == KeyOf(r, [label |-> "table", urn |-> r.table_urn])
Job(r) == KeyOf(r, [label |-> "job", urn |-> r.producer_job_urn])
EdgeOf(r) == [tenant |-> r.tenant, urn |-> r.urn,
              up |-> KeyOf(r, r.upstream), down |-> KeyOf(r, r.downstream)]

\* MERGE of a node a relationship needs: a missing one is created bare.
Merged(keys) == [k \in Key |-> IF k \in keys /\ node[k] = "none" THEN "stub" ELSE node[k]]

Busy(x) == todo[x] # {}

BusyWith(x, k) == Busy(x) /\ ~IsEdge(rec[x]) /\ Self(rec[x]) = k

\* The relational store has the record before the graph does.
Upserted(r) ==
    LET k == Self(r) IN
    [row EXCEPT ![k] = IF r.op = "upsert" THEN "live"
                       ELSE IF @ = "absent" THEN @ ELSE "deleted"]

Begin(x, r) ==
    /\ ~Busy(x)
    /\ writes < MaxWrites
    /\ writes' = writes + 1
    /\ rec' = [rec EXCEPT ![x] = r]
    /\ todo' = [todo EXCEPT ![x] = Plan(r)]
    /\ IF IsEdge(r)
       THEN UNCHANGED <<row, torn>>
       ELSE /\ row' = Upserted(r)
            /\ torn' = IF \E y \in Writer : BusyWith(y, Self(r))
                       THEN torn \cup {Self(r)} ELSE torn \ {Self(r)}
    /\ UNCHANGED <<graph, ask>>

\* Writer x commits its next transaction, which is tx.
Commits(x, tx) ==
    /\ tx \in todo[x]
    /\ \A earlier \in todo[x] : <<earlier, tx>> \notin Before
    /\ todo' = [todo EXCEPT ![x] = @ \ {tx}]
    /\ UNCHANGED <<row, rec, ask, writes, torn>>

\* Mutant: is_deleted is set when the node is created, and by deletes.
MergeNodeOnce(x) ==
    LET r == rec[x] IN
    /\ Commits(x, "node")
    /\ node' = [node EXCEPT ![Self(r)] =
                  IF r.op = "delete" THEN "deleted" ELSE IF @ = "none" THEN "live" ELSE @]
    /\ UNCHANGED <<derives, dropped, links>>

_merge_node_tx(x) ==
    LET r == rec[x] IN
    /\ Commits(x, "node")
    /\ node' = [node EXCEPT ![Self(r)] = IF r.op = "delete" THEN "deleted" ELSE "live"]
    /\ UNCHANGED <<derives, dropped, links>>

_link_tx(x) ==
    LET r == rec[x] IN
    /\ Commits(x, "parent")
    /\ node' = Merged({Parent(r), Self(r)})
    /\ links' = links \cup {[rel |-> "HAS_COLUMN", from |-> Parent(r), to |-> Self(r)]}
    /\ UNCHANGED <<derives, dropped>>

_link_owner_tx(x) ==
    LET r == rec[x]
        o == [tenant |-> r.tenant, label |-> "owner", urn |-> r.owner] IN
    /\ Commits(x, "owner")
    /\ node' = Merged({Self(r)})
    /\ links' = links \cup {[rel |-> "OWNED_BY", from |-> Self(r), to |-> o]}
    /\ UNCHANGED <<derives, dropped>>

\* An edge merged again is no longer deleted.
_merge_derives_from_tx(x) ==
    LET e == EdgeOf(rec[x]) IN
    /\ Commits(x, "derive")
    /\ node' = Merged({e.up, e.down})
    /\ derives' = derives \cup {e}
    /\ dropped' = dropped \ {e}
    /\ UNCHANGED links

_merge_job_edges_tx(x) ==
    LET r == rec[x]
        e == EdgeOf(r) IN
    /\ Commits(x, "job")
    /\ node' = Merged({Job(r), e.up, e.down})
    /\ links' = links \cup {[rel |-> "PRODUCES", from |-> Job(r), to |-> e.down],
                            [rel |-> "CONSUMES", from |-> Job(r), to |-> e.up]}
    /\ UNCHANGED <<derives, dropped>>

\* Mutant: the relationship is looked up by its URN alone.
TombstoneAnyones(x) ==
    LET r == rec[x] IN
    /\ Commits(x, "tombstone")
    /\ dropped' = dropped \cup {e \in derives : e.urn = r.urn}
    /\ UNCHANGED <<node, derives, links>>

\* Mutant: the tombstone is merged and not matched.
TombstoneMerged(x) ==
    LET r == rec[x] IN
    /\ Commits(x, "tombstone")
    /\ dropped' = dropped \cup {EdgeOf(r)}
    /\ UNCHANGED <<node, derives, links>>

_tombstone_lineage_edge_tx(x) ==
    LET r == rec[x] IN
    /\ Commits(x, "tombstone")
    /\ dropped' = dropped \cup {e \in derives : e.tenant = r.tenant /\ e.urn = r.urn}
    /\ UNCHANGED <<node, derives, links>>

\* A transaction fails, or the process stops, before the plan is through.
Cut(x) ==
    /\ Busy(x)
    /\ todo' = [todo EXCEPT ![x] = {}]
    /\ torn' = IF IsEdge(rec[x]) THEN torn ELSE torn \cup {Self(rec[x])}
    /\ UNCHANGED <<row, graph, rec, ask, writes>>
-----------------------------------------------------------------------------
(* Reading lineage.                                                        *)

\* The relationships of a path that visits nodes of tenant t only.
EdgesOf(t) == {e \in derives : e.up.tenant = t /\ e.down.tenant = t}

\* Mutant: every node is returned.
LiveOfAny(t) == {k \in Key : k.tenant = t /\ node[k] # "none"}

\* The nodes a traversal of tenant t may return; a stub is not among them.
LiveOf(t) == {k \in Key : k.tenant = t /\ node[k] = "live"}

\* The nodes with the anchor's URN, whatever their label and state.
AnchorsOf(t, u) == {k \in Key : k.tenant = t /\ k.urn = u /\ node[k] # "none"}

\* One hop from the nodes S.
Across(E, S, direction) ==
    IF direction = "upstream" THEN {e.up : e \in {f \in E : f.down \in S}}
                              ELSE {e.down : e \in {f \in E : f.up \in S}}

\* What each number of hops from the nodes A ends in.
Reached(E, A, direction, n) ==
    LET reached[h \in 0..n] == IF h = 0 THEN A ELSE Across(E, reached[h - 1], direction)
    IN  reached

HitOf(k, h) == [urn |-> k.urn, entity_type |-> k.label, hops |-> h]

\* Mutant: a node is returned with the length of every path to it.
TraverseEvery(E, N, A, direction, n) ==
    LET reached == Reached(E, A, direction, n)
    IN  UNION {{HitOf(k, h) : k \in N \cap reached[h]} : h \in 1..n}

\* The nodes of N that a path of 1..n hops from A ends in, with the fewest hops.
\* The fewest-hop path repeats no relationship, so walks find what paths do.
_traverse_tx(E, N, A, direction, n) ==
    LET reached == Reached(E, A, direction, n)
        nearer(h) == UNION {reached[g] : g \in 1..(h - 1)}
    IN  UNION {{HitOf(k, h) : k \in (N \cap reached[h]) \ nearer(h)} : h \in 1..n}

_MAX_HOPS_CEILING == 15

Clamp(n) == IF n < 1 THEN 1 ELSE IF n > _MAX_HOPS_CEILING THEN _MAX_HOPS_CEILING ELSE n

Traversal(t, u, direction, n) ==
    _traverse_tx(EdgesOf(t), LiveOf(t), AnchorsOf(t, u), direction, Clamp(n))

Catalogued(t, u) == row[[tenant |-> t, label |-> "table", urn |-> u]] # "absent"

\* The anchor must have a row in the table of tables, deleted or not.
get_table_lineage(q) ==
    LET status == IF q.max_hops \notin 1..10 THEN 422
                  ELSE IF ~Catalogued(q.tenant, q.urn) THEN 404 ELSE 0
        first == IF q.direction = "downstream" THEN "downstream" ELSE "upstream" IN
    /\ ask.pc = "idle"
    /\ ask' = [pc |-> IF status = 0 THEN first ELSE "idle", tenant |-> q.tenant,
               urn |-> q.urn, direction |-> q.direction, max_hops |-> q.max_hops,
               status |-> status, up |-> {}, down |-> {}]
    /\ UNCHANGED <<row, graph, rec, todo, writes, torn>>

ReadUpstream ==
    /\ ask.pc = "upstream"
    /\ ask' = [ask EXCEPT
                 !.up = Traversal(ask.tenant, ask.urn, "upstream", ask.max_hops),
                 !.pc = IF ask.direction = "both" THEN "downstream" ELSE "idle",
                 !.status = IF ask.direction = "both" THEN 0 ELSE 200]
    /\ UNCHANGED <<row, graph, rec, todo, writes, torn>>

\* Mutant: the second half of the answer looks the same way as the first.
ReadDownstreamUp ==
    /\ ask.pc = "downstream"
    /\ ask' = [ask EXCEPT
                 !.down = Traversal(ask.tenant, ask.urn, "upstream", ask.max_hops),
                 !.pc = "idle", !.status = 200]
    /\ UNCHANGED <<row, graph, rec, todo, writes, torn>>

ReadDownstream ==
    /\ ask.pc = "downstream"
    /\ ask' = [ask EXCEPT
                 !.down = Traversal(ask.tenant, ask.urn, "downstream", ask.max_hops),
                 !.pc = "idle", !.status = 200]
    /\ UNCHANGED <<row, graph, rec, todo, writes, torn>>
-----------------------------------------------------------------------------
Steps(x) ==
    \/ _merge_node_tx(x) \/ _link_tx(x) \/ _link_owner_tx(x)
    \/ _merge_derives_from_tx(x) \/ _merge_job_edges_tx(x)
    \/ _tombstone_lineage_edge_tx(x)

Read ==
    \/ \E q \in Asked : get_table_lineage(q)
    \/ ReadUpstream
    \/ ReadDownstream

Next ==
    \/ \E x \in Writer : (\E r \in Record : Begin(x, r)) \/ Steps(x) \/ Cut(x)
    \/ Read

Spec == Init /\ [][Next]_vars
-----------------------------------------------------------------------------
(* Properties. *)

\* The last write of k is through and was neither cut nor overlapped.
Settled(k) == k \notin torn /\ \A x \in Writer : ~BusyWith(x, k)

Served(t, u, direction) == {<<hit.urn, hit.entity_type>> : hit \in Traversal(t, u, direction, 1)}

\* Relationships and their ends belong to one tenant, that of the record that
\* created them, although URNs are the same from tenant to tenant.
GraphStaysInTenant ==
    /\ \A e \in derives : e.up.tenant = e.tenant /\ e.down.tenant = e.tenant
    /\ \A l \in links : l.from.tenant = l.to.tenant

\* What the stores hold of tenant t.
GraphOf(t) ==
    [nodes   |-> [k \in {q \in Key : q.tenant = t} |-> node[k]],
     derives |-> EdgesOf(t),
     dropped |-> dropped \cap EdgesOf(t),
     links   |-> {l \in links : l.from.tenant = t}]

\* No writer that is busy with a record of tenant t takes a step.
Uninvolved(t) ==
    \A x \in Writer : Busy(x) /\ rec[x].tenant = t => todo'[x] = todo[x]

\* A step of a write changes the graph of the record's tenant only, and with it
\* nobody else's lineage, whatever the anchor, the direction and the hops (two here).
NoInterference ==
    [][\A t \in Tenant : Uninvolved(t) =>
         /\ GraphOf(t)' = GraphOf(t)
         /\ \A u \in Urn, d \in {"upstream", "downstream"}, n \in 1..2 :
              Traversal(t, u, d, n)' = Traversal(t, u, d, n)]_vars

\* Edges and the entities they join may arrive in any order: once an entity's own
\* write is through, both ends of an edge that is not deleted see each other.
SettledEdgesAreServed ==
    \A e \in derives \ dropped :
        /\ Settled(e.up) /\ row[e.up] = "live" =>
             <<e.up.urn, e.up.label>> \in Served(e.tenant, e.down.urn, "upstream")
        /\ Settled(e.down) /\ row[e.down] = "live" =>
             <<e.down.urn, e.down.label>> \in Served(e.tenant, e.up.urn, "downstream")

\* What the relational store does not hold as live is nobody's lineage, however
\* many edges still lead to it.
TombstonesAreNotServed ==
    \A k \in Key : Settled(k) /\ row[k] # "live" =>
        \A u \in Urn, d \in {"upstream", "downstream"} :
            <<k.urn, k.label>> \notin Served(k.tenant, u, d)

\* The API's schema of a column requires the URN of its table.
ColumnsNameTheirTable ==
    \A r \in Record : r.type = "column" /\ r.op = "upsert" => r.table_urn # None

\* A live column hangs off a table once its write is through.
ColumnsAreAttached ==
    \A k \in Key : k.label = "column" /\ row[k] = "live" /\ Settled(k) =>
        \E l \in links : l.rel = "HAS_COLUMN" /\ l.to = k

\* A deleted edge leads nowhere: whatever is one hop upstream is so by an edge
\* that is not deleted.
DroppedEdgesAreNotServed ==
    \A t \in Tenant, u \in Urn : \A hit \in Traversal(t, u, "upstream", 1) :
        \E e \in derives \ dropped : e.tenant = t /\ e.down.urn = u /\ e.up.urn = hit.urn
=============================================================================
