----------------------------- MODULE MCLineage -----------------------------
(***************************************************************************)
(* Small lineage graphs for TLC: three tables with a shortcut and a cycle, *)
(* a column and its owner, the job that produces an edge, and two tenants  *)
(* that use the same URNs.                                                 *)
(***************************************************************************)
EXTENDS LineagePaths, TLC

CONSTANTS t1, t2, a, b, c, ab, bc, ac, ca, col, job, owner1

TablesAndColumn == {a, b, c, col}
TablesAndJob == {a, b, c, job}
MCEdgeUrn == {ab, bc, ac, ca}
MCOwner == {owner1}
Empty == {}

Entity(t, type, u, op) ==
    [tenant |-> t, type |-> type, urn |-> u, op |-> op, table_urn |-> None, owner |-> None]

Ends(t, u, op, up, down) ==
    [tenant |-> t, type |-> "lineage_edge", urn |-> u, op |-> op,
     upstream |-> [label |-> "table", urn |-> up],
     downstream |-> [label |-> "table", urn |-> down],
     producer_job_urn |-> None]

Column(t) == [Entity(t, "column", col, "upsert") EXCEPT !.table_urn = a, !.owner = owner1]

\* Tables a and c feed each other; c also takes from a by way of b.
Edges == {Ends(t1, ac, "upsert", a, c), Ends(t1, ca, "upsert", c, a),
          Ends(t1, ab, "upsert", a, b), Ends(t1, bc, "upsert", b, c)}

\* Entities and edges in any order, with a deletion of an entity.
OrderRecords ==
    Edges \cup {Entity(t1, "table", u, "upsert") : u \in {a, c}}
          \cup {Entity(t1, "table", a, "delete"), Column(t1)}

\* The two writers are alike.
Writers == Permutations(Writer)

\* Two tenants with the same tables, one edge and its tombstone each, the second
\* hop of the first tenant's chain, and an edge that lacks an end.
TenantRecords ==
    UNION {{Entity(t, "table", b, "upsert"),
            [Ends(t, ab, "upsert", a, b) EXCEPT !.producer_job_urn = job],
            Ends(t, ab, "delete", a, b)} : t \in {t1, t2}}
    \cup {Entity(t1, "table", a, "upsert"), Ends(t1, bc, "upsert", b, c),
          [Ends(t1, ab, "upsert", a, b) EXCEPT !.upstream = None]}

Asks(t, u, d, n) == [tenant |-> t, urn |-> u, direction |-> d, max_hops |-> n]

\* Table a is asked for in both directions while all this is written.
Queries == {Asks(t1, a, "both", 5)}
=============================================================================
