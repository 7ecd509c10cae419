------------------------------ MODULE MCIngest ------------------------------
(***************************************************************************)
(* Small catalogs for TLC: a table whose content changes and which is then *)
(* dropped, a job and a lineage edge (routed differently by the fan-out),  *)
(* a scrape run, entities validation rejects and a batch the API refuses.  *)
(***************************************************************************)
EXTENDS Ingest, TLC

CONSTANTS t, j, edge, run,           \* URNs
          h1, h2,                    \* content hashes
          b1, b2, b3, b4, b5         \* batches

MCUrn == {t, j, edge, run}
MCHash == {h1, h2}

MCKindOf == [u \in MCUrn |-> CASE u = t    -> "table"
                               [] u = j    -> "job"
                               [] u = edge -> "lineage_edge"
                               [] u = run  -> "scrape_run"]

Put(u, h)       == [urn |-> u, op |-> "upsert", hash |-> h, payload |-> "both"]
Drop(u, shape)  == [urn |-> u, op |-> "delete", hash |-> NoHash, payload |-> shape]
Malformed(u, h) == [urn |-> u, op |-> "upsert", hash |-> h, payload |-> "neither"]

\* One replica: a table and a lineage edge are created, changed and dropped, with
\* entities validation rejects beside them.  b4 cannot get past its last entity, and
\* b5 is refused.
LifeBatches == {b1, b2, b3, b4, b5}
LifeEntities == (b1 :> <<Put(t, h1), Put(edge, h1)>>)
             @@ (b2 :> <<Malformed(edge, h2), Put(t, h2)>>)
             @@ (b3 :> <<Drop(t, "neither"), Drop(edge, "both")>>)
             @@ (b4 :> <<Drop(t, "forbidden"), Put(run, NoHash), Drop(edge, "neither")>>)
             @@ (b5 :> <<Put(t, h2)>>)
LifeUnservable == {b5}

\* A table retried after its fan-out failed part way.
TornBatches == {b1}
TornEntities == b1 :> <<Put(t, h1)>>
=============================================================================
